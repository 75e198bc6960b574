----------------------------- MODULE PbftProofs -----------------------------
(***************************************************************************)
(* The safety of PBFT, for any order of the nodes, any requesters and any  *)
(* schedule of time-outs, losses, refusals, nodes that are down and        *)
(* restarts.                                                               *)
(*                                                                         *)
(* Types first; then that no buffer has counted more than the node has     *)
(* heard (HeardEnough), from which every count tells how many have sent    *)
(* (CertInv); then what chains and votes look like (ChainInv), that a      *)
(* blocker builds one block on a parent (SentInv, OneBlock), and that      *)
(* without time-outs there is one blocker (LeaderInv).                     *)
(*                                                                         *)
(* Last, that the nodes rest only when they are done, as long as nothing   *)
(* goes wrong (QuietInv): blocks come one after the other (OrderInv), each *)
(* of them has been asked of all (StageInv), what a node hears it counts   *)
(* (CountsInv) and answers (RepliesInv), and some requester gets two of    *)
(* the answers.  What they do meanwhile is bounded (UsesUp).               *)
(***************************************************************************)
EXTENDS Pbft, FiniteSetTheorems, SequenceTheorems, TLAPS

Kinds == {"prepare", "commit"}

TypeInv == TypeOK /\ heard \in [Nodes -> [Kinds -> [AllHashes -> Nat]]]

\* A buffer counts messages that were heard.
HeardEnough ==
    \A n \in Nodes, kind \in Kinds :
        LET buf == buffer[n][kind]
        IN  buf.block # NoHash => buf.count <= heard[n][kind][buf.block]

\* Who is asked is not the blocker, and a blocker collects what it has built.
AskedInv ==
    /\ \A v \in waiting \cup verifying \cup prepared : v[2] # blocks[v[1]].maker
    /\ \A n \in Nodes : collect[n] # NoHash => blocks[collect[n]].maker = n

\* Whoever committed has counted two prepares, whatever became of its buffer since.
CommitInv == \A v \in committed : Cardinality(SendersOf("prepare", v[1])) >= 2

\* Whoever replied has counted three commits: there were as many when a reply is sent,
\* counted, or followed by the publication of the block.
Enough(b) == Cardinality(SendersOf("commit", b)) >= 3

ReplyInv ==
    /\ \A b \in AllHashes, r \in Requesters : replies[b][r] > 0 => Enough(b)
    /\ \A n \in Nodes, r \in Requesters :
          counter[n][r].block # NoHash => Enough(counter[n][r].block)
    /\ \A b \in published : Enough(b)

\* Only published blocks are stored, and a block is published on one of those.
StoredInv ==
    /\ \A b \in published : blocks[b].prev \in published \cup {Genesis}
    /\ \A n \in Nodes : \A i \in DOMAIN chain[n] : chain[n][i] \in published

CertInv == AskedInv /\ CommitInv /\ ReplyInv /\ StoredInv

\* A block is one higher than its parent, which is older; a chain is one of parents; and
\* a voter draws at blocks of its chain.
Below(n, i) == IF i = 1 THEN Genesis ELSE chain[n][i - 1]
OwnChain(n) == {Genesis} \cup {chain[n][i] : i \in DOMAIN chain[n]}

ParentInv ==
    \A b \in Hashes :
        blocks[b].prev \in 0 .. b - 1 /\ blocks[b].height = HeightOf(blocks[b].prev) + 1

LinkInv ==
    \A n \in Nodes : \A i \in DOMAIN chain[n] :
        blocks[chain[n][i]].prev = Below(n, i) /\ HeightOf(chain[n][i]) = i

DrawnInv ==
    \A n \in Nodes : vote[n].hash # NoHash =>
        vote[n].hash \in OwnChain(n) /\ vote[n].index \in 0 .. schedule.index[n]

ChainInv == ParentInv /\ LinkInv /\ DrawnInv

\* A blocker that has not restarted has built below where it draws, and remembers the
\* highest; while it builds it has not built there yet.
MadeBy(n) == {b \in Hashes : blocks[b].maker = n}

SentInv ==
    \A n \in Nodes \ restarted : \A b \in MadeBy(n) :
        /\ blocks[b].prev \in OwnChain(n) /\ vote[n].hash # NoHash
        /\ preblock[n] \in MadeBy(n)
        /\ HeightOf(blocks[b].prev) <= HeightOf(blocks[preblock[n]].prev)
        /\ HeightOf(blocks[b].prev) <= HeightOf(vote[n].hash)
        /\ n \in packing => HeightOf(blocks[b].prev) < HeightOf(vote[n].hash)

OneBlock ==
    \A b, c \in Hashes : Rivals(b, c) /\ blocks[b].maker = blocks[c].maker =>
                             blocks[b].maker \in restarted

\* Without time-outs it is always the first one's turn.
LeaderInv ==
    ~TimedOut => packing \subseteq {Order[1]} /\ \A b \in Hashes : blocks[b].maker = Order[1]

AgreementInv == ~TimedOut /\ restarted = {} => Agreement

Invariant == /\ TypeInv /\ HeardEnough /\ CertInv /\ ChainInv /\ SentInv /\ OneBlock
             /\ LeaderInv /\ AgreementInv

-----------------------------------------------------------------------------
(* Types.                                                                   *)

LEMMA ConstantFacts ==
    /\ Order \in Seq(Nodes) /\ Len(Order) \in Nat \ {0} /\ Order[1] \in Nodes
    /\ \A n \in Nodes : \E i \in 1 .. Len(Order) : n = Order[i]
    /\ IsFiniteSet(Nodes) /\ MaxBlocks \in Nat /\ Schedules \subseteq ScheduleRecords
<1>1. /\ Order \in Seq(Nodes) /\ Order # <<>> /\ MaxBlocks \in Nat
      /\ Schedules \subseteq ScheduleRecords
  BY PbftAssumption DEF PbftAssumption
<1>2. Len(Order) \in Nat \ {0} /\ DOMAIN Order = 1 .. Len(Order)
  BY <1>1, LenProperties, EmptySeq
<1>3. \A n \in Nodes : \E i \in 1 .. Len(Order) : n = Order[i]
  BY <1>2 DEF Nodes
<1>4. Order[1] \in Nodes
  BY <1>2 DEF Nodes
<1>5. IsFiniteSet(Nodes)
  <2>1. IsFiniteSet(1 .. Len(Order))
    BY <1>2, FS_Interval
  <2> DEFINE f == [i \in 1 .. Len(Order) |-> Order[i]]
  <2>2. f \in Surjection(1 .. Len(Order), Nodes)
    BY <1>2, <1>3 DEF Surjection, Nodes
  <2> QED BY <2>1, <2>2, FS_Surjection
<1> QED BY <1>1, <1>2, <1>3, <1>4, <1>5

\* The record sets of TypeOK, by name.
BlockRecords == [prev : 0 .. MaxBlocks, height : Nat, maker : Nodes]
VoteRecords == [index : Nat \cup {-1}, hash : Hashes \cup {Genesis, NoHash}]
BufferRecords == [prepare : Buffers(1), commit : Buffers(2)]
HeardFunctions == [Nodes -> [Kinds -> [AllHashes -> Nat]]]
HeardBound ==
    \A n \in Nodes, kind \in Kinds, b \in AllHashes :
        heard[n][kind][b] \in 0 .. Cardinality(SendersOf(kind, b))

LEMMA TypeFacts ==
    TypeInv <=>
        /\ blocks \in Seq(BlockRecords) /\ Len(blocks) <= MaxBlocks
        /\ chain \in [Nodes -> Seq(Hashes)]
        /\ vote \in [Nodes -> VoteRecords]
        /\ packing \subseteq Nodes
        /\ preblock \in [Nodes -> Hashes \cup {NoHash}]
        /\ collect \in [Nodes -> Hashes \cup {NoHash}]
        /\ collector \in [Nodes -> Hashes \cup {NoHash}]
        /\ waiting \subseteq Hashes \X Nodes /\ verifying \subseteq Hashes \X Nodes
        /\ prepared \subseteq Hashes \X Nodes /\ committed \subseteq Hashes \X Nodes
        /\ published \subseteq Hashes
        /\ replies \in [AllHashes -> [Requesters -> Nat]]
        /\ buffer \in [Nodes -> BufferRecords]
        /\ counter \in [Nodes -> [Requesters -> Buffers(1)]]
        /\ heard \in HeardFunctions /\ HeardBound
        /\ mishaps \in Nat /\ restarted \subseteq schedule.restart
        /\ schedule \in Schedules
BY DEF TypeInv, TypeOK, BlockRecords, VoteRecords, BufferRecords, HeardFunctions, HeardBound,
       Kinds

\* What there is to send to and to count.
LEMMA HashFacts ==
    ASSUME TypeInv
    PROVE  /\ Len(blocks) \in Nat /\ Hashes = DOMAIN blocks /\ Hashes \subseteq AllHashes
           /\ NoHash \notin Hashes /\ Genesis \notin Hashes /\ Genesis # NoHash
           /\ \A b \in Hashes : /\ b \in Nat /\ blocks[b] \in BlockRecords
                                /\ blocks[b].maker \in Nodes /\ blocks[b].height \in Nat
                                /\ blocks[b].prev \in 0 .. MaxBlocks
           /\ \A h \in Hashes \cup {Genesis} : HeightOf(h) \in Nat
<1>1. blocks \in Seq(BlockRecords) /\ Len(blocks) <= MaxBlocks /\ MaxBlocks \in Nat
  BY TypeFacts, ConstantFacts
<1>2. Len(blocks) \in Nat /\ Hashes = DOMAIN blocks /\ Hashes \subseteq AllHashes
  BY <1>1 DEF Hashes, AllHashes
<1>3. NoHash \notin Hashes /\ Genesis \notin Hashes /\ Genesis # NoHash
  BY DEF Hashes, NoHash, Genesis
<1>4. \A b \in Hashes : b \in Nat /\ blocks[b] \in BlockRecords
  BY <1>1, <1>2 DEF Hashes
<1>5. \A b \in Hashes : /\ blocks[b].maker \in Nodes /\ blocks[b].height \in Nat
                        /\ blocks[b].prev \in 0 .. MaxBlocks
  BY <1>4 DEF BlockRecords
<1>6. \A h \in Hashes \cup {Genesis} : HeightOf(h) \in Nat
  BY <1>5 DEF HeightOf
<1> QED BY <1>2, <1>3, <1>4, <1>5, <1>6

\* Who has sent is a finite set that only grows.
LEMMA SendersFacts ==
    \A kind \in Kinds : \A b : /\ IsFiniteSet(SendersOf(kind, b))
                           /\ Cardinality(SendersOf(kind, b)) \in Nat
<1> TAKE kind \in Kinds
<1> TAKE b
<1>1. SendersOf(kind, b) \in SUBSET Nodes
  BY DEF SendersOf
<1>2. IsFiniteSet(SendersOf(kind, b))
  BY <1>1, ConstantFacts, FS_Subset
<1> QED BY <1>2, FS_CardinalityType

LEMMA MoreIsMore ==
    ASSUME NEW S \in SUBSET Nodes, NEW T \in SUBSET Nodes, S \subseteq T
    PROVE  /\ IsFiniteSet(T) /\ Cardinality(S) \in Nat /\ Cardinality(T) \in Nat
           /\ Cardinality(S) <= Cardinality(T)
<1>1. IsFiniteSet(T)
  BY ConstantFacts, FS_Subset
<1>2. IsFiniteSet(S) /\ Cardinality(S) <= Cardinality(T)
  BY <1>1, FS_Subset
<1> QED BY <1>1, <1>2, FS_CardinalityType

LEMMA SendersGrow ==
    ASSUME prepared \subseteq prepared', committed \subseteq committed'
    PROVE  \A kind \in Kinds : \A b :
               /\ SendersOf(kind, b) \subseteq SendersOf(kind, b)'
               /\ Cardinality(SendersOf(kind, b)') \in Nat
               /\ Cardinality(SendersOf(kind, b)) \in Nat
               /\ Cardinality(SendersOf(kind, b)) <= Cardinality(SendersOf(kind, b)')
<1> TAKE kind \in Kinds
<1> TAKE b
<1>1. SendersOf(kind, b) \subseteq SendersOf(kind, b)'
  BY DEF SendersOf
<1>2. SendersOf(kind, b) \in SUBSET Nodes /\ SendersOf(kind, b)' \in SUBSET Nodes
  BY DEF SendersOf
<1> QED BY <1>1, <1>2, MoreIsMore

LEMMA HeardKept ==
    ASSUME TypeInv, heard' = heard, prepared \subseteq prepared', committed \subseteq committed'
    PROVE  HeardBound'
<1> SUFFICES ASSUME NEW n \in Nodes, NEW kind \in Kinds, NEW b \in AllHashes
             PROVE  heard[n][kind][b] \in 0 .. Cardinality(SendersOf(kind, b)')
  BY DEF HeardBound
<1>1. heard[n][kind][b] \in 0 .. Cardinality(SendersOf(kind, b))
  BY TypeFacts DEF HeardBound
<1>2. PICK i, j, k \in Int : /\ i = Cardinality(SendersOf(kind, b))
                             /\ j = Cardinality(SendersOf(kind, b)')
                             /\ k = heard[n][kind][b] /\ i <= j
  BY <1>1, SendersGrow
<1>3. k \in 0 .. i
  BY <1>1, <1>2
<1>4. k \in 0 .. j
  BY <1>2, <1>3
<1> QED BY <1>2, <1>4

\* One more message is heard, that was sent.
LEMMA HearsFacts ==
    ASSUME TypeInv, NEW n \in Nodes, NEW kind \in Kinds, NEW b \in Hashes,
           Underway(kind, b, n), Hears(kind, b, n),
           prepared \subseteq prepared', committed \subseteq committed'
    PROVE  /\ heard' \in HeardFunctions /\ HeardBound'
           /\ heard'[n][kind][b] = heard[n][kind][b] + 1
           /\ \A m \in Nodes, k \in Kinds, c \in AllHashes :
                  /\ heard[m][k][c] <= heard'[m][k][c]
                  /\ heard'[m][k][c] = heard[m][k][c] \/ (m = n /\ k = kind /\ c = b)
<1>1. heard \in HeardFunctions /\ HeardBound /\ b \in AllHashes
  BY TypeFacts, HashFacts
<1> DEFINE h == heard[n][kind][b]
<1>2. h \in Nat
  BY <1>1 DEF HeardFunctions
<1>3. /\ heard' \in HeardFunctions
      /\ \A m \in Nodes, k \in Kinds, c \in AllHashes :
             heard'[m][k][c] = IF m = n /\ k = kind /\ c = b THEN h + 1 ELSE heard[m][k][c]
  <2>1. h + 1 \in Nat
    BY <1>2
  <2>2. heard' = [heard EXCEPT ![n][kind][b] = h + 1]
    BY DEF Hears
  <2> HIDE DEF h
  <2> QED BY <1>1, <2>1, <2>2 DEF HeardFunctions
<1>4. HeardBound'
  <2> SUFFICES ASSUME NEW m \in Nodes, NEW k \in Kinds, NEW c \in AllHashes
               PROVE  heard'[m][k][c] \in 0 .. Cardinality(SendersOf(k, c)')
    BY DEF HeardBound
  <2>1. heard[m][k][c] \in 0 .. Cardinality(SendersOf(k, c))
    BY <1>1 DEF HeardBound
  <2>2. PICK i, j, x \in Int : /\ i = Cardinality(SendersOf(k, c))
                               /\ j = Cardinality(SendersOf(k, c)')
                               /\ x = heard[m][k][c] /\ i <= j
    BY <2>1, SendersGrow
  <2>3. x \in 0 .. i
    BY <2>1, <2>2
  <2>4. CASE m = n /\ k = kind /\ c = b
    <3>1. x < i /\ h = x
      BY <2>2, <2>4 DEF Underway
    <3>2. x + 1 \in 0 .. j
      BY <2>2, <2>3, <3>1
    <3> QED BY <1>3, <2>2, <2>4, <3>1, <3>2
  <2>5. CASE ~(m = n /\ k = kind /\ c = b)
    <3>1. x \in 0 .. j
      BY <2>2, <2>3
    <3> QED BY <1>3, <2>2, <2>5, <3>1
  <2> QED BY <2>4, <2>5
<1>5. \A m \in Nodes, k \in Kinds, c \in AllHashes : heard[m][k][c] <= heard'[m][k][c]
  <2> TAKE m \in Nodes, k \in Kinds, c \in AllHashes
  <2>1. heard[m][k][c] \in Nat
    BY <1>1 DEF HeardFunctions
  <2> QED BY <1>2, <1>3, <2>1
<1> QED BY <1>1, <1>3, <1>4, <1>5

\* The types of a step that builds no block.
LEMMA TypeStep ==
    ASSUME TypeInv, blocks' = blocks, schedule' = schedule,
           chain' = chain \/ chain' \in [Nodes -> Seq(Hashes)],
           vote' = vote \/ vote' \in [Nodes -> VoteRecords],
           packing' = packing \/ packing' \subseteq Nodes,
           preblock' = preblock \/ preblock' \in [Nodes -> Hashes \cup {NoHash}],
           collect' = collect \/ collect' \in [Nodes -> Hashes \cup {NoHash}],
           collector' = collector \/ collector' \in [Nodes -> Hashes \cup {NoHash}],
           waiting' = waiting \/ waiting' \subseteq Hashes \X Nodes,
           verifying' = verifying \/ verifying' \subseteq Hashes \X Nodes,
           prepared' = prepared \/ prepared' \subseteq Hashes \X Nodes,
           committed' = committed \/ committed' \subseteq Hashes \X Nodes,
           published' = published \/ published' \subseteq Hashes,
           replies' = replies \/ replies' \in [AllHashes -> [Requesters -> Nat]],
           buffer' = buffer \/ buffer' \in [Nodes -> BufferRecords],
           counter' = counter \/ counter' \in [Nodes -> [Requesters -> Buffers(1)]],
           heard' = heard \/ heard' \in HeardFunctions, HeardBound',
           mishaps' = mishaps \/ mishaps' \in Nat,
           restarted' = restarted \/ restarted' \subseteq schedule.restart
    PROVE  TypeInv'
<1>1. Hashes' = Hashes
  BY DEF Hashes
<1>2. VoteRecords' = VoteRecords /\ BufferRecords' = BufferRecords /\ Buffers(1)' = Buffers(1)
  BY <1>1 DEF VoteRecords, BufferRecords, Buffers
<1>3. (TypeInv)' <=>
        /\ blocks' \in Seq(BlockRecords) /\ Len(blocks') <= MaxBlocks
        /\ chain' \in [Nodes -> Seq(Hashes')]
        /\ vote' \in [Nodes -> VoteRecords']
        /\ packing' \subseteq Nodes
        /\ preblock' \in [Nodes -> Hashes' \cup {NoHash}]
        /\ collect' \in [Nodes -> Hashes' \cup {NoHash}]
        /\ collector' \in [Nodes -> Hashes' \cup {NoHash}]
        /\ waiting' \subseteq Hashes' \X Nodes /\ verifying' \subseteq Hashes' \X Nodes
        /\ prepared' \subseteq Hashes' \X Nodes /\ committed' \subseteq Hashes' \X Nodes
        /\ published' \subseteq Hashes'
        /\ replies' \in [AllHashes -> [Requesters -> Nat]]
        /\ buffer' \in [Nodes -> BufferRecords']
        /\ counter' \in [Nodes -> [Requesters -> Buffers(1)']]
        /\ heard' \in HeardFunctions /\ HeardBound'
        /\ mishaps' \in Nat /\ restarted' \subseteq schedule'.restart
        /\ schedule' \in Schedules
  BY DEF TypeInv, TypeOK, BlockRecords, VoteRecords, BufferRecords, HeardFunctions,
         HeardBound, Kinds
<1> QED BY <1>1, <1>2, <1>3, TypeFacts

LEMMA TipType ==
    ASSUME TypeInv, NEW n \in Nodes
    PROVE  /\ Tip(n) \in Hashes \cup {Genesis} /\ Tip(n) # NoHash /\ Height(n) \in Nat
           /\ chain[n] \in Seq(Hashes) /\ DOMAIN chain[n] = 1 .. Height(n)
           /\ chain[n] = <<>> => Height(n) = 0 /\ Tip(n) = Genesis
           /\ chain[n] # <<>> => Height(n) \in DOMAIN chain[n] /\ Tip(n) = chain[n][Height(n)]
<1>1. chain[n] \in Seq(Hashes) /\ NoHash \notin Hashes /\ Genesis # NoHash
  BY TypeFacts, HashFacts
<1>2. Height(n) \in Nat /\ DOMAIN chain[n] = 1 .. Height(n)
  BY <1>1, LenProperties DEF Height
<1>3. CASE chain[n] = <<>>
  BY <1>1, <1>2, <1>3 DEF Tip, Height
<1>4. CASE chain[n] # <<>>
  <2>1. Height(n) \in DOMAIN chain[n]
    BY <1>1, <1>2, <1>4, EmptySeq DEF Height
  <2>2. chain[n][Height(n)] \in Hashes
    BY <1>1, <2>1
  <2> QED BY <1>1, <1>2, <1>4, <2>1, <2>2 DEF Tip
<1> QED BY <1>1, <1>2, <1>3, <1>4

\* What counting one more message makes of a buffer.
LEMMA CountedFacts ==
    ASSUME TypeInv, NEW max \in Nat, NEW buf \in Buffers(max), NEW b \in Hashes
    PROVE  /\ Counted(buf, b).block = b
           /\ Counted(buf, b).count = IF buf.block = b THEN buf.count + 1 ELSE 1
           /\ Counted(buf, b).count \in Nat
           /\ max > 0 /\ ~(Counted(buf, b).count >= max + 1) => Counted(buf, b) \in Buffers(max)
           /\ Empty \in Buffers(max) /\ Empty.block = NoHash
<1>1. buf.count \in 0 .. max
  BY DEF Buffers
<1> DEFINE c == IF buf.block = b THEN buf.count + 1 ELSE 1
<1>2. Counted(buf, b) = [block |-> b, count |-> c]
  BY DEF Counted
<1>3. c \in Nat /\ (max > 0 /\ ~(c >= max + 1) => c \in 0 .. max)
  BY <1>1
<1>4. Empty \in Buffers(max) /\ Empty.block = NoHash
  <2>1. 0 \in 0 .. max
    OBVIOUS
  <2> QED BY <2>1 DEF Empty, Buffers
<1> HIDE DEF c
<1>5. Counted(buf, b).block = b /\ Counted(buf, b).count = c
  BY <1>2
<1>6. c \in 0 .. max => Counted(buf, b) \in Buffers(max)
  BY <1>2 DEF Buffers
<1> QED BY <1>3, <1>4, <1>5, <1>6 DEF c

LEMMA BufferFacts ==
    ASSUME TypeInv, NEW n \in Nodes
    PROVE  /\ buffer[n] = [prepare |-> buffer[n].prepare, commit |-> buffer[n].commit]
           /\ buffer[n].prepare \in Buffers(1) /\ buffer[n].commit \in Buffers(2)
           /\ \A r \in Requesters : counter[n][r] \in Buffers(1)
BY TypeFacts DEF BufferRecords

LEMMA PrepareBuffer ==
    ASSUME TypeInv, NEW n \in Nodes, NEW x \in Buffers(1),
           buffer' = [buffer EXCEPT ![n].prepare = x]
    PROVE  /\ buffer' \in [Nodes -> BufferRecords]
           /\ buffer'[n].prepare = x /\ buffer'[n].commit = buffer[n].commit
           /\ \A m \in Nodes \ {n} : buffer'[m] = buffer[m]
<1>1. buffer[n] \in BufferRecords /\ buffer \in [Nodes -> BufferRecords]
  BY TypeFacts
<1>2. [buffer[n] EXCEPT !.prepare = x] \in BufferRecords
  BY <1>1 DEF BufferRecords
<1>3. [buffer[n] EXCEPT !.prepare = x].prepare = x
      /\ [buffer[n] EXCEPT !.prepare = x].commit = buffer[n].commit
  BY <1>1 DEF BufferRecords
<1>4. buffer' = [buffer EXCEPT ![n] = [buffer[n] EXCEPT !.prepare = x]]
  OBVIOUS
<1>5. buffer'[n] = [buffer[n] EXCEPT !.prepare = x]
  BY <1>1
<1> QED BY <1>1, <1>2, <1>3, <1>4, <1>5

LEMMA CommitBuffer ==
    ASSUME TypeInv, NEW n \in Nodes, NEW x \in Buffers(2),
           buffer' = [buffer EXCEPT ![n].commit = x]
    PROVE  /\ buffer' \in [Nodes -> BufferRecords]
           /\ buffer'[n].commit = x /\ buffer'[n].prepare = buffer[n].prepare
           /\ \A m \in Nodes \ {n} : buffer'[m] = buffer[m]
<1>1. buffer[n] \in BufferRecords /\ buffer \in [Nodes -> BufferRecords]
  BY TypeFacts
<1>2. [buffer[n] EXCEPT !.commit = x] \in BufferRecords
  BY <1>1 DEF BufferRecords
<1>3. [buffer[n] EXCEPT !.commit = x].commit = x
      /\ [buffer[n] EXCEPT !.commit = x].prepare = buffer[n].prepare
  BY <1>1 DEF BufferRecords
<1>4. buffer' = [buffer EXCEPT ![n] = [buffer[n] EXCEPT !.commit = x]]
  OBVIOUS
<1>5. buffer'[n] = [buffer[n] EXCEPT !.commit = x]
  BY <1>1
<1> QED BY <1>1, <1>2, <1>3, <1>4, <1>5

\* What a prepare does.
LEMMA PrepareHeard ==
    ASSUME TypeInv, NEW n \in Nodes, NEW b \in Hashes, ReceivePrepare(n, b)
    PROVE  LET buf == Counted(buffer[n].prepare, b)
           IN  /\ Underway("prepare", b, n) /\ Hears("prepare", b, n)
               /\ buffer' \in [Nodes -> BufferRecords]
               /\ \A m \in Nodes \ {n} : buffer'[m] = buffer[m]
               /\ buffer'[n].commit = buffer[n].commit
               /\ \/ buf.count >= 2 /\ buffer'[n].prepare = Empty
                     /\ committed' = committed \cup {<<b, n>>}
                  \/ /\ ~(buf.count >= 2) /\ buffer'[n].prepare = buf
                     /\ committed' = committed
<1> DEFINE buf == Counted(buffer[n].prepare, b)
           x == IF buf.count >= 2 THEN Empty ELSE buf
<1>1. x \in Buffers(1)
  <2>1. buffer[n].prepare \in Buffers(1)
    BY BufferFacts
  <2>2. 1 \in Nat /\ 1 > 0 /\ 1 + 1 = 2
    OBVIOUS
  <2>3. /\ ~(buf.count >= 1 + 1) => buf \in Buffers(1)
        /\ Empty \in Buffers(1)
    BY <2>1, <2>2, CountedFacts
  <2> HIDE DEF buf
  <2> QED BY <2>2, <2>3
<1>2. /\ Underway("prepare", b, n) /\ Hears("prepare", b, n)
      /\ buffer' = [buffer EXCEPT ![n].prepare = x]
      /\ committed' = IF buf.count >= 2 THEN committed \cup {<<b, n>>} ELSE committed
  BY DEF ReceivePrepare, CanCount
<1> HIDE DEF buf
<1>3. /\ buffer' \in [Nodes -> BufferRecords]
      /\ buffer'[n].prepare = x /\ buffer'[n].commit = buffer[n].commit
      /\ \A m \in Nodes \ {n} : buffer'[m] = buffer[m]
  <2> HIDE DEF x
  <2> QED BY <1>1, <1>2, PrepareBuffer
<1> QED BY <1>2, <1>3 DEF buf

\* What a commit does.
LEMMA CommitHeard ==
    ASSUME TypeInv, NEW n \in Nodes, NEW b \in Hashes, ReceiveCommit(n, b)
    PROVE  LET buf == Counted(buffer[n].commit, b)
           IN  /\ Underway("commit", b, n) /\ Hears("commit", b, n)
               /\ buffer' \in [Nodes -> BufferRecords]
               /\ \A m \in Nodes \ {n} : buffer'[m] = buffer[m]
               /\ buffer'[n].prepare = buffer[n].prepare
               /\ replies' \in [AllHashes -> [Requesters -> Nat]]
               /\ \/ /\ buf.count >= 3 /\ buffer'[n].commit = Empty
                     /\ \A c \in AllHashes, r \in Requesters :
                            replies'[c][r] = replies[c][r] \/ c = b
                  \/ /\ ~(buf.count >= 3) /\ buffer'[n].commit = buf
                     /\ replies' = replies
<1> DEFINE buf == Counted(buffer[n].commit, b)
           x == IF buf.count >= 3 THEN Empty ELSE buf
<1>1. x \in Buffers(2)
  <2>1. buffer[n].commit \in Buffers(2)
    BY BufferFacts
  <2>2. 2 \in Nat /\ 2 > 0 /\ 2 + 1 = 3
    OBVIOUS
  <2>3. /\ ~(buf.count >= 2 + 1) => buf \in Buffers(2)
        /\ Empty \in Buffers(2)
    BY <2>1, <2>2, CountedFacts
  <2> HIDE DEF buf
  <2> QED BY <2>2, <2>3
<1>2. /\ Underway("commit", b, n) /\ Hears("commit", b, n)
      /\ buffer' = [buffer EXCEPT ![n].commit = x]
      /\ \/ /\ buf.count >= 3
            /\ \E p \in SendersOf("prepare", b) :
                   replies' = [replies EXCEPT ![b][schedule.route[p]] = @ + 1]
         \/ ~(buf.count >= 3) /\ replies' = replies
  BY DEF ReceiveCommit, CanCount
<1> HIDE DEF buf
<1>3. /\ buffer' \in [Nodes -> BufferRecords]
      /\ buffer'[n].commit = x /\ buffer'[n].prepare = buffer[n].prepare
      /\ \A m \in Nodes \ {n} : buffer'[m] = buffer[m]
  <2> HIDE DEF x
  <2> QED BY <1>1, <1>2, CommitBuffer
<1>4. replies \in [AllHashes -> [Requesters -> Nat]] /\ b \in AllHashes
  BY TypeFacts, HashFacts
<1>5. ASSUME NEW p \in SendersOf("prepare", b),
             replies' = [replies EXCEPT ![b][schedule.route[p]] = @ + 1]
      PROVE  /\ replies' \in [AllHashes -> [Requesters -> Nat]]
             /\ \A c \in AllHashes, r \in Requesters : replies'[c][r] = replies[c][r] \/ c = b
  <2>1. p \in Nodes /\ schedule \in ScheduleRecords
    BY TypeFacts, ConstantFacts DEF SendersOf
  <2>2. schedule.route[p] \in Requesters
    BY <2>1 DEF ScheduleRecords
  <2>3. PICK q \in Requesters : q = schedule.route[p]
    BY <2>2
  <2>4. replies' = [replies EXCEPT ![b][q] = replies[b][q] + 1] /\ replies[b][q] + 1 \in Nat
    BY <1>4, <1>5, <2>3
  <2> QED BY <1>4, <2>4
<1> QED BY <1>2, <1>3, <1>4, <1>5 DEF buf

\* What a reply does.
LEMMA ReplyHeard ==
    ASSUME TypeInv, NEW n \in Nodes, NEW b \in Hashes, NEW r \in Requesters, ReceiveReply(n, b, r)
    PROVE  /\ replies[b][r] > 0
           /\ replies' \in [AllHashes -> [Requesters -> Nat]]
           /\ \A c \in AllHashes, q \in Requesters : replies'[c][q] <= replies[c][q]
           /\ counter' \in [Nodes -> [Requesters -> Buffers(1)]]
           /\ \A m \in Nodes, q \in Requesters :
                  \/ counter'[m][q] = counter[m][q]
                  \/ counter'[m][q].block \in {NoHash, b}
           /\ collector' \in [Nodes -> Hashes \cup {NoHash}]
           /\ published' = published \/ (published' = published \cup {b} /\ OnTip(b, n))
           /\ mishaps' \in Nat
<1> DEFINE c == Counted(counter[n][r], b)
           x == IF c.count >= 2 THEN Empty ELSE c
           v == replies[b][r]
<1>1. x \in Buffers(1) /\ x.block \in {NoHash, b}
  <2>1. counter[n][r] \in Buffers(1)
    BY BufferFacts
  <2>2. 1 \in Nat /\ 1 > 0 /\ 1 + 1 = 2
    OBVIOUS
  <2>3. /\ ~(c.count >= 1 + 1) => c \in Buffers(1)
        /\ Empty \in Buffers(1) /\ Empty.block = NoHash /\ c.block = b
    BY <2>1, <2>2, CountedFacts
  <2> HIDE DEF c
  <2> QED BY <2>2, <2>3
<1>2. /\ replies \in [AllHashes -> [Requesters -> Nat]] /\ b \in AllHashes
      /\ counter \in [Nodes -> [Requesters -> Buffers(1)]]
      /\ collector \in [Nodes -> Hashes \cup {NoHash}] /\ mishaps \in Nat
  BY TypeFacts, HashFacts
<1>3. /\ v > 0 /\ replies' = [replies EXCEPT ![b][r] = v - 1]
      /\ counter' = [counter EXCEPT ![n][r] = x]
      /\ collector' \in {collector, [collector EXCEPT ![n] = NoHash]}
      /\ published' = published \/ (published' = published \cup {b} /\ OnTip(b, n))
      /\ mishaps' \in {mishaps, mishaps + 1}
  BY DEF ReceiveReply, CanTakeReply
<1>4. v \in Nat /\ v - 1 \in Nat /\ v - 1 <= v
  BY <1>2, <1>3
<1>5. /\ replies' \in [AllHashes -> [Requesters -> Nat]]
      /\ \A d \in AllHashes, q \in Requesters :
             replies'[d][q] = replies[d][q] \/ (d = b /\ q = r /\ replies'[d][q] = v - 1)
  <2> HIDE DEF v
  <2> QED BY <1>2, <1>3, <1>4
<1>6. \A d \in AllHashes, q \in Requesters : replies'[d][q] <= replies[d][q]
  <2> TAKE d \in AllHashes, q \in Requesters
  <2>1. replies[d][q] \in Nat
    BY <1>2
  <2> QED BY <1>4, <1>5, <2>1
<1>7. /\ counter' \in [Nodes -> [Requesters -> Buffers(1)]]
      /\ \A m \in Nodes, q \in Requesters :
             counter'[m][q] = counter[m][q] \/ counter'[m][q] = x
  <2> HIDE DEF x
  <2> QED BY <1>1, <1>2, <1>3
<1>8. collector' \in [Nodes -> Hashes \cup {NoHash}] /\ mishaps' \in Nat
  BY <1>2, <1>3
<1> HIDE DEF x
<1> QED BY <1>1, <1>3, <1>5, <1>6, <1>7, <1>8

LEMMA TypeInvInit == Init => TypeInv
<1> SUFFICES ASSUME Init PROVE TypeInv
  OBVIOUS
<1>1. Len(blocks) = 0 /\ blocks \in Seq(BlockRecords) /\ Len(blocks) <= MaxBlocks
  <2>1. MaxBlocks \in Nat
    BY ConstantFacts
  <2> QED BY <2>1 DEF Init
<1>2. Empty \in Buffers(1) /\ Empty \in Buffers(2)
  BY DEF Empty, Buffers
<1>3. /\ chain \in [Nodes -> Seq(Hashes)]
      /\ buffer \in [Nodes -> BufferRecords]
      /\ counter \in [Nodes -> [Requesters -> Buffers(1)]]
      /\ replies \in [AllHashes -> [Requesters -> Nat]]
  BY <1>2 DEF Init, BufferRecords
<1>4. vote \in [Nodes -> VoteRecords]
  BY DEF Init, NoVote, VoteRecords
<1>5. /\ heard \in HeardFunctions
      /\ \A n \in Nodes, kind \in Kinds, b \in AllHashes : heard[n][kind][b] = 0
  BY DEF Init, HeardFunctions, Kinds
<1>6. HeardBound
  <2>1. \A kind \in Kinds : \A b : 0 \in 0 .. Cardinality(SendersOf(kind, b))
    BY SendersFacts
  <2> QED BY <1>5, <2>1 DEF HeardBound
<1>7. /\ packing = {} /\ waiting = {} /\ verifying = {} /\ prepared = {} /\ committed = {}
      /\ published = {} /\ mishaps = 0 /\ restarted = {} /\ schedule \in Schedules
      /\ preblock \in [Nodes -> Hashes \cup {NoHash}]
      /\ collect \in [Nodes -> Hashes \cup {NoHash}]
      /\ collector \in [Nodes -> Hashes \cup {NoHash}]
  BY DEF Init
<1> QED BY <1>1, <1>3, <1>4, <1>5, <1>6, <1>7, TypeFacts

\* The records a voter can have.
LEMMA VoteFacts ==
    ASSUME TypeInv, NEW n \in Nodes
    PROVE  /\ vote \in [Nodes -> VoteRecords] /\ NoVote \in VoteRecords
           /\ vote[n] = [index |-> vote[n].index, hash |-> vote[n].hash]
           /\ vote[n].index \in Nat \cup {-1} /\ vote[n].hash \in Hashes \cup {Genesis, NoHash}
           /\ \A i \in Nat : \A h \in Hashes \cup {Genesis} :
                  [index |-> i, hash |-> h] \in VoteRecords
           /\ \A i : [vote EXCEPT ![n].index = i] =
                         [vote EXCEPT ![n] = [index |-> i, hash |-> vote[n].hash]]
<1>1. vote \in [Nodes -> VoteRecords] /\ vote[n] \in VoteRecords
  BY TypeFacts
<1>2. /\ vote[n] = [index |-> vote[n].index, hash |-> vote[n].hash]
      /\ vote[n].index \in Nat \cup {-1} /\ vote[n].hash \in Hashes \cup {Genesis, NoHash}
  BY <1>1 DEF VoteRecords
<1>3. NoVote \in VoteRecords
  BY DEF NoVote, VoteRecords
<1>4. \A i \in Nat : \A h \in Hashes \cup {Genesis} : [index |-> i, hash |-> h] \in VoteRecords
  BY DEF VoteRecords
<1>5. \A i : [vote[n] EXCEPT !.index = i] = [index |-> i, hash |-> vote[n].hash]
  BY <1>1 DEF VoteRecords
<1>6. \A i : [vote EXCEPT ![n].index = i] = [vote EXCEPT ![n] = [vote[n] EXCEPT !.index = i]]
  OBVIOUS
<1> QED BY <1>1, <1>2, <1>3, <1>4, <1>5, <1>6

\* What a drawing and a time-out do to the vote.
LEMMA DrawFacts ==
    ASSUME TypeInv, NEW n \in Nodes, DrawBlocker(n)
    PROVE  /\ vote' \in [Nodes -> VoteRecords] /\ vote[n].hash # Tip(n)
           /\ vote'[n].index = 0 /\ vote'[n].hash = Tip(n)
           /\ \A m \in Nodes \ {n} : vote'[m] = vote[m]
<1> DEFINE v == [index |-> 0, hash |-> Tip(n)]
<1>1. Tip(n) \in Hashes \cup {Genesis} /\ 0 \in Nat
  BY TipType
<1>2. v \in VoteRecords /\ v.index = 0 /\ v.hash = Tip(n)
  BY <1>1, VoteFacts
<1>3. vote' = [vote EXCEPT ![n] = v] /\ vote[n].hash # Tip(n)
  BY DEF DrawBlocker, CanDraw
<1> HIDE DEF v
<1> QED BY <1>2, <1>3, TypeFacts

LEMMA TimeoutFacts ==
    ASSUME TypeInv, NEW n \in Nodes, BlockTimeout(n)
    PROVE  /\ vote' \in [Nodes -> VoteRecords] /\ vote[n].index < schedule.index[n]
           /\ vote'[n].index = vote[n].index + 1 /\ vote'[n].hash = vote[n].hash
           /\ vote[n].index + 1 \in Nat /\ vote[n].hash = Tip(n)
           /\ \A m \in Nodes \ {n} : vote'[m] = vote[m]
<1> DEFINE i == vote[n].index + 1
           v == [index |-> i, hash |-> vote[n].hash]
<1>1. vote[n].hash = Tip(n) /\ Tip(n) \in Hashes \cup {Genesis} /\ vote[n].index < schedule.index[n]
  BY TipType DEF BlockTimeout
<1>2. i \in Nat
  <2>1. vote[n].index \in Nat \cup {-1}
    BY VoteFacts
  <2> QED BY <2>1
<1>3. vote' = [vote EXCEPT ![n] = v]
  <2>1. vote' = [vote EXCEPT ![n].index = i]
    BY DEF BlockTimeout
  <2> HIDE DEF i
  <2> QED BY <2>1, VoteFacts
<1>4. v \in VoteRecords /\ v.index = i /\ v.hash = vote[n].hash
  <2> HIDE DEF i
  <2> QED BY <1>1, <1>2, VoteFacts
<1> HIDE DEF v
<1> QED BY <1>1, <1>2, <1>3, <1>4, TypeFacts

\* What a built block is, and what it leaves alone.
LEMMA BuildFacts ==
    ASSUME TypeInv, NEW n \in Nodes, BuildBlock(n)
    PROVE  LET b == Len(blocks) + 1
           IN  /\ n \in packing /\ vote[n].hash \in Hashes \cup {Genesis}
               /\ blocks' \in Seq(BlockRecords) /\ Len(blocks') <= MaxBlocks
               /\ b \notin Hashes /\ Hashes' = Hashes \cup {b} /\ b \in AllHashes
               /\ \A c \in Hashes : blocks'[c] = blocks[c]
               /\ blocks'[b] = [prev |-> vote[n].hash, maker |-> n,
                                height |-> HeightOf(vote[n].hash) + 1]
               /\ packing' = packing \ {n}
               /\ preblock' = [preblock EXCEPT ![n] = b] /\ collect' = [collect EXCEPT ![n] = b]
               /\ UNCHANGED <<chain, vote, collector, messages, counting, published, noise>>
<1> DEFINE b == Len(blocks) + 1
           x == [prev |-> vote[n].hash, maker |-> n, height |-> HeightOf(vote[n].hash) + 1]
<1>1. /\ n \in packing /\ Len(blocks) < MaxBlocks /\ vote[n].hash # NoHash
      /\ blocks' = Append(blocks, x) /\ packing' = packing \ {n}
      /\ preblock' = [preblock EXCEPT ![n] = b] /\ collect' = [collect EXCEPT ![n] = b]
      /\ UNCHANGED <<chain, vote, collector, messages, counting, published, noise>>
  BY DEF BuildBlock, CanBuild
<1>2. /\ blocks \in Seq(BlockRecords) /\ Len(blocks) \in Nat /\ Hashes = 1 .. Len(blocks)
      /\ MaxBlocks \in Nat
  BY TypeFacts, HashFacts, ConstantFacts DEF Hashes
<1>3. vote[n].hash \in Hashes \cup {Genesis}
  BY <1>1, VoteFacts
<1>4. x \in BlockRecords
  <2>1. HeightOf(vote[n].hash) + 1 \in Nat
    <3>1. HeightOf(vote[n].hash) \in Nat
      BY <1>3, HashFacts
    <3> QED BY <3>1
  <2>2. vote[n].hash \in 0 .. MaxBlocks
    <3>1. \A h \in Hashes \cup {Genesis} : h \in 0 .. MaxBlocks
      <4>1. Len(blocks) <= MaxBlocks
        BY TypeFacts
      <4> QED BY <1>2, <4>1 DEF Genesis
    <3> QED BY <1>3, <3>1
  <2> QED BY <2>1, <2>2 DEF BlockRecords
<1> HIDE DEF x
<1>5. /\ blocks' \in Seq(BlockRecords) /\ Len(blocks') = Len(blocks) + 1 /\ blocks'[b] = x
      /\ (\A c \in 1 .. Len(blocks) : blocks'[c] = blocks[c]) /\ b <= MaxBlocks
  BY <1>1, <1>2, <1>4, AppendProperties
<1>6. /\ b \notin Hashes /\ Hashes' = Hashes \cup {b} /\ b \in AllHashes
  <2>1. Hashes' = 1 .. Len(blocks) + 1
    BY <1>5 DEF Hashes
  <2> QED BY <1>2, <1>5, <2>1 DEF AllHashes
<1> QED BY <1>1, <1>2, <1>3, <1>5, <1>6 DEF x

\* What a restart clears.
LEMMA RestartFacts ==
    ASSUME TypeInv, NEW n \in Nodes, Restart(n)
    PROVE  /\ n \notin restarted /\ restarted' = restarted \cup {n}
           /\ restarted \cup {n} \subseteq schedule.restart
           /\ vote' \in [Nodes -> VoteRecords] /\ vote'[n].hash = NoHash
           /\ \A m \in Nodes \ {n} : vote'[m] = vote[m]
           /\ packing' = packing \ {n} /\ verifying' \subseteq verifying
           /\ preblock' \in [Nodes -> Hashes \cup {NoHash}]
           /\ \A m \in Nodes \ {n} : preblock'[m] = preblock[m]
           /\ collect' \in [Nodes -> Hashes \cup {NoHash}]
           /\ collector' \in [Nodes -> Hashes \cup {NoHash}]
           /\ heard' \in HeardFunctions /\ HeardBound'
           /\ buffer' \in [Nodes -> BufferRecords]
           /\ counter' \in [Nodes -> [Requesters -> Buffers(1)]]
           /\ \A kind \in Kinds : buffer'[n][kind].block = NoHash
           /\ \A r \in Requesters : counter'[n][r].block = NoHash
           /\ \A m \in Nodes \ {n} : /\ heard'[m] = heard[m] /\ buffer'[m] = buffer[m]
                                     /\ counter'[m] = counter[m]
           /\ UNCHANGED <<blocks, chain, waiting, prepared, committed, replies, published, mishaps>>
<1> DEFINE h == [kind \in Kinds |-> [b \in AllHashes |-> Cardinality(SendersOf(kind, b))]]
           x == [prepare |-> Empty, commit |-> Empty]
           y == [r \in Requesters |-> Empty]
<1>1. /\ n \in schedule.restart \ restarted /\ restarted' = restarted \cup {n}
      /\ vote' = [vote EXCEPT ![n] = NoVote]
      /\ packing' = packing \ {n} /\ verifying' \subseteq verifying
      /\ preblock' = [preblock EXCEPT ![n] = NoHash]
      /\ collect' = [collect EXCEPT ![n] = NoHash]
      /\ collector' = [collector EXCEPT ![n] = NoHash]
      /\ heard' = [heard EXCEPT ![n] = h]
      /\ buffer' = [buffer EXCEPT ![n] = x] /\ counter' = [counter EXCEPT ![n] = y]
      /\ UNCHANGED <<blocks, chain, waiting, prepared, committed, replies, published, mishaps>>
  BY DEF Restart, Kinds
<1>2. /\ preblock \in [Nodes -> Hashes \cup {NoHash}] /\ collect \in [Nodes -> Hashes \cup {NoHash}]
      /\ collector \in [Nodes -> Hashes \cup {NoHash}] /\ heard \in HeardFunctions /\ HeardBound
      /\ buffer \in [Nodes -> BufferRecords] /\ counter \in [Nodes -> [Requesters -> Buffers(1)]]
      /\ vote \in [Nodes -> VoteRecords] /\ restarted \subseteq schedule.restart
  BY TypeFacts
<1>3. NoVote \in VoteRecords /\ NoVote.hash = NoHash
  BY VoteFacts DEF NoVote
<1>4. Empty \in Buffers(1) /\ Empty \in Buffers(2) /\ Empty.block = NoHash
  BY DEF Empty, Buffers
<1>5. x \in BufferRecords /\ y \in [Requesters -> Buffers(1)]
  BY <1>4 DEF BufferRecords
<1>6. (\A kind \in Kinds : x[kind].block = NoHash) /\ \A r \in Requesters : y[r].block = NoHash
  BY <1>4 DEF Kinds
<1>7. h \in [Kinds -> [AllHashes -> Nat]]
  BY SendersFacts
<1>8. \A kind \in Kinds, b \in AllHashes : h[kind][b] = Cardinality(SendersOf(kind, b))
  OBVIOUS
<1> HIDE DEF h, x, y
<1>9. heard' \in HeardFunctions /\ heard'[n] = h /\ \A m \in Nodes \ {n} : heard'[m] = heard[m]
  BY <1>1, <1>2, <1>7 DEF HeardFunctions
<1>10. HeardBound'
  <2> SUFFICES ASSUME NEW m \in Nodes, NEW kind \in Kinds, NEW b \in AllHashes
               PROVE  heard'[m][kind][b] \in 0 .. Cardinality(SendersOf(kind, b)')
    BY DEF HeardBound
  <2>1. SendersOf(kind, b)' = SendersOf(kind, b)
    BY <1>1 DEF SendersOf
  <2>2. heard[m][kind][b] \in 0 .. Cardinality(SendersOf(kind, b))
    BY <1>2 DEF HeardBound
  <2>3. Cardinality(SendersOf(kind, b)) \in 0 .. Cardinality(SendersOf(kind, b))
    BY SendersFacts
  <2> QED BY <1>8, <1>9, <2>1, <2>2, <2>3
<1>11. /\ vote' \in [Nodes -> VoteRecords] /\ vote'[n] = NoVote
       /\ \A m \in Nodes \ {n} : vote'[m] = vote[m]
  BY <1>1, <1>2, <1>3
<1>12. /\ preblock' \in [Nodes -> Hashes \cup {NoHash}]
       /\ \A m \in Nodes \ {n} : preblock'[m] = preblock[m]
       /\ collect' \in [Nodes -> Hashes \cup {NoHash}]
       /\ collector' \in [Nodes -> Hashes \cup {NoHash}]
  BY <1>1, <1>2
<1>13. /\ buffer' \in [Nodes -> BufferRecords] /\ buffer'[n] = x
       /\ counter' \in [Nodes -> [Requesters -> Buffers(1)]] /\ counter'[n] = y
       /\ \A m \in Nodes \ {n} : buffer'[m] = buffer[m] /\ counter'[m] = counter[m]
  BY <1>1, <1>2, <1>5
<1> QED BY <1>1, <1>2, <1>3, <1>6, <1>9, <1>10, <1>11, <1>12, <1>13

\* The messages and buffers keep their types while the blocks are the same.
LEMMA BuildType ==
    ASSUME TypeInv, NEW n \in Nodes, BuildBlock(n), schedule' = schedule
    PROVE  TypeInv'
<1> DEFINE b == Len(blocks) + 1
<1>1. /\ blocks' \in Seq(BlockRecords) /\ Len(blocks') <= MaxBlocks
      /\ b \in Hashes' /\ Hashes \subseteq Hashes'
      /\ packing' = packing \ {n}
      /\ preblock' = [preblock EXCEPT ![n] = b] /\ collect' = [collect EXCEPT ![n] = b]
      /\ UNCHANGED <<chain, vote, collector, messages, counting, published, noise>>
  BY BuildFacts
<1> HIDE DEF b
<1>2. /\ VoteRecords \subseteq VoteRecords' /\ BufferRecords \subseteq BufferRecords'
      /\ Buffers(1) \subseteq Buffers(1)'
  BY <1>1 DEF VoteRecords, BufferRecords, Buffers
<1>3. /\ chain \in [Nodes -> Seq(Hashes')] /\ vote \in [Nodes -> VoteRecords']
      /\ collector \in [Nodes -> Hashes' \cup {NoHash}]
      /\ preblock' \in [Nodes -> Hashes' \cup {NoHash}]
      /\ collect' \in [Nodes -> Hashes' \cup {NoHash}]
      /\ buffer \in [Nodes -> BufferRecords']
      /\ counter \in [Nodes -> [Requesters -> Buffers(1)']]
  <2>1. chain \in [Nodes -> Seq(Hashes')]
    <3>1. Seq(Hashes) \subseteq Seq(Hashes')
      BY <1>1
    <3> QED BY <3>1, TypeFacts
  <2>2. vote \in [Nodes -> VoteRecords'] /\ buffer \in [Nodes -> BufferRecords']
    BY <1>2, TypeFacts
  <2>3. counter \in [Nodes -> [Requesters -> Buffers(1)']]
    BY <1>2, TypeFacts
  <2>4. /\ collector \in [Nodes -> Hashes' \cup {NoHash}]
        /\ preblock' \in [Nodes -> Hashes' \cup {NoHash}]
        /\ collect' \in [Nodes -> Hashes' \cup {NoHash}]
    BY <1>1, TypeFacts
  <2> QED BY <2>1, <2>2, <2>3, <2>4
<1>4. /\ waiting \subseteq Hashes' \X Nodes /\ verifying \subseteq Hashes' \X Nodes
      /\ prepared \subseteq Hashes' \X Nodes /\ committed \subseteq Hashes' \X Nodes
      /\ published \subseteq Hashes' /\ packing' \subseteq Nodes
  BY <1>1, TypeFacts
<1>5. HeardBound'
  BY <1>1, HeardKept DEF counting, messages
<1>6. /\ replies \in [AllHashes -> [Requesters -> Nat]] /\ heard \in HeardFunctions
      /\ mishaps \in Nat /\ restarted \subseteq schedule.restart /\ schedule \in Schedules
  BY TypeFacts
<1>7. (TypeInv)' <=>
        /\ blocks' \in Seq(BlockRecords) /\ Len(blocks') <= MaxBlocks
        /\ chain' \in [Nodes -> Seq(Hashes')]
        /\ vote' \in [Nodes -> VoteRecords']
        /\ packing' \subseteq Nodes
        /\ preblock' \in [Nodes -> Hashes' \cup {NoHash}]
        /\ collect' \in [Nodes -> Hashes' \cup {NoHash}]
        /\ collector' \in [Nodes -> Hashes' \cup {NoHash}]
        /\ waiting' \subseteq Hashes' \X Nodes /\ verifying' \subseteq Hashes' \X Nodes
        /\ prepared' \subseteq Hashes' \X Nodes /\ committed' \subseteq Hashes' \X Nodes
        /\ published' \subseteq Hashes'
        /\ replies' \in [AllHashes -> [Requesters -> Nat]]
        /\ buffer' \in [Nodes -> BufferRecords']
        /\ counter' \in [Nodes -> [Requesters -> Buffers(1)']]
        /\ heard' \in HeardFunctions /\ HeardBound'
        /\ mishaps' \in Nat /\ restarted' \subseteq schedule'.restart
        /\ schedule' \in Schedules
  BY DEF TypeInv, TypeOK, BlockRecords, VoteRecords, BufferRecords, HeardFunctions,
         HeardBound, Kinds
<1> QED BY <1>1, <1>3, <1>4, <1>5, <1>6, <1>7 DEF messages, counting, noise

LEMMA TypeInvNext == TypeInv /\ [Next]_vars => TypeInv'
<1> SUFFICES ASSUME TypeInv, [Next]_vars PROVE TypeInv'
  OBVIOUS
<1>1. CASE UNCHANGED vars
  <2>1. UNCHANGED <<blocks, packing, preblock, collect, chain, vote, collector, waiting,
                    verifying, prepared, committed, replies, heard, buffer, counter,
                    published, mishaps, restarted, schedule>>
    BY <1>1 DEF vars, building, messages, counting, noise
  <2>2. HeardBound'
    BY <2>1, HeardKept
  <2> QED BY <2>1, <2>2, TypeStep
<1>2. ASSUME NEW n \in Nodes, schedule' = schedule, Works(n) \/ Suffers(n)
      PROVE  TypeInv'
  <2> USE schedule' = schedule
  <2> USE DEF building, messages, counting, noise
  <2>1. CASE DrawBlocker(n)
    BY <2>1, DrawFacts, HeardKept, TypeStep DEF DrawBlocker
  <2>2. CASE BlockTimeout(n)
    BY <2>2, TimeoutFacts, HeardKept, TypeStep DEF BlockTimeout
  <2>3. CASE CreateBlock(n)
    <3>1. packing' \subseteq Nodes
      BY <2>3, TypeFacts DEF CreateBlock
    <3> QED BY <2>3, <3>1, HeardKept, TypeStep DEF CreateBlock
  <2>4. CASE BuildBlock(n)
    BY <2>4, BuildType
  <2>5. CASE GiveUpBlock(n)
    <3>1. packing' \subseteq Nodes /\ mishaps' \in Nat
      BY <2>5, TypeFacts DEF GiveUpBlock
    <3> QED BY <2>5, <3>1, HeardKept, TypeStep DEF GiveUpBlock
  <2>6. CASE CollectEndorsement(n)
    <3>1. collect[n] \in Hashes
      BY <2>6, TypeFacts DEF CollectEndorsement
    <3>2. /\ collect' \in [Nodes -> Hashes \cup {NoHash}]
          /\ collector' \in [Nodes -> Hashes \cup {NoHash}]
          /\ waiting' \subseteq Hashes \X Nodes
      BY <2>6, <3>1, TypeFacts DEF CollectEndorsement
    <3> QED BY <2>6, <3>2, HeardKept, TypeStep DEF CollectEndorsement
  <2>7. ASSUME NEW b \in Hashes, AcceptPrePrepare(n, b) PROVE TypeInv'
    <3>1. waiting' \subseteq Hashes \X Nodes /\ verifying' \subseteq Hashes \X Nodes
      BY <2>7, TypeFacts DEF AcceptPrePrepare
    <3> QED BY <2>7, <3>1, HeardKept, TypeStep DEF AcceptPrePrepare
  <2>8. ASSUME NEW b \in Hashes, Prepare(n, b) PROVE TypeInv'
    <3>1. prepared' \subseteq Hashes \X Nodes /\ verifying' \subseteq Hashes \X Nodes
      BY <2>8, TypeFacts DEF Prepare
    <3>2. HeardBound'
      BY <2>8, HeardKept DEF Prepare
    <3> QED BY <2>8, <3>1, <3>2, TypeStep DEF Prepare
  <2>9. ASSUME NEW b \in Hashes, RefuseBlock(n, b) PROVE TypeInv'
    <3>1. /\ waiting' \subseteq Hashes \X Nodes /\ verifying' \subseteq Hashes \X Nodes
          /\ mishaps' \in Nat
      BY <2>9, TypeFacts DEF RefuseBlock
    <3> QED BY <2>9, <3>1, HeardKept, TypeStep DEF RefuseBlock
  <2>10. ASSUME NEW b \in Hashes, ReceivePrepare(n, b) PROVE TypeInv'
    <3>1. /\ Underway("prepare", b, n) /\ Hears("prepare", b, n)
          /\ buffer' \in [Nodes -> BufferRecords] /\ committed \subseteq committed'
      BY <2>10, PrepareHeard
    <3>2. committed' \subseteq Hashes \X Nodes
      BY <2>10, TypeFacts DEF ReceivePrepare
    <3>3. heard' \in HeardFunctions /\ HeardBound'
      BY <2>10, <3>1, HearsFacts DEF ReceivePrepare, Kinds
    <3> QED BY <2>10, <3>1, <3>2, <3>3, TypeStep DEF ReceivePrepare
  <2>11. ASSUME NEW b \in Hashes, ReceiveCommit(n, b) PROVE TypeInv'
    <3>1. /\ Underway("commit", b, n) /\ Hears("commit", b, n)
          /\ buffer' \in [Nodes -> BufferRecords]
          /\ replies' \in [AllHashes -> [Requesters -> Nat]]
      BY <2>11, CommitHeard
    <3>2. heard' \in HeardFunctions /\ HeardBound'
      BY <2>11, <3>1, HearsFacts DEF ReceiveCommit, Kinds
    <3> QED BY <2>11, <3>1, <3>2, TypeStep DEF ReceiveCommit
  <2>12. ASSUME NEW b \in Hashes, NEW kind \in Kinds, PassOver(n, b, kind) PROVE TypeInv'
    <3>1. heard' \in HeardFunctions /\ HeardBound'
      BY <2>12, HearsFacts DEF PassOver
    <3>2. mishaps' \in Nat
      BY <2>12, TypeFacts DEF PassOver
    <3> QED BY <2>12, <3>1, <3>2, TypeStep DEF PassOver
  <2>13. ASSUME NEW b \in Hashes, NEW r \in Requesters, ReceiveReply(n, b, r) PROVE TypeInv'
    <3>1. /\ replies' \in [AllHashes -> [Requesters -> Nat]]
          /\ counter' \in [Nodes -> [Requesters -> Buffers(1)]]
          /\ collector' \in [Nodes -> Hashes \cup {NoHash}]
          /\ published' \subseteq published \cup {b} /\ mishaps' \in Nat
      BY <2>13, ReplyHeard
    <3>2. published' \subseteq Hashes
      BY <3>1, TypeFacts
    <3> QED BY <2>13, <3>1, <3>2, HeardKept, TypeStep DEF ReceiveReply
  <2>14. ASSUME NEW b \in Hashes, ConfirmBlock(n, b) PROVE TypeInv'
    <3>1. chain' \in [Nodes -> Seq(Hashes)]
      BY <2>14, TypeFacts DEF ConfirmBlock
    <3> QED BY <2>14, <3>1, HeardKept, TypeStep DEF ConfirmBlock
  <2>15. CASE Restart(n)
    <3>1. verifying' \subseteq Hashes \X Nodes /\ packing' \subseteq Nodes
      BY <2>15, RestartFacts, TypeFacts
    <3> QED BY <2>15, <3>1, RestartFacts, TypeStep
  <2> QED BY <1>2, <2>1, <2>2, <2>3, <2>4, <2>5, <2>6, <2>7, <2>8, <2>9, <2>10, <2>11, <2>12, <2>13,
             <2>14, <2>15 DEF Works, Suffers, Kinds
<1> QED BY <1>1, <1>2 DEF Next, Up

-----------------------------------------------------------------------------
(* Counts.                                                                  *)

\* A message that is counted is one of those sent.
LEMMA CountHeard ==
    ASSUME TypeInv, HeardEnough, NEW n \in Nodes, NEW kind \in Kinds, NEW b \in Hashes,
           Underway(kind, b, n)
    PROVE  LET buf == Counted(buffer[n][kind], b)
           IN  /\ buf.block = b /\ buf.count \in Nat /\ buf.count <= heard[n][kind][b] + 1
               /\ buf.count <= Cardinality(SendersOf(kind, b))
<1> DEFINE buf == Counted(buffer[n][kind], b)
<1>1. \E max \in Nat : buffer[n][kind] \in Buffers(max)
  <2>1. 1 \in Nat /\ 2 \in Nat
    OBVIOUS
  <2> QED BY <2>1, BufferFacts DEF Kinds
<1>2. /\ buf.block = b /\ buf.count \in Nat
      /\ buf.count = IF buffer[n][kind].block = b THEN buffer[n][kind].count + 1 ELSE 1
  BY <1>1, CountedFacts
<1>3. b \in AllHashes /\ b # NoHash
  BY HashFacts
<1>4. PICK h, s, o, c \in Int : /\ h = heard[n][kind][b] /\ s = Cardinality(SendersOf(kind, b))
                                /\ o = buffer[n][kind].count /\ c = buf.count /\ h >= 0
  <2>1. heard[n][kind][b] \in Nat
    BY <1>3, TypeFacts DEF HeardFunctions
  <2>2. \A max : \A x \in Buffers(max) : x.count \in 0 .. max
    BY DEF Buffers
  <2>3. buffer[n][kind].count \in Int
    BY <1>1, <2>2
  <2> HIDE DEF buf
  <2> QED BY <1>2, <2>1, <2>3, SendersFacts
<1>5. h < s
  BY <1>4 DEF Underway
<1>6. buffer[n][kind].block = b => o <= h
  BY <1>3, <1>4 DEF HeardEnough
<1>7. c = IF buffer[n][kind].block = b THEN o + 1 ELSE 1
  BY <1>2, <1>4
<1>8. c <= h + 1 /\ c <= s
  BY <1>4, <1>5, <1>6, <1>7
<1> HIDE DEF buf
<1> QED BY <1>2, <1>4, <1>8 DEF buf

LEMMA HeardStep ==
    ASSUME TypeInv, TypeInv', HeardEnough,
           \A m \in Nodes, kind \in Kinds :
              LET buf == buffer'[m][kind]
              IN  \/ /\ buf = buffer[m][kind]
                     /\ \A c \in AllHashes : heard[m][kind][c] <= heard'[m][kind][c]
                  \/ buf.block = NoHash
                  \/ buf.count <= heard'[m][kind][buf.block]
    PROVE  HeardEnough'
<1> SUFFICES ASSUME NEW m \in Nodes, NEW kind \in Kinds, buffer'[m][kind].block # NoHash
             PROVE  buffer'[m][kind].count <= heard'[m][kind][buffer'[m][kind].block]
  BY DEF HeardEnough
<1>1. CASE /\ buffer'[m][kind] = buffer[m][kind]
           /\ \A c \in AllHashes : heard[m][kind][c] <= heard'[m][kind][c]
  <2> DEFINE b == buffer[m][kind].block
             c == buffer[m][kind].count
  <2>1. \E max \in Nat : buffer[m][kind] \in Buffers(max)
    <3>1. 1 \in Nat /\ 2 \in Nat
      OBVIOUS
    <3> QED BY <3>1, BufferFacts DEF Kinds
  <2>2. b \in AllHashes /\ c \in Int
    <3>1. \A max : \A x \in Buffers(max) : x.count \in 0 .. max /\ x.block \in Hashes \cup {NoHash}
      BY DEF Buffers
    <3> QED BY <1>1, <2>1, <3>1, HashFacts
  <2>3. c <= heard[m][kind][b] /\ heard[m][kind][b] <= heard'[m][kind][b]
    BY <1>1, <2>2 DEF HeardEnough
  <2>4. heard[m][kind][b] \in Nat /\ heard'[m][kind][b] \in Nat
    <3>1. heard \in HeardFunctions /\ heard' \in HeardFunctions
      BY TypeFacts DEF TypeInv, HeardFunctions
    <3> HIDE DEF b
    <3> QED BY <2>2, <3>1 DEF HeardFunctions
  <2> HIDE DEF b, c
  <2>5. c <= heard'[m][kind][b]
    BY <2>2, <2>3, <2>4
  <2> QED BY <1>1, <2>5 DEF b, c
<1> QED BY <1>1

LEMMA HeardEnoughNext == TypeInv /\ TypeInv' /\ HeardEnough /\ [Next]_vars => HeardEnough'
<1> SUFFICES ASSUME TypeInv, TypeInv', HeardEnough, [Next]_vars PROVE HeardEnough'
  OBVIOUS
<1>1. \A m \in Nodes, kind \in Kinds, c \in AllHashes : heard[m][kind][c] <= heard[m][kind][c]
  <2> TAKE m \in Nodes, kind \in Kinds, c \in AllHashes
  <2>1. heard[m][kind][c] \in Nat
    BY TypeFacts DEF HeardFunctions
  <2> QED BY <2>1
<1>2. ASSUME buffer' = buffer, heard' = heard PROVE HeardEnough'
  BY <1>1, <1>2, HeardStep
<1>3. ASSUME NEW n \in Nodes, NEW b \in Hashes, NEW kind \in Kinds, Underway(kind, b, n),
             Hears(kind, b, n), prepared \subseteq prepared', committed \subseteq committed',
             \A m \in Nodes, k \in Kinds :
                \/ buffer'[m][k] = buffer[m][k]
                \/ buffer'[m][k].block = NoHash
                \/ m = n /\ k = kind /\ buffer'[m][k] = Counted(buffer[n][kind], b)
      PROVE  HeardEnough'
  <2>1. /\ heard'[n][kind][b] = heard[n][kind][b] + 1
        /\ \A m \in Nodes, k \in Kinds, c \in AllHashes : heard[m][k][c] <= heard'[m][k][c]
    BY <1>3, HearsFacts
  <2>2. /\ Counted(buffer[n][kind], b).block = b
        /\ Counted(buffer[n][kind], b).count <= heard'[n][kind][b]
    BY <1>3, <2>1, CountHeard
  <2> QED BY <1>3, <2>1, <2>2, HeardStep
<1>4. CASE UNCHANGED vars
  BY <1>2, <1>4 DEF vars, counting
<1>5. ASSUME NEW n \in Nodes, Works(n) \/ Suffers(n) PROVE HeardEnough'
  <2>1. CASE DrawBlocker(n) \/ BlockTimeout(n) \/ CreateBlock(n) \/ BuildBlock(n)
             \/ GiveUpBlock(n) \/ CollectEndorsement(n)
    BY <1>2, <2>1 DEF DrawBlocker, BlockTimeout, CreateBlock, BuildBlock, GiveUpBlock,
                      CollectEndorsement, counting
  <2>2. ASSUME NEW b \in Hashes,
               \/ AcceptPrePrepare(n, b) \/ Prepare(n, b) \/ RefuseBlock(n, b)
               \/ ConfirmBlock(n, b) \/ \E r \in Requesters : ReceiveReply(n, b, r)
        PROVE  HeardEnough'
    BY <1>2, <2>2 DEF AcceptPrePrepare, Prepare, RefuseBlock, ConfirmBlock, ReceiveReply, counting
  <2>3. ASSUME NEW b \in Hashes, ReceivePrepare(n, b) PROVE HeardEnough'
    <3>1. /\ Underway("prepare", b, n) /\ Hears("prepare", b, n) /\ committed \subseteq committed'
          /\ prepared' = prepared /\ \A m \in Nodes \ {n} : buffer'[m] = buffer[m]
          /\ buffer'[n].commit = buffer[n].commit
          /\ \/ buffer'[n].prepare = Empty
             \/ buffer'[n].prepare = Counted(buffer[n].prepare, b)
      BY <2>3, PrepareHeard DEF ReceivePrepare
    <3> QED BY <1>3, <3>1 DEF Kinds, Empty
  <2>4. ASSUME NEW b \in Hashes, ReceiveCommit(n, b) PROVE HeardEnough'
    <3>1. /\ Underway("commit", b, n) /\ Hears("commit", b, n) /\ committed' = committed
          /\ prepared' = prepared /\ \A m \in Nodes \ {n} : buffer'[m] = buffer[m]
          /\ buffer'[n].prepare = buffer[n].prepare
          /\ \/ buffer'[n].commit = Empty
             \/ buffer'[n].commit = Counted(buffer[n].commit, b)
      BY <2>4, CommitHeard DEF ReceiveCommit
    <3> QED BY <1>3, <3>1 DEF Kinds, Empty
  <2>5. ASSUME NEW b \in Hashes, NEW kind \in Kinds, PassOver(n, b, kind) PROVE HeardEnough'
    BY <1>3, <2>5 DEF PassOver, messages
  <2>6. CASE Restart(n)
    <3>1. /\ \A kind \in Kinds : buffer'[n][kind].block = NoHash
          /\ \A m \in Nodes \ {n} : heard'[m] = heard[m] /\ buffer'[m] = buffer[m]
      BY <2>6, RestartFacts
    <3> QED BY <1>1, <3>1, HeardStep
  <2> QED BY <1>5, <2>1, <2>2, <2>3, <2>4, <2>5, <2>6 DEF Works, Suffers, Kinds
<1> QED BY <1>4, <1>5 DEF Next, Up

-----------------------------------------------------------------------------
(* Certificates.                                                            *)

\* No step takes back a prepare, a commit or a block.
LEMMA Grows ==
    ASSUME TypeInv, [Next]_vars
    PROVE  /\ prepared \subseteq prepared' /\ committed \subseteq committed'
           /\ Hashes \subseteq Hashes' /\ \A b \in Hashes : blocks'[b] = blocks[b]
<1>1. CASE UNCHANGED vars
  BY <1>1 DEF vars, building, messages, Hashes
<1>2. ASSUME NEW n \in Nodes, Works(n) \/ Suffers(n)
      PROVE  /\ prepared \subseteq prepared' /\ committed \subseteq committed'
             /\ Hashes \subseteq Hashes' /\ \A b \in Hashes : blocks'[b] = blocks[b]
  <2>1. CASE DrawBlocker(n) \/ BlockTimeout(n) \/ CreateBlock(n) \/ GiveUpBlock(n)
             \/ CollectEndorsement(n) \/ Restart(n)
    BY <2>1 DEF DrawBlocker, BlockTimeout, CreateBlock, GiveUpBlock, CollectEndorsement, Restart,
                building, messages, Hashes
  <2>2. CASE BuildBlock(n)
    BY <2>2, BuildFacts DEF messages
  <2>3. ASSUME NEW b \in Hashes,
               \/ AcceptPrePrepare(n, b) \/ Prepare(n, b) \/ RefuseBlock(n, b)
               \/ ConfirmBlock(n, b)
        PROVE  /\ prepared \subseteq prepared' /\ committed \subseteq committed'
               /\ Hashes \subseteq Hashes' /\ \A c \in Hashes : blocks'[c] = blocks[c]
    BY <2>3 DEF AcceptPrePrepare, Prepare, RefuseBlock, ConfirmBlock, building, messages, Hashes
  <2>4. ASSUME NEW b \in Hashes,
               \/ ReceivePrepare(n, b) \/ ReceiveCommit(n, b)
               \/ \E kind \in Kinds : PassOver(n, b, kind)
               \/ \E r \in Requesters : ReceiveReply(n, b, r)
        PROVE  /\ prepared \subseteq prepared' /\ committed \subseteq committed'
               /\ Hashes \subseteq Hashes' /\ \A c \in Hashes : blocks'[c] = blocks[c]
    BY <2>4 DEF ReceivePrepare, ReceiveCommit, PassOver, ReceiveReply, building, messages, Hashes
  <2> QED BY <1>2, <2>1, <2>2, <2>3, <2>4 DEF Works, Suffers, Kinds
<1> QED BY <1>1, <1>2 DEF Next, Up

LEMMA EnoughGrows ==
    ASSUME TypeInv, [Next]_vars
    PROVE  /\ \A b : Enough(b) => Enough(b)'
           /\ \A b : Cardinality(SendersOf("prepare", b)) >= 2 =>
                         Cardinality(SendersOf("prepare", b)') >= 2
<1>1. prepared \subseteq prepared' /\ committed \subseteq committed'
  BY Grows
<1>2. \A kind \in Kinds : \A b : \A k \in Nat :
          Cardinality(SendersOf(kind, b)) >= k => Cardinality(SendersOf(kind, b)') >= k
  <2> TAKE kind \in Kinds
  <2> TAKE b
  <2> TAKE k \in Nat
  <2>1. PICK i, j \in Nat : /\ i = Cardinality(SendersOf(kind, b))
                            /\ j = Cardinality(SendersOf(kind, b)') /\ i <= j
    BY <1>1, SendersGrow
  <2> QED BY <2>1
<1>3. 2 \in Nat /\ 3 \in Nat /\ "prepare" \in Kinds /\ "commit" \in Kinds
  BY DEF Kinds
<1> QED BY <1>2, <1>3 DEF Enough

LEMMA AskedNext == TypeInv /\ AskedInv /\ [Next]_vars => AskedInv'
<1> SUFFICES ASSUME TypeInv, AskedInv, [Next]_vars PROVE AskedInv'
  OBVIOUS
<1> DEFINE Asked == waiting \cup verifying \cup prepared
<1>1. /\ \A v \in Asked : v[1] \in Hashes /\ v[2] # blocks[v[1]].maker
      /\ \A n \in Nodes : /\ collect[n] \in Hashes \cup {NoHash}
                          /\ collect[n] # NoHash => blocks[collect[n]].maker = n
  BY TypeFacts DEF AskedInv
<1>2. \A b \in Hashes : blocks'[b] = blocks[b]
  BY Grows
<1>3. ASSUME \A v \in Asked' : v \in Asked \/ (v[1] \in Hashes /\ v[2] # blocks[v[1]].maker),
             \A n \in Nodes : collect'[n] \in {collect[n], NoHash}
      PROVE  AskedInv'
  BY <1>1, <1>2, <1>3 DEF AskedInv
<1>4. CASE UNCHANGED vars
  BY <1>3, <1>4 DEF vars, building, messages
<1>5. ASSUME NEW n \in Nodes, Works(n) \/ Suffers(n) PROVE AskedInv'
  <2>1. CASE DrawBlocker(n) \/ BlockTimeout(n) \/ CreateBlock(n) \/ GiveUpBlock(n)
    BY <1>3, <2>1 DEF DrawBlocker, BlockTimeout, CreateBlock, GiveUpBlock, building, messages
  <2>2. CASE BuildBlock(n)
    <3> DEFINE b == Len(blocks) + 1
    <3>1. /\ blocks'[b] = [prev |-> vote[n].hash, maker |-> n,
                           height |-> HeightOf(vote[n].hash) + 1]
          /\ collect' = [collect EXCEPT ![n] = b] /\ UNCHANGED messages
      BY <2>2, BuildFacts
    <3> HIDE DEF b
    <3>2. blocks'[b].maker = n /\ collect'[n] = b
          /\ \A m \in Nodes \ {n} : collect'[m] = collect[m]
      BY <3>1, TypeFacts
    <3>3. UNCHANGED <<waiting, verifying, prepared>>
      BY <3>1 DEF messages
    <3> QED BY <1>1, <1>2, <3>2, <3>3 DEF AskedInv
  <2>3. CASE CollectEndorsement(n)
    <3>1. collect[n] \in Hashes /\ blocks[collect[n]].maker = n
      BY <1>1, <2>3 DEF CollectEndorsement
    <3>2. /\ collect' = [collect EXCEPT ![n] = NoHash] /\ UNCHANGED <<verifying, prepared>>
          /\ \/ waiting' = waiting \cup ({collect[n]} \X (Nodes \ {n}))
             \/ waiting' = waiting
      BY <2>3 DEF CollectEndorsement
    <3>3. \A m \in Nodes : collect'[m] \in {collect[m], NoHash}
      BY <3>2, TypeFacts
    <3>4. \A v \in Asked' : v \in Asked \/ (v[1] \in Hashes /\ v[2] # blocks[v[1]].maker)
      BY <3>1, <3>2
    <3> QED BY <1>3, <3>3, <3>4
  <2>4. ASSUME NEW b \in Hashes,
               \/ AcceptPrePrepare(n, b) \/ Prepare(n, b) \/ RefuseBlock(n, b)
               \/ ConfirmBlock(n, b)
        PROVE  AskedInv'
    <3>1. Asked' \subseteq Asked /\ collect' = collect
      BY <2>4 DEF AcceptPrePrepare, CanAccept, Prepare, RefuseBlock, ConfirmBlock, building,
                  messages
    <3> QED BY <1>3, <3>1
  <2>5. ASSUME NEW b \in Hashes,
               \/ ReceivePrepare(n, b) \/ ReceiveCommit(n, b)
               \/ \E kind \in Kinds : PassOver(n, b, kind)
               \/ \E r \in Requesters : ReceiveReply(n, b, r)
        PROVE  AskedInv'
    <3>1. Asked' = Asked /\ collect' = collect
      BY <2>5 DEF ReceivePrepare, ReceiveCommit, PassOver, ReceiveReply, building, messages
    <3> QED BY <1>3, <3>1
  <2>6. CASE Restart(n)
    <3>1. Asked' \subseteq Asked /\ collect' = [collect EXCEPT ![n] = NoHash]
      BY <2>6 DEF Restart
    <3>2. \A m \in Nodes : collect'[m] \in {collect[m], NoHash}
      BY <3>1, TypeFacts
    <3> QED BY <1>3, <3>1, <3>2
  <2> QED BY <1>5, <2>1, <2>2, <2>3, <2>4, <2>5, <2>6 DEF Works, Suffers, Kinds
<1> QED BY <1>4, <1>5 DEF Next, Up

LEMMA CommitNext == TypeInv /\ HeardEnough /\ CommitInv /\ [Next]_vars => CommitInv'
<1> SUFFICES ASSUME TypeInv, HeardEnough, CommitInv, [Next]_vars PROVE CommitInv'
  OBVIOUS
<1>1. ASSUME \A v \in committed' : v \in committed \/ Cardinality(SendersOf("prepare", v[1])) >= 2
      PROVE  CommitInv'
  BY <1>1, EnoughGrows DEF CommitInv
<1>2. CASE UNCHANGED vars
  BY <1>1, <1>2 DEF vars, messages
<1>3. ASSUME NEW n \in Nodes, Works(n) \/ Suffers(n) PROVE CommitInv'
  <2>1. CASE DrawBlocker(n) \/ BlockTimeout(n) \/ CreateBlock(n) \/ BuildBlock(n)
             \/ GiveUpBlock(n) \/ CollectEndorsement(n) \/ Restart(n)
    BY <1>1, <2>1 DEF DrawBlocker, BlockTimeout, CreateBlock, BuildBlock, GiveUpBlock,
                      CollectEndorsement, Restart, messages
  <2>2. ASSUME NEW b \in Hashes,
               \/ AcceptPrePrepare(n, b) \/ Prepare(n, b) \/ RefuseBlock(n, b)
               \/ ConfirmBlock(n, b) \/ ReceiveCommit(n, b)
        PROVE  CommitInv'
    BY <1>1, <2>2 DEF AcceptPrePrepare, Prepare, RefuseBlock, ConfirmBlock, ReceiveCommit, messages
  <2>3. ASSUME NEW b \in Hashes,
               \/ \E kind \in Kinds : PassOver(n, b, kind)
               \/ \E r \in Requesters : ReceiveReply(n, b, r)
        PROVE  CommitInv'
    BY <1>1, <2>3 DEF PassOver, ReceiveReply, messages
  <2>4. ASSUME NEW b \in Hashes, ReceivePrepare(n, b) PROVE CommitInv'
    <3> DEFINE buf == Counted(buffer[n].prepare, b)
    <3>1. /\ Underway("prepare", b, n)
          /\ committed' = committed \/ (buf.count >= 2 /\ committed' = committed \cup {<<b, n>>})
      BY <2>4, PrepareHeard
    <3>2. buf.count \in Nat /\ buf.count <= Cardinality(SendersOf("prepare", b))
      BY <3>1, CountHeard DEF Kinds
    <3>3. Cardinality(SendersOf("prepare", b)) \in Nat
      BY SendersFacts DEF Kinds
    <3> HIDE DEF buf
    <3>4. buf.count >= 2 => Cardinality(SendersOf("prepare", b)) >= 2
      BY <3>2, <3>3
    <3> QED BY <1>1, <3>1, <3>4
  <2> QED BY <1>3, <2>1, <2>2, <2>3, <2>4 DEF Works, Suffers, Kinds
<1> QED BY <1>2, <1>3 DEF Next, Up

LEMMA ReplyNext == TypeInv /\ HeardEnough /\ ReplyInv /\ [Next]_vars => ReplyInv'
<1> SUFFICES ASSUME TypeInv, HeardEnough, ReplyInv, [Next]_vars PROVE ReplyInv'
  OBVIOUS
<1>1. ASSUME \A b \in AllHashes, r \in Requesters :
                 replies'[b][r] > 0 => replies[b][r] > 0 \/ Enough(b),
             \A n \in Nodes, r \in Requesters :
                 \/ counter'[n][r] = counter[n][r] \/ counter'[n][r].block = NoHash
                 \/ Enough(counter'[n][r].block),
             \A b \in published' : b \in published \/ Enough(b)
      PROVE  ReplyInv'
  <2>1. \A b : Enough(b) => Enough(b)'
    BY EnoughGrows
  <2>2. \A b \in AllHashes, r \in Requesters : replies'[b][r] > 0 => Enough(b)'
    BY <1>1, <2>1 DEF ReplyInv
  <2>3. \A n \in Nodes, r \in Requesters :
            counter'[n][r].block # NoHash => Enough(counter'[n][r].block)
    BY <1>1 DEF ReplyInv
  <2>4. \A n \in Nodes, r \in Requesters :
            (counter[n][r].block # NoHash => Enough(counter[n][r].block))'
    <3> SUFFICES ASSUME NEW n \in Nodes, NEW r \in Requesters, counter'[n][r].block # NoHash
                 PROVE  Cardinality(SendersOf("commit", counter[n][r].block)') >= 3
      BY DEF Enough
    <3>1. PICK b : b = counter'[n][r].block
      OBVIOUS
    <3>2. Enough(b)
      BY <2>3, <3>1
    <3>3. Enough(b)'
      BY <2>1, <3>2
    <3>4. Cardinality({m \in Nodes : <<b, m>> \in committed'}) >= 3
      BY <3>3 DEF Enough, SendersOf
    <3> QED BY <3>1, <3>4 DEF SendersOf
  <2>5. \A b \in published' : Enough(b)'
    BY <1>1, <2>1 DEF ReplyInv
  <2> QED BY <2>2, <2>4, <2>5 DEF ReplyInv
<1>2. CASE UNCHANGED vars
  BY <1>1, <1>2 DEF vars, messages, counting
<1>3. ASSUME NEW n \in Nodes, Works(n) \/ Suffers(n) PROVE ReplyInv'
  <2>1. CASE DrawBlocker(n) \/ BlockTimeout(n) \/ CreateBlock(n) \/ BuildBlock(n)
             \/ GiveUpBlock(n) \/ CollectEndorsement(n)
    BY <1>1, <2>1 DEF DrawBlocker, BlockTimeout, CreateBlock, BuildBlock, GiveUpBlock,
                      CollectEndorsement, messages, counting
  <2>2. ASSUME NEW b \in Hashes,
               \/ AcceptPrePrepare(n, b) \/ Prepare(n, b) \/ RefuseBlock(n, b)
               \/ ConfirmBlock(n, b) \/ ReceivePrepare(n, b)
               \/ \E kind \in Kinds : PassOver(n, b, kind)
        PROVE  ReplyInv'
    BY <1>1, <2>2 DEF AcceptPrePrepare, Prepare, RefuseBlock, ConfirmBlock, ReceivePrepare,
                      PassOver, messages, counting
  <2>3. ASSUME NEW b \in Hashes, ReceiveCommit(n, b) PROVE ReplyInv'
    <3> DEFINE buf == Counted(buffer[n].commit, b)
    <3>1. /\ Underway("commit", b, n) /\ counter' = counter /\ published' = published
          /\ \/ /\ buf.count >= 3
                /\ \A c \in AllHashes, r \in Requesters :
                      replies'[c][r] = replies[c][r] \/ c = b
             \/ replies' = replies
      BY <2>3, CommitHeard DEF ReceiveCommit
    <3>2. buf.count \in Nat /\ buf.count <= Cardinality(SendersOf("commit", b))
      BY <3>1, CountHeard DEF Kinds
    <3>3. Cardinality(SendersOf("commit", b)) \in Nat
      BY SendersFacts DEF Kinds
    <3> HIDE DEF buf
    <3>4. buf.count >= 3 => Enough(b)
      BY <3>2, <3>3 DEF Enough
    <3> QED BY <1>1, <3>1, <3>4
  <2>4. ASSUME NEW b \in Hashes, NEW r \in Requesters, ReceiveReply(n, b, r) PROVE ReplyInv'
    <3>1. Enough(b)
      BY <2>4, ReplyHeard, HashFacts DEF ReplyInv
    <3>2. /\ \A m \in Nodes, q \in Requesters :
                counter'[m][q] = counter[m][q] \/ counter'[m][q].block \in {NoHash, b}
          /\ published' \subseteq published \cup {b}
      BY <2>4, ReplyHeard
    <3>3. \A c \in AllHashes, q \in Requesters : replies'[c][q] > 0 => replies[c][q] > 0
      <4> TAKE c \in AllHashes, q \in Requesters
      <4>1. replies'[c][q] <= replies[c][q] /\ replies \in [AllHashes -> [Requesters -> Nat]]
            /\ replies' \in [AllHashes -> [Requesters -> Nat]]
        BY <2>4, ReplyHeard, TypeFacts
      <4> QED BY <4>1
    <3> QED BY <1>1, <3>1, <3>2, <3>3
  <2>5. CASE Restart(n)
    <3>1. /\ \A r \in Requesters : counter'[n][r].block = NoHash
          /\ \A m \in Nodes \ {n} : counter'[m] = counter[m]
          /\ UNCHANGED <<replies, published>>
      BY <2>5, RestartFacts
    <3> QED BY <1>1, <3>1
  <2> QED BY <1>3, <2>1, <2>2, <2>3, <2>4, <2>5 DEF Works, Suffers, Kinds
<1> QED BY <1>2, <1>3 DEF Next, Up

LEMMA StoredNext == TypeInv /\ StoredInv /\ [Next]_vars => StoredInv'
<1> SUFFICES ASSUME TypeInv, StoredInv, [Next]_vars PROVE StoredInv'
  OBVIOUS
<1>1. published \subseteq Hashes /\ \A b \in Hashes : blocks'[b] = blocks[b]
  BY Grows, TypeFacts
<1>2. ASSUME chain' = chain, published' = published PROVE StoredInv'
  BY <1>1, <1>2 DEF StoredInv
<1>3. \A n \in Nodes : Tip(n) \in published \cup {Genesis}
  BY TipType DEF StoredInv
<1>4. CASE UNCHANGED vars
  BY <1>2, <1>4 DEF vars
<1>5. ASSUME NEW n \in Nodes, Works(n) \/ Suffers(n) PROVE StoredInv'
  <2>1. CASE DrawBlocker(n) \/ BlockTimeout(n) \/ CreateBlock(n) \/ BuildBlock(n)
             \/ GiveUpBlock(n) \/ CollectEndorsement(n) \/ Restart(n)
    BY <1>2, <2>1 DEF DrawBlocker, BlockTimeout, CreateBlock, BuildBlock, GiveUpBlock,
                      CollectEndorsement, Restart
  <2>2. ASSUME NEW b \in Hashes,
               \/ AcceptPrePrepare(n, b) \/ Prepare(n, b) \/ RefuseBlock(n, b)
               \/ ReceivePrepare(n, b) \/ ReceiveCommit(n, b)
               \/ \E kind \in Kinds : PassOver(n, b, kind)
        PROVE  StoredInv'
    BY <1>2, <2>2 DEF AcceptPrePrepare, Prepare, RefuseBlock, ReceivePrepare, ReceiveCommit,
                      PassOver
  <2>3. ASSUME NEW b \in Hashes, NEW r \in Requesters, ReceiveReply(n, b, r) PROVE StoredInv'
    <3>1. /\ chain' = chain
          /\ published' = published \/ (published' = published \cup {b} /\ OnTip(b, n))
      BY <2>3, ReplyHeard DEF ReceiveReply
    <3>2. CASE published' = published \cup {b} /\ OnTip(b, n)
      <4>1. blocks[b].prev \in published \cup {Genesis}
        BY <1>3, <3>2 DEF OnTip
      <4> QED BY <1>1, <3>1, <3>2, <4>1 DEF StoredInv
    <3> QED BY <1>2, <3>1, <3>2
  <2>4. ASSUME NEW b \in Hashes, ConfirmBlock(n, b) PROVE StoredInv'
    <3>1. /\ b \in published /\ chain' = [chain EXCEPT ![n] = Append(chain[n], b)]
          /\ published' = published
      BY <2>4 DEF ConfirmBlock, CanStore
    <3>2. \A i \in DOMAIN Append(chain[n], b) : Append(chain[n], b)[i] \in published
      <4>1. chain[n] \in Seq(published)
        <5>1. chain[n] \in Seq(Hashes) /\ \A i \in DOMAIN chain[n] : chain[n][i] \in published
          BY TipType DEF StoredInv
        <5> QED BY <5>1, LenProperties
      <4>2. Append(chain[n], b) \in Seq(published)
        BY <3>1, <4>1
      <4> QED BY <4>2
    <3>3. chain'[n] = Append(chain[n], b) /\ \A m \in Nodes \ {n} : chain'[m] = chain[m]
      BY <3>1, TypeFacts
    <3> QED BY <1>1, <3>1, <3>2, <3>3 DEF StoredInv
  <2> QED BY <1>5, <2>1, <2>2, <2>3, <2>4 DEF Works, Suffers, Kinds
<1> QED BY <1>4, <1>5 DEF Next, Up

-----------------------------------------------------------------------------
(* Chains.                                                                  *)

\* The steps that change a chain, a vote or what blockers do.
Core == <<blocks, chain, vote, packing, preblock, restarted>>

LEMMA CoreSteps ==
    ASSUME TypeInv, [Next]_vars
    PROVE  /\ schedule' = schedule
           /\ \/ UNCHANGED Core
              \/ \E n \in Nodes : \/ DrawBlocker(n) \/ BlockTimeout(n) \/ CreateBlock(n)
                                  \/ BuildBlock(n) \/ GiveUpBlock(n) \/ Restart(n)
              \/ \E n \in Nodes, b \in Hashes : ConfirmBlock(n, b)
<1>1. CASE UNCHANGED vars
  BY <1>1 DEF vars, building, noise, Core
<1>2. ASSUME NEW n \in Nodes, Works(n) \/ Suffers(n)
      PROVE  \/ UNCHANGED Core
             \/ DrawBlocker(n) \/ BlockTimeout(n) \/ CreateBlock(n)
             \/ BuildBlock(n) \/ GiveUpBlock(n) \/ Restart(n)
             \/ \E b \in Hashes : ConfirmBlock(n, b)
  <2>1. CASE CollectEndorsement(n)
    BY <2>1 DEF CollectEndorsement, noise, Core
  <2>2. ASSUME NEW b \in Hashes,
               \/ AcceptPrePrepare(n, b) \/ Prepare(n, b) \/ RefuseBlock(n, b)
               \/ \E kind \in Kinds : PassOver(n, b, kind)
        PROVE  UNCHANGED Core
    BY <2>2 DEF AcceptPrePrepare, Prepare, RefuseBlock, PassOver, building, noise, Core
  <2>3. ASSUME NEW b \in Hashes,
               \/ ReceivePrepare(n, b) \/ ReceiveCommit(n, b)
               \/ \E r \in Requesters : ReceiveReply(n, b, r)
        PROVE  UNCHANGED Core
    BY <2>3 DEF ReceivePrepare, ReceiveCommit, ReceiveReply, building, noise, Core
  <2> QED BY <1>2, <2>1, <2>2, <2>3 DEF Works, Suffers, Kinds
<1>3. schedule' = schedule
  BY DEF Next, vars
<1> QED BY <1>1, <1>2, <1>3 DEF Next, Up

\* A block is stored on the tip.
LEMMA ConfirmFacts ==
    ASSUME TypeInv, NEW n \in Nodes, NEW b \in Hashes, ConfirmBlock(n, b)
    PROVE  /\ blocks[b].prev = Tip(n) /\ chain' \in [Nodes -> Seq(Hashes)]
           /\ DOMAIN chain'[n] = 1 .. Height(n) + 1 /\ chain'[n][Height(n) + 1] = b
           /\ \A i \in 1 .. Height(n) : chain'[n][i] = chain[n][i]
           /\ \A m \in Nodes \ {n} : chain'[m] = chain[m]
           /\ UNCHANGED <<blocks, vote, packing, preblock, restarted>>
<1>1. /\ chain' = [chain EXCEPT ![n] = Append(chain[n], b)] /\ blocks[b].prev = Tip(n)
      /\ UNCHANGED <<blocks, vote, packing, preblock, restarted>>
  BY DEF ConfirmBlock, CanStore, OnTip, building, noise
<1>2. chain \in [Nodes -> Seq(Hashes)] /\ chain[n] \in Seq(Hashes)
  BY TypeFacts
<1> DEFINE s == Append(chain[n], b)
<1>3. /\ s \in Seq(Hashes) /\ Len(s) = Len(chain[n]) + 1 /\ s[Len(chain[n]) + 1] = b
      /\ \A i \in 1 .. Len(chain[n]) : s[i] = chain[n][i]
  BY <1>2, AppendProperties
<1>4. DOMAIN s = 1 .. Len(chain[n]) + 1
  BY <1>3, LenProperties
<1> HIDE DEF s
<1>5. chain'[n] = s /\ chain' \in [Nodes -> Seq(Hashes)]
      /\ \A m \in Nodes \ {n} : chain'[m] = chain[m]
  BY <1>1, <1>2, <1>3 DEF s
<1> QED BY <1>1, <1>3, <1>4, <1>5 DEF Height

LEMMA HeightKept ==
    ASSUME TypeInv, [Next]_vars
    PROVE  \A h \in Hashes \cup {Genesis} : HeightOf(h)' = HeightOf(h)
BY Grows DEF HeightOf

\* A node's chain has one block at each height, the tip at the highest.
LEMMA OwnFacts ==
    ASSUME TypeInv, LinkInv, NEW n \in Nodes
    PROVE  /\ OwnChain(n) \subseteq Hashes \cup {Genesis}
           /\ \A x \in OwnChain(n) : HeightOf(x) \in 0 .. Height(n)
           /\ \A x, y \in OwnChain(n) : HeightOf(x) = HeightOf(y) => x = y
           /\ Tip(n) \in OwnChain(n) /\ HeightOf(Tip(n)) = Height(n)
<1>1. /\ Height(n) \in Nat /\ DOMAIN chain[n] = 1 .. Height(n) /\ chain[n] \in Seq(Hashes)
      /\ chain[n] = <<>> => Height(n) = 0 /\ Tip(n) = Genesis
      /\ chain[n] # <<>> => Height(n) \in DOMAIN chain[n] /\ Tip(n) = chain[n][Height(n)]
  BY TipType
<1>2. /\ \A i \in DOMAIN chain[n] : chain[n][i] \in Hashes /\ HeightOf(chain[n][i]) = i
      /\ HeightOf(Genesis) = 0
  BY <1>1 DEF LinkInv, HeightOf
<1>3. \A x \in OwnChain(n) : \/ x = Genesis
                             \/ \E i \in 1 .. Height(n) : x = chain[n][i]
  BY <1>1 DEF OwnChain
<1>4. OwnChain(n) \subseteq Hashes \cup {Genesis}
  BY <1>1, <1>2, <1>3
<1>5. ASSUME NEW x \in OwnChain(n)
      PROVE  HeightOf(x) \in 0 .. Height(n) /\ (HeightOf(x) = 0 => x = Genesis)
             /\ (HeightOf(x) # 0 => x = chain[n][HeightOf(x)])
  <2>1. CASE x = Genesis
    BY <1>1, <1>2, <2>1
  <2>2. ASSUME NEW i \in 1 .. Height(n), x = chain[n][i]
        PROVE  HeightOf(x) \in 0 .. Height(n) /\ (HeightOf(x) = 0 => x = Genesis)
               /\ (HeightOf(x) # 0 => x = chain[n][HeightOf(x)])
    <3>1. HeightOf(x) = i /\ i # 0 /\ i \in 0 .. Height(n)
      BY <1>1, <1>2, <2>2
    <3> QED BY <2>2, <3>1
  <2> QED BY <1>3, <2>1, <2>2
<1>6. \A x, y \in OwnChain(n) : HeightOf(x) = HeightOf(y) => x = y
  BY <1>5
<1>7. Tip(n) \in OwnChain(n) /\ HeightOf(Tip(n)) = Height(n)
  <2>1. CASE chain[n] = <<>>
    BY <1>1, <1>2, <2>1 DEF OwnChain
  <2>2. CASE chain[n] # <<>>
    BY <1>1, <1>2, <2>2 DEF OwnChain
  <2> QED BY <2>1, <2>2
<1> QED BY <1>4, <1>5, <1>6, <1>7

LEMMA OwnGrows ==
    ASSUME TypeInv, [Next]_vars
    PROVE  \A n \in Nodes : OwnChain(n) \subseteq OwnChain(n)'
<1>1. ASSUME chain' = chain PROVE \A n \in Nodes : OwnChain(n) \subseteq OwnChain(n)'
  BY <1>1 DEF OwnChain
<1>2. ASSUME NEW n \in Nodes, NEW b \in Hashes, ConfirmBlock(n, b)
      PROVE  \A m \in Nodes : OwnChain(m) \subseteq OwnChain(m)'
  <2>1. \A m \in Nodes \ {n} : chain'[m] = chain[m]
    BY <1>2, ConfirmFacts
  <2>2. \A i \in DOMAIN chain[n] : i \in DOMAIN chain'[n] /\ chain'[n][i] = chain[n][i]
    BY <1>2, ConfirmFacts, TipType
  <2> QED BY <2>1, <2>2 DEF OwnChain
<1> QED BY <1>1, <1>2, CoreSteps DEF Core, DrawBlocker, BlockTimeout, CreateBlock, BuildBlock,
           GiveUpBlock, Restart

LEMMA ParentNext == TypeInv /\ ParentInv /\ [Next]_vars => ParentInv'
<1> SUFFICES ASSUME TypeInv, ParentInv, [Next]_vars PROVE ParentInv'
  OBVIOUS
<1>1. \A c \in Hashes : /\ blocks'[c] = blocks[c] /\ blocks[c].prev \in 0 .. c - 1
                        /\ blocks[c].prev \in Hashes \cup {Genesis}
                        /\ blocks[c].height = HeightOf(blocks[c].prev) + 1
  <2>1. Len(blocks) \in Nat
    BY HashFacts
  <2>2. \A c \in Hashes : \A p \in 0 .. c - 1 : p \in Hashes \cup {Genesis}
    BY <2>1 DEF Hashes, Genesis
  <2> QED BY <2>2, Grows DEF ParentInv
<1>2. \A c \in Hashes : /\ blocks'[c].prev \in 0 .. c - 1
                        /\ blocks'[c].height = (HeightOf(blocks[c].prev) + 1)'
  <2> TAKE c \in Hashes
  <2>1. PICK p \in Hashes \cup {Genesis} : p = blocks[c].prev
    BY <1>1
  <2>2. HeightOf(p)' = HeightOf(p)
    BY HeightKept
  <2>3. HeightOf(blocks[c].prev)' = HeightOf(p)' /\ HeightOf(blocks[c].prev) = HeightOf(p)
    BY <1>1, <2>1 DEF HeightOf
  <2> QED BY <1>1, <2>2, <2>3
<1>3. CASE blocks' = blocks
  BY <1>2, <1>3 DEF ParentInv, Hashes
<1>4. ASSUME NEW n \in Nodes, BuildBlock(n) PROVE ParentInv'
  <2>1. PICK b, h : b = Len(blocks) + 1 /\ h = vote[n].hash
    OBVIOUS
  <2>2. /\ Hashes' = Hashes \cup {b} /\ h \in Hashes \cup {Genesis}
        /\ blocks'[b] = [prev |-> h, maker |-> n, height |-> HeightOf(h) + 1]
    BY <1>4, <2>1, BuildFacts
  <2>3. h \in 0 .. b - 1
    <3>1. Len(blocks) \in Nat
      BY HashFacts
    <3>2. b - 1 = Len(blocks)
      BY <2>1, <3>1
    <3>3. \A x \in Hashes \cup {Genesis} : x \in 0 .. Len(blocks)
      BY <3>1 DEF Hashes, Genesis
    <3> QED BY <2>2, <3>2, <3>3
  <2>4. blocks'[b].prev = h /\ blocks'[b].height = HeightOf(h) + 1
    BY <2>2
  <2>5. HeightOf(h)' = HeightOf(h)
    BY <2>2, HeightKept
  <2>6. HeightOf(blocks[b].prev)' = HeightOf(h)'
    BY <2>4 DEF HeightOf
  <2>7. /\ blocks'[b].prev \in 0 .. b - 1
        /\ blocks'[b].height = (HeightOf(blocks[b].prev) + 1)'
    BY <2>3, <2>4, <2>5, <2>6
  <2> QED BY <1>2, <2>2, <2>7 DEF ParentInv
<1> QED BY <1>3, <1>4, CoreSteps DEF Core, DrawBlocker, BlockTimeout, CreateBlock, GiveUpBlock,
           Restart, ConfirmBlock, building

LEMMA LinkNext == TypeInv /\ LinkInv /\ ParentInv /\ [Next]_vars => LinkInv'
<1> SUFFICES ASSUME TypeInv, LinkInv, ParentInv, [Next]_vars PROVE LinkInv'
  OBVIOUS
<1>1. /\ \A c \in Hashes : blocks'[c] = blocks[c]
      /\ \A c \in Hashes : HeightOf(c)' = HeightOf(c)
      /\ \A n \in Nodes : \A i \in DOMAIN chain[n] : chain[n][i] \in Hashes
  BY Grows, HeightKept, TipType
<1>2. ASSUME NEW m \in Nodes, chain'[m] = chain[m]
      PROVE  \A i \in DOMAIN chain'[m] :
                blocks'[chain'[m][i]].prev = Below(m, i)' /\ (HeightOf(chain[m][i]) = i)'
  <2> TAKE i \in DOMAIN chain'[m]
  <2>1. PICK c \in Hashes : c = chain[m][i] /\ c = chain'[m][i]
    BY <1>1, <1>2
  <2>2. HeightOf(c) = i /\ blocks[c].prev = Below(m, i) /\ Below(m, i)' = Below(m, i)
    BY <1>2, <2>1 DEF LinkInv, Below
  <2>3. HeightOf(c)' = i /\ blocks'[c].prev = Below(m, i)'
    BY <1>1, <2>2
  <2>4. HeightOf(chain[m][i])' = HeightOf(c)'
    BY <2>1 DEF HeightOf
  <2> QED BY <2>1, <2>3, <2>4
<1>3. CASE chain' = chain
  BY <1>2, <1>3 DEF LinkInv
<1>4. ASSUME NEW n \in Nodes, NEW b \in Hashes, ConfirmBlock(n, b) PROVE LinkInv'
  <2>1. /\ blocks[b].prev = Tip(n) /\ Height(n) \in Nat /\ blocks' = blocks
        /\ DOMAIN chain[n] = 1 .. Height(n)
        /\ DOMAIN chain'[n] = 1 .. Height(n) + 1 /\ chain'[n][Height(n) + 1] = b
        /\ \A i \in 1 .. Height(n) : chain'[n][i] = chain[n][i]
        /\ \A m \in Nodes \ {n} : chain'[m] = chain[m]
    BY <1>4, ConfirmFacts, TipType
  <2>2. ASSUME NEW i \in DOMAIN chain'[n]
        PROVE  blocks'[chain'[n][i]].prev = Below(n, i)' /\ (HeightOf(chain[n][i]) = i)'
    <3>1. CASE i \in 1 .. Height(n)
      <4>1. PICK c \in Hashes : c = chain[n][i] /\ c = chain'[n][i]
        BY <1>1, <2>1, <3>1
      <4>2. HeightOf(c) = i /\ blocks[c].prev = Below(n, i)
        BY <2>1, <3>1, <4>1 DEF LinkInv
      <4>3. Below(n, i)' = Below(n, i)
        <5>1. i # 1 => i - 1 \in 1 .. Height(n)
          BY <2>1, <3>1
        <5> QED BY <2>1, <5>1 DEF Below
      <4>4. HeightOf(chain[n][i])' = HeightOf(c)'
        BY <4>1 DEF HeightOf
      <4> QED BY <1>1, <4>1, <4>2, <4>3, <4>4
    <3>2. CASE i = Height(n) + 1
      <4>1. chain'[n][i] = b /\ blocks'[b].prev = Tip(n)
        BY <2>1, <3>2
      <4>2. Below(n, i)' = Tip(n)
        <5>1. CASE chain[n] = <<>>
          <6>1. Height(n) = 0 /\ Tip(n) = Genesis
            BY <5>1, TipType
          <6>2. i = 1
            BY <3>2, <6>1
          <6> QED BY <6>1, <6>2 DEF Below
        <5>2. CASE chain[n] # <<>>
          <6>1. Height(n) \in 1 .. Height(n) /\ Tip(n) = chain[n][Height(n)]
            BY <2>1, <5>2, TipType
          <6>2. i # 1 /\ i - 1 = Height(n)
            BY <2>1, <3>2, <6>1
          <6>3. chain'[n][Height(n)] = Tip(n)
            BY <2>1, <6>1
          <6> QED BY <6>2, <6>3 DEF Below
        <5> QED BY <5>1, <5>2
      <4>3. HeightOf(Tip(n)) = Height(n)
        BY OwnFacts
      <4>4. HeightOf(b) = i
        <5>1. b # Genesis /\ blocks[b].height = HeightOf(blocks[b].prev) + 1
          BY HashFacts DEF ParentInv
        <5> QED BY <2>1, <3>2, <4>3, <5>1 DEF HeightOf
      <4>5. HeightOf(chain[n][i])' = HeightOf(b)'
        BY <4>1 DEF HeightOf
      <4> QED BY <1>1, <4>1, <4>2, <4>4, <4>5
    <3> QED BY <2>1, <2>2, <3>1, <3>2
  <2>3. \A m \in Nodes \ {n} : \A i \in DOMAIN chain'[m] :
            blocks'[chain'[m][i]].prev = Below(m, i)' /\ (HeightOf(chain[m][i]) = i)'
    BY <1>2, <2>1
  <2> QED BY <2>2, <2>3 DEF LinkInv
<1> QED BY <1>3, <1>4, CoreSteps DEF Core, DrawBlocker, BlockTimeout, CreateBlock, BuildBlock,
           GiveUpBlock, Restart

LEMMA DrawnNext == TypeInv /\ LinkInv /\ DrawnInv /\ [Next]_vars => DrawnInv'
<1> SUFFICES ASSUME TypeInv, LinkInv, DrawnInv, [Next]_vars PROVE DrawnInv'
  OBVIOUS
<1>1. /\ schedule' = schedule
      /\ \A n \in Nodes : OwnChain(n) \subseteq OwnChain(n)' /\ schedule.index[n] \in Nat
  <2>1. schedule' = schedule /\ schedule \in ScheduleRecords
    BY CoreSteps, TypeFacts, ConstantFacts
  <2> QED BY <2>1, OwnGrows DEF ScheduleRecords
<1>2. ASSUME NEW m \in Nodes, vote'[m] = vote[m]
      PROVE  vote'[m].hash # NoHash =>
                vote'[m].hash \in OwnChain(m)' /\ vote'[m].index \in 0 .. schedule'.index[m]
  BY <1>1, <1>2 DEF DrawnInv
<1>3. CASE vote' = vote
  BY <1>2, <1>3 DEF DrawnInv
<1>4. ASSUME NEW n \in Nodes, DrawBlocker(n) PROVE DrawnInv'
  <2>1. /\ vote'[n].index = 0 /\ vote'[n].hash = Tip(n)
        /\ \A m \in Nodes \ {n} : vote'[m] = vote[m]
    BY <1>4, DrawFacts
  <2>2. Tip(n) \in OwnChain(n)'
    BY <1>1, OwnFacts
  <2>3. 0 \in 0 .. schedule'.index[n]
    BY <1>1
  <2> QED BY <1>2, <2>1, <2>2, <2>3 DEF DrawnInv
<1>5. ASSUME NEW n \in Nodes, BlockTimeout(n) PROVE DrawnInv'
  <2>1. /\ vote[n].index < schedule.index[n] /\ vote'[n].index = vote[n].index + 1
        /\ vote'[n].hash = Tip(n) /\ vote[n].index + 1 \in Nat
        /\ \A m \in Nodes \ {n} : vote'[m] = vote[m]
    BY <1>5, TimeoutFacts
  <2>2. Tip(n) \in OwnChain(n)'
    BY <1>1, OwnFacts
  <2>3. vote[n].index + 1 \in 0 .. schedule'.index[n]
    <3>1. PICK i, j \in Int : i = vote[n].index /\ j = schedule.index[n] /\ j \in Nat /\ i < j
                              /\ i + 1 \in Nat
      <4>1. vote[n].index \in Int
        <5>1. vote[n].index \in Nat \cup {-1}
          BY VoteFacts
        <5> QED BY <5>1
      <4> QED BY <1>1, <2>1, <4>1
    <3>2. i + 1 \in 0 .. j
      BY <3>1
    <3> QED BY <1>1, <3>1, <3>2
  <2> QED BY <1>2, <2>1, <2>2, <2>3 DEF DrawnInv
<1>6. ASSUME NEW n \in Nodes, Restart(n) PROVE DrawnInv'
  <2>1. vote'[n].hash = NoHash /\ \A m \in Nodes \ {n} : vote'[m] = vote[m]
    BY <1>6, RestartFacts
  <2> QED BY <1>2, <2>1 DEF DrawnInv
<1> QED BY <1>3, <1>4, <1>5, <1>6, CoreSteps DEF Core, CreateBlock, BuildBlock, GiveUpBlock,
           ConfirmBlock

-----------------------------------------------------------------------------
(* One block for each parent.                                               *)

\* What is kept of the blocks and the heights of their parents.
LEMMA BlocksKept ==
    ASSUME TypeInv, ParentInv, [Next]_vars
    PROVE  /\ \A b \in Hashes : b \in Hashes' /\ blocks'[b] = blocks[b]
           /\ \A b \in Hashes : blocks[b].prev \in Hashes \cup {Genesis}
           /\ \A b \in Hashes : HeightOf(blocks[b].prev) \in Nat
           /\ \A b \in Hashes : HeightOf(blocks[b].prev)' = HeightOf(blocks[b].prev)
<1>1. \A b \in Hashes : b \in Hashes' /\ blocks'[b] = blocks[b]
  BY Grows
<1>2. \A b \in Hashes : blocks[b].prev \in Hashes \cup {Genesis}
  <2>1. Len(blocks) \in Nat
    BY HashFacts
  <2>2. \A b \in Hashes : \A p \in 0 .. b - 1 : p \in Hashes \cup {Genesis}
    BY <2>1 DEF Hashes, Genesis
  <2> QED BY <2>2 DEF ParentInv
<1>3. \A b \in Hashes : HeightOf(blocks[b].prev) \in Nat
  BY <1>2, HashFacts
<1>4. ASSUME NEW b \in Hashes PROVE HeightOf(blocks[b].prev)' = HeightOf(blocks[b].prev)
  <2>1. PICK p \in Hashes \cup {Genesis} : p = blocks[b].prev /\ p = blocks'[b].prev
    BY <1>1, <1>2
  <2>2. HeightOf(blocks[b].prev)' = HeightOf(p)' /\ HeightOf(blocks[b].prev) = HeightOf(p)
    BY <2>1 DEF HeightOf
  <2> QED BY <2>2, HeightKept
<1> QED BY <1>1, <1>2, <1>3, <1>4

\* Where the block is to be built, no other has been.
BuiltBelow(n, b) ==
    /\ blocks[b].prev \in OwnChain(n) /\ vote[n].hash # NoHash
    /\ preblock[n] \in MadeBy(n)
    /\ HeightOf(blocks[b].prev) <= HeightOf(blocks[preblock[n]].prev)
    /\ HeightOf(blocks[b].prev) <= HeightOf(vote[n].hash)
    /\ n \in packing => HeightOf(blocks[b].prev) < HeightOf(vote[n].hash)

LEMMA BuiltKept ==
    ASSUME TypeInv, ParentInv, SentInv, [Next]_vars,
           NEW m \in Nodes \ restarted, NEW b \in MadeBy(m),
           vote'[m] = vote[m], preblock'[m] = preblock[m], m \in packing' => m \in packing
    PROVE  BuiltBelow(m, b)'
<1>1. BuiltBelow(m, b) /\ b \in Hashes
  BY DEF SentInv, BuiltBelow, MadeBy
<1>2. PICK p \in Hashes : p = preblock[m] /\ p = preblock'[m] /\ blocks[p].maker = m
  BY <1>1 DEF BuiltBelow, MadeBy
<1>3. /\ blocks'[b] = blocks[b] /\ HeightOf(blocks[b].prev)' = HeightOf(blocks[b].prev)
      /\ blocks'[p] = blocks[p] /\ HeightOf(blocks[p].prev)' = HeightOf(blocks[p].prev)
      /\ p \in Hashes'
  BY <1>1, <1>2, BlocksKept
<1>4. /\ HeightOf(blocks[preblock[m]].prev) = HeightOf(blocks[p].prev)
      /\ HeightOf(blocks[preblock[m]].prev)' = HeightOf(blocks[p].prev)'
  BY <1>2 DEF HeightOf
<1>5. HeightOf(vote[m].hash)' = HeightOf(vote[m].hash)
  <2>1. PICK h \in Hashes \cup {Genesis} : h = vote[m].hash /\ h = vote'[m].hash
    BY <1>1, VoteFacts DEF BuiltBelow
  <2>2. HeightOf(vote[m].hash)' = HeightOf(h)' /\ HeightOf(vote[m].hash) = HeightOf(h)
    BY <2>1 DEF HeightOf
  <2> QED BY <2>2, HeightKept
<1>6. OwnChain(m) \subseteq OwnChain(m)'
  BY OwnGrows
<1>7. preblock'[m] \in MadeBy(m)'
  BY <1>2, <1>3 DEF MadeBy
<1>8. /\ blocks'[b].prev \in OwnChain(m)' /\ vote'[m].hash # NoHash
      /\ HeightOf(blocks[b].prev)' <= HeightOf(blocks[preblock[m]].prev)'
      /\ HeightOf(blocks[b].prev)' <= HeightOf(vote[m].hash)'
      /\ m \in packing' => HeightOf(blocks[b].prev)' < HeightOf(vote[m].hash)'
  BY <1>1, <1>3, <1>4, <1>5, <1>6 DEF BuiltBelow
<1> QED BY <1>7, <1>8 DEF BuiltBelow

LEMMA SentNext == TypeInv /\ ChainInv /\ SentInv /\ [Next]_vars => SentInv'
<1> SUFFICES ASSUME TypeInv, ChainInv, SentInv, [Next]_vars PROVE SentInv'
  OBVIOUS
<1> USE DEF ChainInv
<1>1. ASSUME restarted \subseteq restarted',
             \A n \in Nodes \ restarted' : \A b \in MadeBy(n)' : BuiltBelow(n, b)'
      PROVE  SentInv'
  BY <1>1 DEF SentInv, BuiltBelow
<1>2. \A n : blocks' = blocks => MadeBy(n)' = MadeBy(n)
  BY DEF MadeBy, Hashes
<1>3. CASE UNCHANGED <<blocks, vote, preblock, restarted>> /\ packing' \subseteq packing
  BY <1>1, <1>2, <1>3, BuiltKept
<1>4. ASSUME NEW n \in Nodes, DrawBlocker(n) PROVE SentInv'
  <2>1. /\ vote'[n].hash = Tip(n) /\ vote[n].hash # Tip(n)
        /\ \A m \in Nodes \ {n} : vote'[m] = vote[m]
        /\ UNCHANGED <<blocks, chain, preblock, packing, restarted>>
    BY <1>4, DrawFacts DEF DrawBlocker, building, noise
  <2>2. ASSUME n \notin restarted, NEW b \in MadeBy(n) PROVE BuiltBelow(n, b)'
    <3>1. BuiltBelow(n, b) /\ b \in Hashes
      BY <2>2 DEF SentInv, BuiltBelow, MadeBy
    <3>2. HeightOf(vote[n].hash) < Height(n)
      <4>1. vote[n].hash \in OwnChain(n)
        BY <3>1 DEF DrawnInv, BuiltBelow
      <4>2. /\ HeightOf(vote[n].hash) \in 0 .. Height(n)
            /\ HeightOf(vote[n].hash) # HeightOf(Tip(n)) /\ HeightOf(Tip(n)) = Height(n)
            /\ Height(n) \in Nat
        BY <2>1, <4>1, OwnFacts, TipType
      <4> QED BY <4>2
    <3>3. HeightOf(blocks[b].prev) < Height(n)
      <4>1. HeightOf(blocks[b].prev) \in Nat /\ HeightOf(vote[n].hash) \in Nat /\ Height(n) \in Nat
        <5>1. vote[n].hash \in Hashes \cup {Genesis}
          BY <3>1, VoteFacts DEF BuiltBelow
        <5> QED BY <3>1, <5>1, BlocksKept, HashFacts, TipType
      <4>2. HeightOf(blocks[b].prev) <= HeightOf(vote[n].hash)
        BY <3>1 DEF BuiltBelow
      <4> QED BY <3>2, <4>1, <4>2
    <3>4. HeightOf(vote[n].hash)' = Height(n)
      <4>1. HeightOf(vote[n].hash)' = HeightOf(Tip(n))
        BY <2>1 DEF HeightOf
      <4> QED BY <4>1, OwnFacts
    <3>5. HeightOf(blocks[b].prev) \in Nat /\ Height(n) \in Nat
      BY <3>1, BlocksKept, TipType
    <3>6. HeightOf(blocks[b].prev) <= Height(n)
      BY <3>3, <3>5
    <3>7. /\ HeightOf(blocks[b].prev)' = HeightOf(blocks[b].prev)
          /\ HeightOf(blocks[preblock[n]].prev)' = HeightOf(blocks[preblock[n]].prev)
          /\ MadeBy(n)' = MadeBy(n) /\ OwnChain(n)' = OwnChain(n)
      BY <2>1, <1>2 DEF HeightOf, OwnChain
    <3>8. vote'[n].hash # NoHash
      BY <2>1, TipType
    <3> QED BY <2>1, <3>1, <3>3, <3>4, <3>6, <3>7, <3>8 DEF BuiltBelow
  <2>3. \A m \in Nodes \ {n} : m \notin restarted => \A b \in MadeBy(m) : BuiltBelow(m, b)'
    BY <2>1, BuiltKept
  <2> QED BY <1>1, <1>2, <2>1, <2>2, <2>3
<1>5. ASSUME NEW n \in Nodes, BlockTimeout(n) PROVE SentInv'
  <2>1. /\ vote'[n].hash = vote[n].hash /\ \A m \in Nodes \ {n} : vote'[m] = vote[m]
        /\ UNCHANGED <<blocks, chain, preblock, packing, restarted>>
    BY <1>5, TimeoutFacts DEF BlockTimeout, building, noise
  <2>2. ASSUME n \notin restarted, NEW b \in MadeBy(n) PROVE BuiltBelow(n, b)'
    <3>1. BuiltBelow(n, b)
      BY <2>2 DEF SentInv, BuiltBelow
    <3>2. /\ HeightOf(blocks[b].prev)' = HeightOf(blocks[b].prev)
          /\ HeightOf(blocks[preblock[n]].prev)' = HeightOf(blocks[preblock[n]].prev)
          /\ HeightOf(vote[n].hash)' = HeightOf(vote[n].hash)
          /\ MadeBy(n)' = MadeBy(n) /\ OwnChain(n)' = OwnChain(n)
      BY <2>1, <1>2 DEF HeightOf, OwnChain
    <3> QED BY <2>1, <3>1, <3>2 DEF BuiltBelow
  <2>3. \A m \in Nodes \ {n} : m \notin restarted => \A b \in MadeBy(m) : BuiltBelow(m, b)'
    BY <2>1, BuiltKept
  <2> QED BY <1>1, <1>2, <2>1, <2>2, <2>3
<1>6. ASSUME NEW n \in Nodes, CreateBlock(n) PROVE SentInv'
  <2>1. /\ vote[n].hash = Tip(n) /\ NeedsBlock(n) /\ packing' = packing \cup {n}
        /\ UNCHANGED <<blocks, chain, vote, preblock, restarted>>
    BY <1>6 DEF CreateBlock, CanCreate, noise
  <2>2. ASSUME n \notin restarted, NEW b \in MadeBy(n) PROVE BuiltBelow(n, b)'
    <3>1. BuiltBelow(n, b) /\ b \in Hashes
      BY <2>2 DEF SentInv, BuiltBelow, MadeBy
    <3>2. preblock[n] \in MadeBy(n) /\ preblock[n] \in Hashes /\ preblock[n] # NoHash
      BY <3>1, HashFacts DEF BuiltBelow, MadeBy
    <3> DEFINE p == blocks[preblock[n]].prev
    <3>3. p \in OwnChain(n) /\ p # Tip(n) /\ HeightOf(p) <= HeightOf(vote[n].hash)
      BY <2>1, <2>2, <3>2 DEF SentInv, NeedsBlock
    <3>4. /\ HeightOf(p) \in Nat /\ HeightOf(vote[n].hash) = Height(n) /\ Height(n) \in Nat
          /\ HeightOf(p) # HeightOf(vote[n].hash) /\ HeightOf(blocks[b].prev) \in Nat
      BY <2>1, <3>1, <3>2, <3>3, OwnFacts, TipType, BlocksKept
    <3>5. HeightOf(blocks[b].prev) <= HeightOf(p)
      BY <3>1 DEF BuiltBelow
    <3> HIDE DEF p
    <3>6. HeightOf(blocks[b].prev) < HeightOf(vote[n].hash)
      BY <3>3, <3>4, <3>5
    <3>7. /\ HeightOf(blocks[b].prev)' = HeightOf(blocks[b].prev)
          /\ HeightOf(blocks[preblock[n]].prev)' = HeightOf(blocks[preblock[n]].prev)
          /\ HeightOf(vote[n].hash)' = HeightOf(vote[n].hash)
          /\ MadeBy(n)' = MadeBy(n) /\ OwnChain(n)' = OwnChain(n)
      BY <2>1, <1>2 DEF HeightOf, OwnChain
    <3> QED BY <2>1, <3>1, <3>6, <3>7 DEF BuiltBelow
  <2>3. \A m \in Nodes \ {n} : m \notin restarted => \A b \in MadeBy(m) : BuiltBelow(m, b)'
    BY <2>1, BuiltKept
  <2> QED BY <1>1, <1>2, <2>1, <2>2, <2>3
<1>7. ASSUME NEW n \in Nodes, BuildBlock(n) PROVE SentInv'
  <2>1. PICK b, h : b = Len(blocks) + 1 /\ h = vote[n].hash
    OBVIOUS
  <2>2. /\ n \in packing /\ h \in Hashes \cup {Genesis} /\ b \notin Hashes
        /\ Hashes' = Hashes \cup {b}
        /\ blocks'[b] = [prev |-> h, maker |-> n, height |-> HeightOf(h) + 1]
        /\ packing' = packing \ {n} /\ preblock' = [preblock EXCEPT ![n] = b]
        /\ UNCHANGED <<chain, vote, restarted>>
    BY <1>7, <2>1, BuildFacts DEF noise
  <2>3. /\ blocks'[b].prev = h /\ blocks'[b].maker = n /\ preblock'[n] = b
        /\ \A m \in Nodes \ {n} : preblock'[m] = preblock[m]
    BY <2>2, TypeFacts
  <2>4. /\ MadeBy(n)' = MadeBy(n) \cup {b}
        /\ \A m \in Nodes \ {n} : MadeBy(m)' = MadeBy(m)
    BY <2>2, <2>3, Grows DEF MadeBy
  <2>5. /\ HeightOf(h)' = HeightOf(h) /\ HeightOf(h) \in Nat
        /\ HeightOf(vote[n].hash)' = HeightOf(h)' /\ HeightOf(vote[n].hash) = HeightOf(h)
        /\ HeightOf(blocks[preblock[n]].prev)' = HeightOf(h)'
    <3>1. HeightOf(h)' = HeightOf(h) /\ HeightOf(h) \in Nat
      BY <2>2, HeightKept, HashFacts
    <3>2. HeightOf(vote[n].hash)' = HeightOf(h)' /\ HeightOf(vote[n].hash) = HeightOf(h)
      BY <2>1, <2>2 DEF HeightOf
    <3>3. HeightOf(blocks[preblock[n]].prev)' = HeightOf(h)'
      BY <2>3 DEF HeightOf
    <3> QED BY <3>1, <3>2, <3>3
  <2>6. h \in OwnChain(n)' /\ vote'[n].hash # NoHash
    <3>1. vote[n].hash # NoHash
      BY <1>7 DEF BuildBlock, CanBuild
    <3> QED BY <2>1, <2>2, <3>1, OwnGrows DEF DrawnInv
  <2>7. ASSUME n \notin restarted, NEW c \in MadeBy(n)' PROVE BuiltBelow(n, c)'
    <3>1. CASE c = b
      <4>1. HeightOf(blocks[c].prev)' = HeightOf(h)'
        BY <2>3, <3>1 DEF HeightOf
      <4>2. /\ HeightOf(blocks[c].prev)' <= HeightOf(blocks[preblock[n]].prev)'
            /\ HeightOf(blocks[c].prev)' <= HeightOf(vote[n].hash)'
        BY <2>5, <4>1
      <4> QED BY <2>2, <2>3, <2>4, <2>6, <3>1, <4>2 DEF BuiltBelow
    <3>2. CASE c \in MadeBy(n)
      <4>1. BuiltBelow(n, c) /\ c \in Hashes
        BY <2>7, <3>2 DEF SentInv, BuiltBelow, MadeBy
      <4>2. /\ HeightOf(blocks[c].prev)' = HeightOf(blocks[c].prev)
            /\ HeightOf(blocks[c].prev) \in Nat /\ blocks'[c] = blocks[c]
        BY <4>1, BlocksKept
      <4>3. HeightOf(blocks[c].prev) <= HeightOf(h)
        BY <2>5, <4>1 DEF BuiltBelow
      <4>4. /\ HeightOf(blocks[c].prev)' <= HeightOf(blocks[preblock[n]].prev)'
            /\ HeightOf(blocks[c].prev)' <= HeightOf(vote[n].hash)'
        BY <2>5, <4>2, <4>3
      <4>5. blocks'[c].prev \in OwnChain(n)'
        BY <4>1, <4>2, OwnGrows DEF BuiltBelow
      <4> QED BY <2>2, <2>3, <2>4, <2>6, <4>4, <4>5 DEF BuiltBelow
    <3> QED BY <2>4, <2>7, <3>1, <3>2
  <2>8. \A m \in Nodes \ {n} : m \notin restarted => \A c \in MadeBy(m) : BuiltBelow(m, c)'
    BY <2>2, <2>3, BuiltKept
  <2> QED BY <1>1, <2>2, <2>4, <2>7, <2>8
<1>8. ASSUME NEW n \in Nodes, Restart(n) PROVE SentInv'
  <2>1. /\ restarted' = restarted \cup {n} /\ packing' = packing \ {n} /\ blocks' = blocks
        /\ \A m \in Nodes \ {n} : vote'[m] = vote[m] /\ preblock'[m] = preblock[m]
    BY <1>8, RestartFacts
  <2>2. \A m \in Nodes \ {n} : m \notin restarted => \A b \in MadeBy(m) : BuiltBelow(m, b)'
    BY <2>1, BuiltKept
  <2> QED BY <1>1, <1>2, <2>1, <2>2
<1> QED BY <1>3, <1>4, <1>5, <1>6, <1>7, <1>8, CoreSteps DEF Core, GiveUpBlock, ConfirmBlock,
           building, noise

LEMMA OneBlockNext == TypeInv /\ ChainInv /\ SentInv /\ OneBlock /\ [Next]_vars => OneBlock'
<1> SUFFICES ASSUME TypeInv, ChainInv, SentInv, OneBlock, [Next]_vars PROVE OneBlock'
  OBVIOUS
<1>1. restarted \subseteq restarted'
  BY CoreSteps DEF Core, DrawBlocker, BlockTimeout, CreateBlock, BuildBlock, GiveUpBlock, Restart,
                   ConfirmBlock, noise
<1>2. CASE blocks' = blocks
  BY <1>1, <1>2 DEF OneBlock, Rivals, Hashes
<1>3. ASSUME NEW n \in Nodes, BuildBlock(n) PROVE OneBlock'
  <2>1. PICK b, h : b = Len(blocks) + 1 /\ h = vote[n].hash
    OBVIOUS
  <2>2. /\ n \in packing /\ Hashes' = Hashes \cup {b} /\ h \in Hashes \cup {Genesis}
        /\ \A c \in Hashes : blocks'[c] = blocks[c]
        /\ blocks'[b].prev = h /\ blocks'[b].maker = n
    <3>1. /\ n \in packing /\ Hashes' = Hashes \cup {b} /\ h \in Hashes \cup {Genesis}
          /\ \A c \in Hashes : blocks'[c] = blocks[c]
          /\ blocks'[b] = [prev |-> h, maker |-> n, height |-> HeightOf(h) + 1]
      BY <1>3, <2>1, BuildFacts
    <3> QED BY <3>1
  <2>3. ASSUME NEW c \in Hashes, blocks[c].maker = n, n \notin restarted PROVE blocks[c].prev # h
    <3>1. HeightOf(blocks[c].prev) < HeightOf(h)
      BY <2>1, <2>2, <2>3 DEF SentInv, MadeBy
    <3>2. HeightOf(h) \in Nat
      BY <2>2, HashFacts
    <3>3. ~(HeightOf(h) < HeightOf(h))
      BY <3>2
    <3> QED BY <3>1, <3>3
  <2> QED BY <1>1, <2>2, <2>3 DEF OneBlock, Rivals
<1> QED BY <1>2, <1>3, CoreSteps DEF Core, DrawBlocker, BlockTimeout, CreateBlock, GiveUpBlock,
           Restart, ConfirmBlock, building

LEMMA LeaderNext == TypeInv /\ ChainInv /\ LeaderInv /\ [Next]_vars => LeaderInv'
<1> SUFFICES ASSUME TypeInv, ChainInv, LeaderInv, [Next]_vars, ~TimedOut' PROVE LeaderInv'
  BY DEF LeaderInv
<1>1. schedule' = schedule /\ ~TimedOut
  BY CoreSteps DEF TimedOut
<1>2. packing \subseteq {Order[1]} /\ \A b \in Hashes : blocks[b].maker = Order[1]
  BY <1>1 DEF LeaderInv
<1>3. CASE blocks' = blocks /\ packing' \subseteq packing
  BY <1>2, <1>3 DEF LeaderInv, Hashes
<1>4. ASSUME NEW n \in Nodes, CreateBlock(n) PROVE LeaderInv'
  <2>1. /\ vote[n].hash = Tip(n) /\ BlockerAt(vote[n].index) = n /\ packing' = packing \cup {n}
        /\ blocks' = blocks
    BY <1>4 DEF CreateBlock, CanCreate
  <2>2. vote[n].index = 0
    <3>1. vote[n].index \in 0 .. schedule.index[n]
      BY <2>1, TipType DEF ChainInv, DrawnInv
    <3>2. schedule.index[n] \in Nat /\ ~(schedule.index[n] > 0)
      BY <1>1, TypeFacts, ConstantFacts DEF TimedOut, ScheduleRecords
    <3> QED BY <3>1, <3>2
  <2>3. n = Order[1]
    <3>1. \A k \in Nat \ {0} : 0 % k = 0
      OBVIOUS
    <3>2. 0 % Len(Order) = 0
      BY <3>1, ConstantFacts
    <3> QED BY <2>1, <2>2, <3>2 DEF BlockerAt
  <2> QED BY <1>2, <2>1, <2>3 DEF LeaderInv, Hashes
<1>5. ASSUME NEW n \in Nodes, BuildBlock(n) PROVE LeaderInv'
  <2>1. PICK b, h : b = Len(blocks) + 1 /\ h = vote[n].hash
    OBVIOUS
  <2>2. /\ n \in packing /\ packing' = packing \ {n} /\ Hashes' = Hashes \cup {b}
        /\ \A c \in Hashes : blocks'[c] = blocks[c]
        /\ blocks'[b].maker = n
    <3>1. /\ n \in packing /\ packing' = packing \ {n} /\ Hashes' = Hashes \cup {b}
          /\ \A c \in Hashes : blocks'[c] = blocks[c]
          /\ blocks'[b] = [prev |-> h, maker |-> n, height |-> HeightOf(h) + 1]
      BY <1>5, <2>1, BuildFacts
    <3> QED BY <3>1
  <2> QED BY <1>2, <2>2 DEF LeaderInv
<1> QED BY <1>3, <1>4, <1>5, CoreSteps DEF Core, DrawBlocker, BlockTimeout, GiveUpBlock, Restart,
           ConfirmBlock, building

LEMMA AgreementNext ==
    /\ TypeInv /\ ChainInv /\ OneBlock /\ LeaderInv /\ AgreementInv /\ [Next]_vars
    => AgreementInv'
<1> SUFFICES ASSUME TypeInv, ChainInv, OneBlock, LeaderInv, AgreementInv, [Next]_vars,
                    ~TimedOut', restarted' = {}
             PROVE  Agreement'
  BY DEF AgreementInv
<1>1. schedule' = schedule /\ ~TimedOut /\ restarted = {}
  <2>1. restarted \subseteq restarted'
    BY CoreSteps DEF Core, DrawBlocker, BlockTimeout, CreateBlock, BuildBlock, GiveUpBlock, Restart,
                     ConfirmBlock, noise
  <2> QED BY <2>1, CoreSteps DEF TimedOut
<1>2. Agreement
  BY <1>1 DEF AgreementInv
<1>3. CASE chain' = chain
  BY <1>2, <1>3 DEF Agreement, Height
<1>4. ASSUME NEW n \in Nodes, NEW b \in Hashes, ConfirmBlock(n, b) PROVE Agreement'
  <2>1. PICK k \in Nat : k = Height(n)
    BY TipType
  <2>2. /\ blocks[b].prev = Tip(n) /\ DOMAIN chain'[n] = 1 .. k + 1 /\ chain'[n][k + 1] = b
        /\ \A i \in 1 .. k : chain'[n][i] = chain[n][i]
        /\ \A m \in Nodes \ {n} : chain'[m] = chain[m]
        /\ chain' \in [Nodes -> Seq(Hashes)]
    BY <1>4, <2>1, ConfirmFacts
  <2>3. Height(n)' = k + 1 /\ \A m \in Nodes \ {n} : Height(m)' = Height(m)
    <3>1. Len(chain'[n]) \in Nat /\ 1 .. Len(chain'[n]) = 1 .. k + 1
      BY <2>2, LenProperties
    <3>2. Len(chain'[n]) = k + 1
      BY <3>1
    <3> QED BY <2>2, <3>2 DEF Height
  <2>4. ASSUME NEW m \in Nodes \ {n}, NEW h \in Nat, h >= 1, h <= Height(m), h <= k + 1
        PROVE  chain[m][h] = chain'[n][h]
    <3>1. CASE h <= k
      <4>1. h \in 1 .. Height(m) /\ h \in 1 .. k /\ h <= Height(n)
        BY <2>1, <2>4, <3>1, TipType
      <4> QED BY <1>2, <2>2, <4>1 DEF Agreement
    <3>2. CASE h = k + 1
      <4>1. Height(m) \in Nat /\ DOMAIN chain[m] = 1 .. Height(m) /\ chain[m] \in Seq(Hashes)
        BY TipType
      <4>2. h \in DOMAIN chain[m]
        BY <2>4, <4>1
      <4>3. PICK c \in Hashes : c = chain[m][h]
        BY <4>1, <4>2
      <4>4. blocks[c].prev = Tip(n)
        <5>1. blocks[c].prev = Below(m, h)
          BY <4>2, <4>3 DEF ChainInv, LinkInv
        <5>2. CASE k = 0
          <6>1. chain[n] = <<>>
            <7>1. Height(n) \notin 1 .. Height(n)
              BY <2>1, <5>2
            <7> QED BY <7>1, TipType
          <6> QED BY <3>2, <5>1, <5>2, <6>1, TipType DEF Below
        <5>3. CASE k # 0
          <6>1. h # 1 /\ h - 1 = k /\ k \in 1 .. Height(m) /\ k <= Height(n)
            <7>1. PICK j \in Nat : j = Height(m)
              BY <4>1
            <7>2. h # 1 /\ h - 1 = k /\ k \in 1 .. j /\ k <= k
              BY <2>1, <2>4, <3>2, <5>3, <7>1
            <7> QED BY <2>1, <7>1, <7>2
          <6>2. chain[m][k] = chain[n][k]
            BY <1>2, <6>1 DEF Agreement
          <6>3. Tip(n) = chain[n][k]
            <7>1. chain[n] # <<>>
              BY <2>1, <5>3, TipType
            <7> QED BY <2>1, <7>1, TipType
          <6> QED BY <5>1, <6>1, <6>2, <6>3 DEF Below
        <5> QED BY <5>2, <5>3
      <4>5. c = b
        <5>1. blocks[b].maker = blocks[c].maker
          BY <1>1 DEF LeaderInv
        <5> QED BY <1>1, <2>2, <4>4, <5>1 DEF OneBlock, Rivals
      <4> QED BY <2>2, <3>2, <4>3, <4>5
    <3> QED BY <2>1, <2>4, <3>1, <3>2
  <2>5. ASSUME NEW m \in Nodes, NEW q \in Nodes, NEW h \in 1 .. Height(m)', h <= Height(q)'
        PROVE  chain'[m][h] = chain'[q][h]
    <3>1. \A p \in Nodes : Height(p) \in Nat
      BY TipType
    <3>2. h \in Nat /\ h >= 1 /\ h <= Height(m)'
      <4>1. Height(m)' \in Nat
        BY <2>3, <3>1
      <4> QED BY <4>1
    <3>3. CASE m = n /\ q # n
      BY <2>2, <2>3, <2>4, <2>5, <3>2, <3>3
    <3>4. CASE m # n /\ q = n
      BY <2>2, <2>3, <2>4, <2>5, <3>2, <3>4
    <3>5. CASE m # n /\ q # n
      <4>1. Height(m)' = Height(m) /\ Height(q)' = Height(q) /\ chain'[m] = chain[m]
            /\ chain'[q] = chain[q]
        BY <2>2, <2>3, <3>5
      <4> QED BY <1>2, <2>5, <4>1 DEF Agreement
    <3>6. CASE m = q
      BY <3>6
    <3> QED BY <3>3, <3>4, <3>5, <3>6
  <2>6. \A m, q \in Nodes : \A h \in 1 .. Height(m)' :
            h <= Height(q)' => chain'[m][h] = chain'[q][h]
    BY <2>5
  <2> QED BY <2>6 DEF Agreement
<1> QED BY <1>3, <1>4, CoreSteps DEF Core, DrawBlocker, BlockTimeout, CreateBlock, BuildBlock,
           GiveUpBlock, Restart

-----------------------------------------------------------------------------
(* The invariant.                                                           *)

LEMMA InvariantInit == Init => Invariant
<1> SUFFICES ASSUME Init PROVE Invariant
  OBVIOUS
<1>1. TypeInv
  BY TypeInvInit
<1>2. Hashes = {}
  BY DEF Init, Hashes
<1>3. /\ \A n \in Nodes, kind \in Kinds : buffer[n][kind].block = NoHash
      /\ \A n \in Nodes, r \in Requesters : counter[n][r].block = NoHash
      /\ \A n \in Nodes : vote[n].hash = NoHash /\ collect[n] = NoHash /\ chain[n] = <<>>
      /\ \A b \in AllHashes, r \in Requesters : ~(replies[b][r] > 0)
      /\ waiting = {} /\ verifying = {} /\ prepared = {} /\ committed = {} /\ published = {}
      /\ packing = {}
  BY DEF Init, Empty, NoVote, Kinds
<1>4. HeardEnough
  BY <1>3 DEF HeardEnough
<1>5. \A n \in Nodes : DOMAIN chain[n] = {} /\ Height(n) = 0
  BY <1>3 DEF Height
<1>6. CertInv
  BY <1>3, <1>5 DEF CertInv, AskedInv, CommitInv, ReplyInv, StoredInv
<1>7. ChainInv
  BY <1>2, <1>3, <1>5 DEF ChainInv, ParentInv, LinkInv, DrawnInv
<1>8. SentInv /\ OneBlock /\ LeaderInv
  BY <1>2, <1>3 DEF SentInv, OneBlock, LeaderInv, MadeBy
<1>9. AgreementInv
  BY <1>5 DEF AgreementInv, Agreement
<1> QED BY <1>1, <1>4, <1>6, <1>7, <1>8, <1>9 DEF Invariant

LEMMA InvariantNext == Invariant /\ [Next]_vars => Invariant'
<1> SUFFICES ASSUME Invariant, [Next]_vars PROVE Invariant'
  OBVIOUS
<1>1. TypeInv'
  BY TypeInvNext DEF Invariant
<1>2. HeardEnough'
  BY <1>1, HeardEnoughNext DEF Invariant
<1>3. CertInv'
  BY AskedNext, CommitNext, ReplyNext, StoredNext DEF Invariant, CertInv
<1>4. ChainInv'
  BY ParentNext, LinkNext, DrawnNext DEF Invariant, ChainInv
<1>5. SentInv' /\ OneBlock' /\ LeaderInv' /\ AgreementInv'
  BY SentNext, OneBlockNext, LeaderNext, AgreementNext DEF Invariant
<1> QED BY <1>1, <1>2, <1>3, <1>4, <1>5 DEF Invariant

LEMMA InvariantHolds == Spec => []Invariant
BY InvariantInit, InvariantNext, PTL DEF Spec

-----------------------------------------------------------------------------
(* The theorems.                                                            *)

\* Type correctness: no buffer keeps as many messages as it waits for, and no node hears
\* of more prepares or commits than were sent (PbftPrepare, PbftCommit and
\* EndorsementRequest4Future and their buffers).
THEOREM TypeCorrect == Spec => []TypeOK
<1>1. Invariant => TypeOK
  BY DEF Invariant, TypeInv
<1> QED BY <1>1, InvariantHolds, PTL

\* A block is published only if two other than its blocker have prepared it and three
\* have committed to it, and the same is true of every block below it: although buffers
\* are cleared and started anew by messages about other blocks.
THEOREM CertificateCorrect == Spec => []PublishedHasCertificate
<1>1. Invariant => PublishedHasCertificate
  <2> SUFFICES ASSUME Invariant, NEW b \in published
               PROVE  /\ Cardinality(SendersOf("prepare", b) \ {blocks[b].maker}) >= 2
                      /\ Cardinality(SendersOf("commit", b)) >= 3
                      /\ blocks[b].prev \in published \cup {Genesis}
    BY DEF PublishedHasCertificate
  <2>1. TypeInv /\ AskedInv /\ CommitInv /\ ReplyInv /\ StoredInv
    BY DEF Invariant, CertInv
  <2>2. Cardinality(SendersOf("commit", b)) >= 3 /\ blocks[b].prev \in published \cup {Genesis}
    BY <2>1 DEF ReplyInv, StoredInv, Enough
  <2>3. SendersOf("commit", b) # {}
    <3>1. ~(0 >= 3)
      OBVIOUS
    <3> QED BY <2>2, <3>1, FS_EmptySet
  <2>4. Cardinality(SendersOf("prepare", b)) >= 2
    <3>1. PICK n \in Nodes : <<b, n>> \in committed
      BY <2>3 DEF SendersOf
    <3> QED BY <2>1, <3>1 DEF CommitInv
  <2>5. SendersOf("prepare", b) \ {blocks[b].maker} = SendersOf("prepare", b)
    BY <2>1 DEF AskedInv, SendersOf
  <2> QED BY <2>2, <2>4, <2>5
<1> QED BY <1>1, InvariantHolds, PTL

\* Two threes of five nodes or fewer have one in common.
LEMMA QuorumsMeet ==
    ASSUME Cardinality(Nodes) <= 5, NEW S \in SUBSET Nodes, NEW T \in SUBSET Nodes,
           Cardinality(S) >= 3, Cardinality(T) >= 3
    PROVE  S \cap T # {}
<1> SUFFICES ASSUME S \cap T = {} PROVE FALSE
  OBVIOUS
<1>1. IsFiniteSet(Nodes) /\ IsFiniteSet(S) /\ IsFiniteSet(T) /\ S \cup T \in SUBSET Nodes
  BY ConstantFacts, FS_Subset
<1>2. Cardinality(S \cup T) = Cardinality(S) + Cardinality(T) - Cardinality(S \cap T)
  BY <1>1, FS_Union
<1>3. Cardinality(S \cap T) = 0
  BY FS_EmptySet
<1>4. Cardinality(S \cup T) <= Cardinality(Nodes)
  BY <1>1, MoreIsMore
<1>5. PICK s, t, u, k \in Nat : /\ s = Cardinality(S) /\ t = Cardinality(T)
                                /\ u = Cardinality(S \cup T) /\ k = Cardinality(Nodes)
  BY <1>1, MoreIsMore, FS_CardinalityType
<1>6. u = s + t - 0 /\ s >= 3 /\ t >= 3 /\ u <= k /\ k <= 5
  BY <1>2, <1>3, <1>4, <1>5
<1> QED BY <1>5, <1>6

\* Where two blocks on a parent have both been certified, voters having timed out, some
\* node has committed to both.  The certificate is of three commits (PbftCommit), so
\* this is so with the four nodes the number is written for, and with five.
THEOREM ForksCorrect ==
    ASSUME Cardinality(Nodes) <= 5
    PROVE  Spec => []ForksAreDoubleCommits
<1>1. Invariant => ForksAreDoubleCommits
  <2> SUFFICES ASSUME Invariant, NEW b \in Hashes, NEW c \in Hashes, Certified(b), Certified(c)
               PROVE  SendersOf("commit", b) \cap SendersOf("commit", c) # {}
    BY DEF ForksAreDoubleCommits
  <2>1. TypeInv /\ ReplyInv
    BY DEF Invariant, CertInv
  <2>2. Enough(b) /\ Enough(c)
    BY <2>1, HashFacts DEF ReplyInv, Certified
  <2>3. SendersOf("commit", b) \in SUBSET Nodes /\ SendersOf("commit", c) \in SUBSET Nodes
    BY DEF SendersOf
  <2> QED BY <2>2, <2>3, QuorumsMeet DEF Enough
<1> QED BY <1>1, InvariantHolds, PTL

\* Unless a voter times out (VoterOfPBFT), no two blocks on a parent are prepared that are
\* not by a blocker that restarted; and if none restarts, chains agree as far as they go.
THEOREM AgreementCorrect == Spec => []AgreementUnlessTimedOut
<1>1. Invariant => AgreementUnlessTimedOut
  <2> SUFFICES ASSUME Invariant, ~TimedOut
               PROVE  /\ \A v, w \in prepared :
                            Rivals(v[1], w[1]) => blocks[v[1]].maker \in restarted
                      /\ restarted = {} => Agreement
    BY DEF AgreementUnlessTimedOut
  <2>1. prepared \subseteq Hashes \X Nodes
    BY TypeFacts DEF Invariant
  <2>2. \A b \in Hashes : blocks[b].maker = Order[1]
    BY DEF Invariant, LeaderInv
  <2>3. \A b, c \in Hashes : Rivals(b, c) => blocks[b].maker \in restarted
    BY <2>2 DEF Invariant, OneBlock
  <2>4. restarted = {} => Agreement
    BY DEF Invariant, AgreementInv
  <2> QED BY <2>1, <2>3, <2>4
<1> QED BY <1>1, InvariantHolds, PTL

-----------------------------------------------------------------------------
(* What is there when nothing goes wrong.                                   *)

First == Order[1]

\* Blocks are built, stored and drawn upon in the order of their numbers, and the
\* blocker is at most one ahead of what it has stored.
OrderInv ==
    /\ \A b \in Hashes : blocks[b].prev = b - 1 /\ blocks[b].height = b /\ b <= schedule.height
    /\ Len(blocks) <= Height(First) + 1
    /\ \A n \in Nodes : \A i \in DOMAIN chain[n] : chain[n][i] = i
    /\ \A n \in Nodes : vote[n].hash <= Height(n) /\ vote[n].hash < schedule.height
    /\ First \in packing => vote[First].hash = Len(blocks) /\ Height(First) = Len(blocks)
    /\ preblock[First] = IF Len(blocks) = 0 THEN NoHash ELSE Len(blocks)

\* A block waits for the collector, or has been pre-prepared by all but the blocker and is
\* collected for, until it is published; nobody is down who handles it.
StageInv ==
    /\ \A b \in Hashes :
          /\ b \in published \/ (b = Len(blocks) /\ b \in {collect[First], collector[First]})
          /\ collect[First] = b => /\ b \notin published /\ collector[First] # b
                                   /\ \A v \in waiting \cup verifying \cup prepared : v[1] # b
          /\ collect[First] # b =>
                \A n \in Nodes \ {First} : <<b, n>> \in waiting \cup verifying \cup prepared
    /\ \A v \in verifying \cup prepared : v[2] \in Up

\* What a node verifies is not sent to it again.
ApartInv == waiting \cap verifying = {}

\* A node counts every message it hears about the block it votes for: two prepares have made
\* a commit, and of commits it has counted all until there are three.
PrepareCounts(n, b) ==
    LET p == heard[n]["prepare"][b]
    IN  /\ p > 0 => vote[n].hash >= b - 1
        /\ p >= 2 => <<b, n>> \in committed
        /\ p = 1 /\ vote[n].hash = b - 1 =>
              buffer[n].prepare.block = b /\ buffer[n].prepare.count = 1

CommitCounts(n, b) ==
    LET c == heard[n]["commit"][b]
    IN  /\ c > 0 => vote[n].hash >= b - 1
        /\ c \in {1, 2} /\ vote[n].hash = b - 1 =>
              buffer[n].commit.block = b /\ buffer[n].commit.count = c

CountsInv == \A n \in Nodes, b \in Hashes : PrepareCounts(n, b) /\ CommitCounts(n, b)

\* Whoever has heard of three commits has replied to the requester of some node that
\* prepared, and until the block is published each reply is under way or counted.
Repliers(b) == {n \in Nodes : heard[n]["commit"][b] >= 3}
Routes(b) == {schedule.route[p] : p \in SendersOf("prepare", b)}
Got(b, r) == IF counter[First][r].block = b THEN counter[First][r].count ELSE 0
Answers(b, r) == replies[b][r] + Got(b, r)
Taken(S, f, r) == {n \in S : f[n] = r}

Answered(b, f) ==
    /\ \A n \in Repliers(b) : f[n] \in Routes(b)
    /\ \A r \in Requesters :
          Cardinality(Taken(Repliers(b), f, r)) <= Answers(b, r)

RepliesInv == \A b \in Hashes \ published : \E f \in [Repliers(b) -> Requesters] : Answered(b, f)

QuietInv == Quiet => OrderInv /\ StageInv /\ ApartInv /\ CountsInv /\ RepliesInv

-----------------------------------------------------------------------------
(* The one blocker, and what happens at all.                                *)

LEMMA FirstFacts ==
    First \in Nodes /\ Nodes # {} /\ BlockerAt(0) = First
<1>1. \A k \in Nat \ {0} : 0 % k = 0
  OBVIOUS
<1>2. 0 % Len(Order) = 0
  BY <1>1, ConstantFacts
<1> QED BY <1>2, ConstantFacts DEF First, BlockerAt

\* Without time-outs only the first node builds and collects, and it is always its turn.
LEMMA QuietFacts ==
    ASSUME Invariant, Quiet
    PROVE  /\ packing \subseteq {First} /\ \A b \in Hashes : blocks[b].maker = First
           /\ \A n \in Nodes : collect[n] # NoHash => n = First /\ collect[n] \in Hashes
           /\ \A n \in Nodes : schedule.index[n] = 0
           /\ \A n \in Nodes : vote[n].hash # NoHash => vote[n].index = 0
<1>1. TypeInv /\ AskedInv /\ ChainInv /\ LeaderInv /\ ~TimedOut
  BY DEF Invariant, CertInv, Quiet
<1>2. packing \subseteq {First} /\ \A b \in Hashes : blocks[b].maker = First
  BY <1>1 DEF LeaderInv, First
<1>3. ASSUME NEW n \in Nodes, collect[n] # NoHash PROVE n = First /\ collect[n] \in Hashes
  <2>1. collect[n] \in Hashes
    BY <1>1, <1>3, TypeFacts
  <2> QED BY <1>1, <1>2, <1>3, <2>1 DEF AskedInv
<1>4. ASSUME NEW n \in Nodes PROVE schedule.index[n] = 0
  <2>1. schedule.index[n] \in Nat /\ ~(schedule.index[n] > 0)
    BY <1>1, TypeFacts, ConstantFacts DEF TimedOut, ScheduleRecords
  <2> QED BY <2>1
<1>5. ASSUME NEW n \in Nodes, vote[n].hash # NoHash PROVE vote[n].index = 0
  <2>1. vote[n].index \in 0 .. schedule.index[n]
    BY <1>1, <1>5 DEF ChainInv, DrawnInv
  <2> QED BY <1>4, <2>1
<1> QED BY <1>2, <1>3, <1>4, <1>5

\* As long as nothing goes wrong, what happens is that some node works.
LEMMA QuietSteps ==
    ASSUME Invariant, [Next]_vars, Quiet'
    PROVE  /\ Quiet /\ schedule' = schedule
           /\ UNCHANGED vars \/ \E n \in Up : Works(n)
<1>1. TypeInv /\ schedule' = schedule /\ mishaps \in Nat
  BY CoreSteps, TypeFacts DEF Invariant
<1>2. CASE UNCHANGED vars
  BY <1>1, <1>2 DEF vars, noise, Quiet, TimedOut
<1>3. ASSUME NEW n \in Up, Works(n) PROVE Quiet
  <2>1. n \in Nodes /\ restarted' = restarted
    <3>1. restarted' = restarted
      BY <1>3 DEF Works, DrawBlocker, CreateBlock, BuildBlock, CollectEndorsement,
                  AcceptPrePrepare, Prepare, ReceivePrepare, ReceiveCommit, ConfirmBlock,
                  ReceiveReply, noise
    <3> QED BY <3>1 DEF Up
  <2>2. mishaps' = mishaps \/ mishaps' = mishaps + 1
    BY <1>3 DEF Works, DrawBlocker, CreateBlock, BuildBlock, CollectEndorsement,
                AcceptPrePrepare, Prepare, ReceivePrepare, ReceiveCommit, ConfirmBlock,
                ReceiveReply, noise
  <2>3. mishaps = 0
    BY <1>1, <2>2 DEF Quiet
  <2> QED BY <1>1, <2>1, <2>3 DEF Quiet, TimedOut
<1>4. ASSUME NEW n \in Up, Suffers(n) PROVE FALSE
  <2>1. n \in Nodes
    BY DEF Up
  <2>2. CASE BlockTimeout(n)
    <3>1. restarted' = restarted /\ mishaps' = mishaps
      BY <2>2 DEF BlockTimeout, noise
    <3>2. Quiet
      BY <1>1, <3>1 DEF Quiet, TimedOut
    <3>3. vote[n].hash # NoHash /\ vote[n].index < schedule.index[n]
      BY <1>1, <2>1, <2>2, TimeoutFacts, TipType
    <3>4. schedule.index[n] = 0 /\ vote[n].index = 0
      BY <2>1, <3>2, <3>3, QuietFacts
    <3> QED BY <3>3, <3>4
  <2>3. CASE Restart(n)
    BY <2>3 DEF Restart, Quiet
  <2>4. ASSUME mishaps' = mishaps + 1 PROVE FALSE
    BY <1>1, <2>4 DEF Quiet
  <2> QED BY <1>4, <2>2, <2>3, <2>4 DEF Suffers, GiveUpBlock, RefuseBlock, PassOver
<1> QED BY <1>1, <1>2, <1>3, <1>4 DEF Next

-----------------------------------------------------------------------------
(* Blocks in order, asked of all.                                           *)

\* Heights are block numbers.
LEMMA Numbers ==
    ASSUME Invariant, OrderInv
    PROVE  /\ Len(blocks) \in Nat /\ Hashes = 1 .. Len(blocks)
           /\ \A n \in Nodes : /\ Height(n) \in 0 .. Len(blocks) /\ Tip(n) = Height(n)
                               /\ \A i \in 1 .. Height(n) : i \in published
                               /\ vote[n].hash \in -1 .. Len(blocks)
           /\ \A h \in 0 .. Len(blocks) : HeightOf(h) = h
           /\ schedule.height \in Nat /\ NoHash = -1 /\ Genesis = 0
<1>1. TypeInv /\ StoredInv
  BY DEF Invariant, CertInv
<1>2. Len(blocks) \in Nat /\ Hashes = 1 .. Len(blocks)
  BY <1>1, HashFacts DEF Hashes
<1>3. schedule.height \in Nat /\ NoHash = -1 /\ Genesis = 0
  BY <1>1, TypeFacts, ConstantFacts DEF ScheduleRecords, NoHash, Genesis
<1>4. ASSUME NEW n \in Nodes
      PROVE  /\ Height(n) \in 0 .. Len(blocks) /\ Tip(n) = Height(n)
             /\ \A i \in 1 .. Height(n) : i \in published
             /\ vote[n].hash \in -1 .. Len(blocks)
  <2>1. /\ Height(n) \in Nat /\ chain[n] \in Seq(Hashes) /\ DOMAIN chain[n] = 1 .. Height(n)
        /\ chain[n] = <<>> => Height(n) = 0 /\ Tip(n) = Genesis
        /\ chain[n] # <<>> => Height(n) \in DOMAIN chain[n] /\ Tip(n) = chain[n][Height(n)]
    BY <1>1, TipType
  <2>2. \A i \in 1 .. Height(n) : chain[n][i] = i /\ chain[n][i] \in published
    BY <1>1, <2>1 DEF OrderInv, StoredInv
  <2>3. \A i \in 1 .. Height(n) : i \in Hashes
    BY <2>1, <2>2
  <2>4. Height(n) <= Len(blocks)
    BY <1>2, <2>1, <2>3
  <2>5. Tip(n) = Height(n)
    BY <1>3, <2>1, <2>2
  <2>6. vote[n].hash \in -1 .. Len(blocks)
    <3>1. vote[n].hash \in Hashes \cup {Genesis, NoHash}
      BY <1>1, VoteFacts
    <3> QED BY <1>2, <1>3, <3>1
  <2> QED BY <1>2, <2>1, <2>2, <2>4, <2>5, <2>6
<1>5. \A h \in 0 .. Len(blocks) : HeightOf(h) = h
  BY <1>2, <1>3 DEF OrderInv, HeightOf
<1> QED BY <1>2, <1>3, <1>4, <1>5

LEMMA OrderNext ==
    ASSUME Invariant, OrderInv, [Next]_vars, Quiet'
    PROVE  OrderInv'
<1>1. TypeInv /\ Quiet /\ schedule' = schedule
  BY QuietSteps DEF Invariant
<1> DEFINE k == Len(blocks)
           top == schedule.height
<1>2. /\ k \in Nat /\ Hashes = 1 .. k /\ top \in Nat /\ NoHash = -1 /\ Genesis = 0
      /\ \A n \in Nodes : /\ Height(n) \in 0 .. k /\ Tip(n) = Height(n)
                          /\ vote[n].hash \in -1 .. k
      /\ \A h \in 0 .. k : HeightOf(h) = h
  BY Numbers
<1>3. /\ \A b \in Hashes : blocks[b].prev = b - 1 /\ blocks[b].height = b /\ b <= top
      /\ k <= Height(First) + 1
      /\ \A n \in Nodes : \A i \in DOMAIN chain[n] : chain[n][i] = i
      /\ \A n \in Nodes : vote[n].hash <= Height(n) /\ vote[n].hash < top
      /\ First \in packing => vote[First].hash = k /\ Height(First) = k
      /\ preblock[First] = IF k = 0 THEN NoHash ELSE k
      /\ packing \subseteq {First} /\ First \in Nodes
  BY <1>1, QuietFacts, FirstFacts DEF OrderInv
<1>4. CASE UNCHANGED Core
  BY <1>1, <1>3, <1>4 DEF Core, OrderInv, Hashes, Height
<1>5. ASSUME NEW n \in Nodes, DrawBlocker(n) PROVE OrderInv'
  <2>1. /\ UNCHANGED <<blocks, chain, packing, preblock>>
        /\ vote'[n].hash = Tip(n) /\ Height(n) < top /\ vote[n].hash # Tip(n)
        /\ \A m \in Nodes \ {n} : vote'[m] = vote[m]
    BY <1>1, <1>5, DrawFacts DEF DrawBlocker, CanDraw, building
  <2>2. \A m \in Nodes : Height(m)' = Height(m) /\ vote'[m].hash <= Height(m)
                         /\ vote'[m].hash < top
    BY <1>2, <1>3, <2>1 DEF Height
  <2>3. First \in packing => n # First
    BY <1>2, <1>3, <2>1
  <2> QED BY <1>1, <1>3, <2>1, <2>2, <2>3 DEF OrderInv, Hashes
<1>6. ASSUME NEW n \in Nodes, CreateBlock(n) PROVE OrderInv'
  <2>1. /\ UNCHANGED <<blocks, chain, vote, preblock>> /\ packing' = packing \cup {n}
        /\ vote[n].hash = Tip(n) /\ BlockerAt(vote[n].index) = n /\ NeedsBlock(n)
    BY <1>6 DEF CreateBlock, CanCreate
  <2>2. vote[n].hash # NoHash /\ vote[n].hash = Height(n)
    BY <1>2, <2>1
  <2>3. n = First
    BY <1>1, <2>1, <2>2, QuietFacts, FirstFacts
  <2>4. Height(First) = k
    <3>1. CASE k = 0
      BY <1>2, <1>3, <3>1
    <3>2. CASE k # 0
      <4>1. preblock[First] = k /\ k # NoHash /\ k \in Hashes
        BY <1>2, <1>3, <3>2
      <4>2. blocks[k].prev = k - 1 /\ blocks[k].prev # Height(First)
        BY <1>3, <2>1, <2>2, <2>3, <4>1 DEF NeedsBlock
      <4> QED BY <1>2, <1>3, <4>2
    <3> QED BY <3>1, <3>2
  <2> QED BY <1>1, <1>3, <2>1, <2>2, <2>3, <2>4 DEF OrderInv, Hashes, Height
<1>7. ASSUME NEW n \in Nodes, BuildBlock(n) PROVE OrderInv'
  <2>1. /\ n \in packing /\ Hashes' = Hashes \cup {k + 1}
        /\ \A c \in Hashes : blocks'[c] = blocks[c]
        /\ blocks'[k + 1] = [prev |-> vote[n].hash, maker |-> n,
                             height |-> HeightOf(vote[n].hash) + 1]
        /\ packing' = packing \ {n} /\ preblock' = [preblock EXCEPT ![n] = k + 1]
        /\ UNCHANGED <<chain, vote>>
    BY <1>1, <1>7, BuildFacts
  <2>2. n = First /\ vote[n].hash = k /\ Height(First) = k /\ k < top
    BY <1>3, <2>1
  <2>3. blocks'[k + 1].prev = k /\ blocks'[k + 1].height = k + 1
    <3>1. HeightOf(vote[n].hash) = k
      BY <1>2, <2>2
    <3> QED BY <2>1, <2>2, <3>1
  <2>4. Len(blocks') = k + 1
    <3>1. blocks' \in Seq(BlockRecords) /\ blocks \in Seq(BlockRecords)
      BY <1>1, <1>7, BuildFacts, TypeFacts
    <3>2. blocks' = Append(blocks, [prev |-> vote[n].hash, maker |-> n,
                                    height |-> HeightOf(vote[n].hash) + 1])
      BY <1>7 DEF BuildBlock
    <3> QED BY <3>1, <3>2
  <2>5. \A b \in Hashes' : blocks'[b].prev = b - 1 /\ blocks'[b].height = b /\ b <= top
    BY <1>2, <1>3, <2>1, <2>2, <2>3
  <2>6. preblock'[First] = k + 1 /\ First \notin packing' /\ k + 1 # 0
    BY <1>1, <1>2, <1>3, <2>1, <2>2, TypeFacts
  <2>7. Len(blocks') <= Height(First)' + 1 /\ \A m \in Nodes : Height(m)' = Height(m)
    BY <1>2, <2>1, <2>2, <2>4 DEF Height
  <2> QED BY <1>1, <1>3, <2>1, <2>4, <2>5, <2>6, <2>7 DEF OrderInv
<1>8. ASSUME NEW n \in Nodes, NEW b \in Hashes, ConfirmBlock(n, b) PROVE OrderInv'
  <2>1. /\ blocks[b].prev = Tip(n) /\ chain' \in [Nodes -> Seq(Hashes)]
        /\ DOMAIN chain'[n] = 1 .. Height(n) + 1 /\ chain'[n][Height(n) + 1] = b
        /\ \A i \in 1 .. Height(n) : chain'[n][i] = chain[n][i]
        /\ \A m \in Nodes \ {n} : chain'[m] = chain[m]
        /\ UNCHANGED <<blocks, vote, packing, preblock>>
    BY <1>1, <1>8, ConfirmFacts
  <2>2. b = Height(n) + 1
    BY <1>2, <1>3, <2>1
  <2>3. Height(n)' = Height(n) + 1 /\ \A m \in Nodes \ {n} : Height(m)' = Height(m)
    <3>1. Len(chain'[n]) \in Nat /\ DOMAIN chain'[n] = 1 .. Len(chain'[n])
      BY <2>1, LenProperties
    <3> QED BY <1>2, <2>1, <3>1 DEF Height
  <2>4. \A m \in Nodes : \A i \in DOMAIN chain'[m] : chain'[m][i] = i
    <3>1. DOMAIN chain[n] = 1 .. Height(n)
      BY <1>1, TipType
    <3>2. \A i \in 1 .. Height(n) : chain'[n][i] = i
      BY <1>3, <2>1, <3>1
    <3>3. \A i \in DOMAIN chain'[n] : i \in 1 .. Height(n) \/ i = Height(n) + 1
      BY <1>2, <2>1
    <3>4. \A i \in DOMAIN chain'[n] : chain'[n][i] = i
      BY <2>1, <2>2, <3>2, <3>3
    <3> QED BY <1>3, <2>1, <3>4
  <2>5. First \in packing => n # First
    BY <1>2, <1>3, <2>2
  <2>6. \A m \in Nodes : Height(m) \in Int /\ Height(m)' \in Int /\ Height(m) <= Height(m)'
    BY <1>2, <2>3
  <2>7. Len(blocks') <= Height(First)' + 1
    <3>1. \A i, j \in Int : k <= i + 1 /\ i <= j => k <= j + 1
      BY <1>2
    <3> QED BY <1>3, <2>1, <2>6, <3>1
  <2>8. \A m \in Nodes : vote'[m].hash <= Height(m)' /\ vote'[m].hash < top
    <3>1. \A h, i, j \in Int : h <= i /\ i <= j => h <= j
      OBVIOUS
    <3>2. \A m \in Nodes : vote'[m] = vote[m] /\ vote[m].hash \in Int
      BY <1>2, <2>1
    <3> QED BY <1>3, <2>6, <3>1, <3>2
  <2> QED BY <1>1, <1>3, <2>1, <2>3, <2>4, <2>5, <2>7, <2>8 DEF OrderInv, Hashes
<1>9. \/ UNCHANGED Core
      \/ \E n \in Nodes : DrawBlocker(n) \/ CreateBlock(n) \/ BuildBlock(n)
      \/ \E n \in Nodes, b \in Hashes : ConfirmBlock(n, b)
  <2>1. CASE UNCHANGED vars
    BY <2>1 DEF vars, building, noise, Core
  <2>2. ASSUME NEW n \in Up, Works(n)
        PROVE  \/ UNCHANGED Core
               \/ DrawBlocker(n) \/ CreateBlock(n) \/ BuildBlock(n)
               \/ \E b \in Hashes : ConfirmBlock(n, b)
    BY <2>2 DEF Works, CollectEndorsement, AcceptPrePrepare, Prepare, ReceivePrepare,
                ReceiveCommit, ReceiveReply, building, noise, Core
  <2> QED BY <2>1, <2>2, QuietSteps DEF Up
<1> QED BY <1>4, <1>5, <1>6, <1>7, <1>8, <1>9

\* What is not touched by an action that neither builds, collects, endorses nor publishes.
Stages == <<blocks, collect, collector, waiting, verifying, prepared, published>>

\* The one block that is not yet published is the last; what the collector holds or is
\* to hold is this one, and it is on the blocker's tip.
LEMMA LastBlock ==
    ASSUME Invariant, Quiet, OrderInv, StageInv, NEW b \in Hashes, b \notin published
    PROVE  /\ b = Len(blocks) /\ b \in {collect[First], collector[First]} /\ OnTip(b, First)
           /\ b \in Nat /\ \A c \in Hashes : c # b => c < b
<1>1. /\ Len(blocks) \in Nat /\ Hashes = 1 .. Len(blocks)
      /\ Height(First) \in 0 .. Len(blocks) /\ Tip(First) = Height(First)
      /\ \A i \in 1 .. Height(First) : i \in published
  BY Numbers, FirstFacts
<1>2. b = Len(blocks) /\ b \in {collect[First], collector[First]}
  BY DEF StageInv
<1>3. blocks[b].prev = b - 1 /\ Len(blocks) <= Height(First) + 1
  BY DEF OrderInv
<1>4. Height(First) = b - 1
  BY <1>1, <1>2, <1>3
<1> QED BY <1>1, <1>2, <1>3, <1>4 DEF OnTip

LEMMA StageNext ==
    ASSUME Invariant, OrderInv, StageInv, [Next]_vars, Quiet'
    PROVE  StageInv'
<1>1. TypeInv /\ Quiet /\ schedule' = schedule /\ Up' = Up
  BY QuietSteps DEF Invariant, Up
<1> DEFINE Asked == waiting \cup verifying \cup prepared
<1>2. /\ Asked \subseteq Hashes \X Nodes /\ published \subseteq Hashes
      /\ collect \in [Nodes -> Hashes \cup {NoHash}]
      /\ collector \in [Nodes -> Hashes \cup {NoHash}]
      /\ NoHash \notin Hashes /\ First \in Nodes
      /\ \A n \in Nodes : collect[n] # NoHash => n = First
      /\ packing \subseteq {First} /\ \A b \in Hashes : blocks[b].maker = First
  BY <1>1, TypeFacts, HashFacts, FirstFacts, QuietFacts
<1>3. CASE UNCHANGED Stages
  <2>1. Hashes' = Hashes
    BY <1>3 DEF Stages, Hashes
  <2> QED BY <1>1, <1>3, <2>1 DEF Stages, StageInv
<1>4. ASSUME Asked' = Asked, UNCHANGED <<blocks, collect, collector, published>>,
             \A v \in verifying' \cup prepared' : v \in verifying \cup prepared \/ v[2] \in Up
      PROVE  StageInv'
  <2>1. Hashes' = Hashes
    BY <1>4 DEF Hashes
  <2> QED BY <1>1, <1>4, <2>1 DEF StageInv
<1>5. ASSUME NEW n \in Nodes, BuildBlock(n) PROVE StageInv'
  <2> DEFINE k == Len(blocks) + 1
  <2>1. /\ n \in packing /\ k \notin Hashes /\ Hashes' = Hashes \cup {k} /\ k \in AllHashes
        /\ blocks' \in Seq(BlockRecords)
        /\ collect' = [collect EXCEPT ![n] = k]
        /\ UNCHANGED <<collector, messages, published>>
    BY <1>1, <1>5, BuildFacts DEF counting
  <2>2. n = First /\ Height(First) = Len(blocks)
    BY <1>2, <2>1 DEF OrderInv
  <2>3. \A b \in Hashes : b \in published
    BY <2>2, Numbers, FirstFacts
  <2>4. k = Len(blocks')
    <3>1. blocks \in Seq(BlockRecords)
      BY <1>1, TypeFacts
    <3>2. blocks' = Append(blocks, [prev |-> vote[n].hash, maker |-> n,
                                    height |-> HeightOf(vote[n].hash) + 1])
      BY <1>5 DEF BuildBlock
    <3> QED BY <2>1, <3>1, <3>2
  <2>5. collect'[First] = k /\ waiting' = waiting /\ verifying' = verifying
        /\ prepared' = prepared /\ collector' = collector /\ published' = published
    BY <1>2, <2>1, <2>2 DEF messages
  <2>6. k \notin published /\ collector[First] # k /\ \A v \in Asked : v[1] # k
    <3>1. \A v \in Asked : v[1] \in Hashes
      BY <1>2
    <3>2. collector[First] # k
      <4>1. k # NoHash
        BY <2>1, Numbers DEF AllHashes
      <4> QED BY <1>2, <2>1, <4>1
    <3> QED BY <1>2, <2>1, <3>1, <3>2
  <2>7. \A b \in Hashes : b # k /\ \A m \in Nodes \ {First} : <<b, m>> \in Asked
    <3>1. \A b \in Hashes : collect[First] # b
      BY <2>3 DEF StageInv
    <3> QED BY <2>1, <3>1 DEF StageInv
  <2> HIDE DEF k
  <2>8. \A b \in Hashes' :
          /\ b \in published' \/ (b = Len(blocks') /\ b \in {collect'[First], collector'[First]})
          /\ collect'[First] = b => /\ b \notin published' /\ collector'[First] # b
                                    /\ \A v \in Asked' : v[1] # b
          /\ collect'[First] # b => \A m \in Nodes \ {First} : <<b, m>> \in Asked'
    BY <2>1, <2>3, <2>4, <2>5, <2>6, <2>7
  <2> QED BY <1>1, <2>5, <2>8 DEF StageInv
<1>6. ASSUME NEW n \in Nodes, CollectEndorsement(n) PROVE StageInv'
  <2>1. PICK b : b = collect[n]
    OBVIOUS
  <2>2. b # NoHash /\ n = First /\ b \in Hashes
    BY <1>2, <1>6, <2>1 DEF CollectEndorsement
  <2>3. b \notin published /\ collector[First] # b /\ \A v \in Asked : v[1] # b
    BY <2>1, <2>2 DEF StageInv
  <2>4. b = Len(blocks) /\ OnTip(b, First)
    BY <1>1, <2>2, <2>3, LastBlock
  <2>5. /\ collect' = [collect EXCEPT ![n] = NoHash]
        /\ collector' = [collector EXCEPT ![n] = b]
        /\ waiting' = waiting \cup {b} \X (Nodes \ {n})
        /\ UNCHANGED <<blocks, published, verifying, prepared>>
    BY <1>6, <2>1, <2>2, <2>3, <2>4 DEF CollectEndorsement
  <2>6. /\ collect'[First] = NoHash /\ collector'[First] = b /\ Hashes' = Hashes
        /\ \A m \in Nodes \ {First} : <<b, m>> \in waiting'
    BY <1>2, <2>2, <2>5 DEF Hashes
  <2>7. ASSUME NEW c \in Hashes, c # b
        PROVE  c \in published /\ \A m \in Nodes \ {First} : <<c, m>> \in Asked
    <3>1. c \in published
      BY <1>1, <2>4, <2>7, LastBlock
    <3> QED BY <2>1, <2>2, <2>7, <3>1 DEF StageInv
  <2>8. \A c \in Hashes' :
          /\ c \in published' \/ (c = Len(blocks') /\ c \in {collect'[First], collector'[First]})
          /\ collect'[First] # c
          /\ \A m \in Nodes \ {First} : <<c, m>> \in Asked'
    BY <1>2, <2>4, <2>5, <2>6, <2>7
  <2> QED BY <1>1, <2>5, <2>8 DEF StageInv
<1>7. ASSUME NEW n \in Up, NEW b \in Hashes, AcceptPrePrepare(n, b) \/ Prepare(n, b)
      PROVE  StageInv'
  <2>1. UNCHANGED <<blocks, collect, collector, published>>
    BY <1>7 DEF AcceptPrePrepare, Prepare, building
  <2>2. Asked' = Asked /\ \A v \in verifying' \cup prepared' :
                              v \in verifying \cup prepared \/ v = <<b, n>>
    BY <1>7 DEF AcceptPrePrepare, CanAccept, Prepare
  <2>3. \A v : v = <<b, n>> => v[2] \in Up
    OBVIOUS
  <2> HIDE DEF Asked
  <2> QED BY <1>4, <2>1, <2>2, <2>3
<1>8. ASSUME NEW n \in Nodes, NEW b \in Hashes, NEW r \in Requesters, ReceiveReply(n, b, r)
      PROVE  StageInv'
  <2>1. n = First /\ UNCHANGED <<blocks, collect, waiting, verifying, prepared>>
    BY <1>2, <1>8 DEF ReceiveReply, CanTakeReply, building
  <2>2. \/ published' = published /\ collector' = collector
        \/ /\ collector[n] = b /\ published' = published \cup {b}
           /\ collector' = [collector EXCEPT ![n] = NoHash]
    BY <1>8 DEF ReceiveReply
  <2>3. CASE published' = published /\ collector' = collector
    BY <1>3, <2>1, <2>3 DEF Stages
  <2>4. CASE /\ collector[n] = b /\ published' = published \cup {b}
             /\ collector' = [collector EXCEPT ![n] = NoHash]
    <3>1. collector'[First] = NoHash /\ Hashes' = Hashes
      BY <1>2, <2>1, <2>4 DEF Hashes
    <3>2. \A c \in Hashes : collect[First] = c => c # b
      BY <2>1, <2>4 DEF StageInv
    <3>3. \A c \in Hashes :
            /\ c \in published' \/ (c = Len(blocks') /\ c \in {collect'[First], collector'[First]})
            /\ collect'[First] = c => /\ c \notin published' /\ collector'[First] # c
                                      /\ \A v \in Asked' : v[1] # c
            /\ collect'[First] # c => \A m \in Nodes \ {First} : <<c, m>> \in Asked'
      <4> TAKE c \in Hashes
      <4>1. c \in published \/ (c = Len(blocks) /\ c \in {collect[First], collector[First]})
        BY DEF StageInv
      <4>2. collect[First] = c => c \notin published /\ \A v \in Asked : v[1] # c
        BY DEF StageInv
      <4>3. collect[First] # c => \A m \in Nodes \ {First} : <<c, m>> \in Asked
        BY DEF StageInv
      <4> QED BY <1>2, <2>1, <2>4, <3>1, <3>2, <4>1, <4>2, <4>3
    <3> QED BY <1>1, <2>1, <3>1, <3>3 DEF StageInv
  <2> QED BY <2>2, <2>3, <2>4
<1>9. CASE UNCHANGED vars
  BY <1>3, <1>9 DEF vars, building, messages, Stages
<1>10. ASSUME NEW n \in Up, Works(n) PROVE StageInv'
  <2>1. n \in Nodes
    BY DEF Up
  <2>2. CASE DrawBlocker(n) \/ CreateBlock(n)
    BY <1>3, <2>2 DEF DrawBlocker, CreateBlock, building, messages, Stages
  <2>3. ASSUME NEW b \in Hashes,
               ReceivePrepare(n, b) \/ ReceiveCommit(n, b) \/ ConfirmBlock(n, b)
        PROVE  StageInv'
    BY <1>3, <2>3 DEF ReceivePrepare, ReceiveCommit, ConfirmBlock, building, messages, Stages
  <2> QED BY <1>5, <1>6, <1>7, <1>8, <1>10, <2>1, <2>2, <2>3 DEF Works
<1> QED BY <1>9, <1>10, QuietSteps

LEMMA ApartNext ==
    ASSUME Invariant, StageInv, ApartInv, [Next]_vars, Quiet'
    PROVE  ApartInv'
<1>1. TypeInv /\ Quiet /\ waiting \cap verifying = {}
  BY QuietSteps DEF Invariant, ApartInv
<1>2. CASE UNCHANGED <<waiting, verifying>>
  BY <1>1, <1>2 DEF ApartInv
<1>3. ASSUME NEW n \in Nodes, CollectEndorsement(n) PROVE ApartInv'
  <2>1. PICK b : b = collect[n]
    OBVIOUS
  <2>2. b # NoHash /\ n = First /\ b \in Hashes
    BY <1>1, <1>3, <2>1, QuietFacts DEF CollectEndorsement
  <2>3. \A v \in verifying : v[1] # b
    BY <2>1, <2>2 DEF StageInv
  <2>4. verifying' = verifying /\ \A v \in waiting' : v \in waiting \/ v[1] = b
    BY <1>3, <2>1 DEF CollectEndorsement
  <2> QED BY <1>1, <2>3, <2>4 DEF ApartInv
<1>4. ASSUME NEW n \in Nodes, NEW b \in Hashes, AcceptPrePrepare(n, b) \/ Prepare(n, b)
      PROVE  ApartInv'
  BY <1>1, <1>4 DEF AcceptPrePrepare, Prepare, ApartInv
<1>5. CASE UNCHANGED vars
  BY <1>2, <1>5 DEF vars, messages
<1>6. ASSUME NEW n \in Nodes, Works(n) PROVE ApartInv'
  BY <1>2, <1>3, <1>4, <1>6
     DEF Works, DrawBlocker, CreateBlock, BuildBlock, ReceivePrepare, ReceiveCommit,
         ConfirmBlock, ReceiveReply, messages
<1> QED BY <1>5, <1>6, QuietSteps DEF Up

-----------------------------------------------------------------------------
(* What is heard is counted.                                                *)

\* Where the voter stands tells which blocks it has heard of.
LEMMA HeardNumbers ==
    ASSUME TypeInv, NEW n \in Nodes, NEW b \in Hashes
    PROVE  /\ heard[n]["prepare"][b] \in Nat /\ heard[n]["commit"][b] \in Nat
           /\ buffer[n].prepare.count \in 0 .. 1 /\ buffer[n].commit.count \in 0 .. 2
           /\ b \in AllHashes /\ "prepare" \in Kinds /\ "commit" \in Kinds
<1>1. b \in AllHashes /\ "prepare" \in Kinds /\ "commit" \in Kinds
  BY HashFacts DEF Kinds
<1>2. heard[n]["prepare"][b] \in Nat /\ heard[n]["commit"][b] \in Nat
  BY <1>1, TypeFacts DEF HeardFunctions
<1>3. \A max : \A x \in Buffers(max) : x.count \in 0 .. max
  BY DEF Buffers
<1> QED BY <1>1, <1>2, <1>3, BufferFacts

\* A prepare that is counted.
LEMMA PrepareCounted ==
    ASSUME Invariant, OrderInv, CountsInv, NEW n \in Nodes, NEW b \in Hashes, ReceivePrepare(n, b)
    PROVE  CountsInv'
<1>1. TypeInv /\ HeardEnough
  BY DEF Invariant
<1>2. /\ Hashes' = Hashes /\ vote' = vote
      /\ prepared' = prepared /\ committed \subseteq committed'
  BY DEF ReceivePrepare, building, Hashes
<1> DEFINE buf == Counted(buffer[n].prepare, b)
<1>3. /\ Underway("prepare", b, n) /\ Hears("prepare", b, n)
      /\ \A m \in Nodes \ {n} : buffer'[m] = buffer[m]
      /\ buffer'[n].commit = buffer[n].commit
      /\ \/ buf.count >= 2 /\ committed' = committed \cup {<<b, n>>}
         \/ ~(buf.count >= 2) /\ buffer'[n].prepare = buf
  BY <1>1, PrepareHeard
<1>4. /\ heard'[n]["prepare"][b] = heard[n]["prepare"][b] + 1
      /\ \A m \in Nodes, kind \in Kinds, c \in AllHashes :
             heard'[m][kind][c] = heard[m][kind][c] \/ (m = n /\ kind = "prepare" /\ c = b)
  BY <1>1, <1>2, <1>3, HeardNumbers, HearsFacts
<1>5. vote[n].hash = b - 1 /\ blocks[b].prev = b - 1 /\ b \in Nat /\ Hashes \subseteq Nat
  BY <1>1, HashFacts DEF OrderInv, ReceivePrepare, CanCount, Agrees
<1>6. /\ buf.block = b /\ buf.count \in Nat /\ buf.count <= heard[n]["prepare"][b] + 1
      /\ buf.count = IF buffer[n].prepare.block = b THEN buffer[n].prepare.count + 1 ELSE 1
  <2>1. 1 \in Nat /\ buffer[n].prepare \in Buffers(1)
    BY <1>1, BufferFacts
  <2> QED BY <1>1, <1>3, <2>1, HeardNumbers, CountHeard, CountedFacts
<1>7. PrepareCounts(n, b)'
  <2> DEFINE p == heard[n]["prepare"][b]
  <2>1. p \in Nat /\ buffer[n].prepare.count \in 0 .. 1
    BY <1>1, HeardNumbers
  <2>2. /\ p >= 2 => <<b, n>> \in committed
        /\ p = 1 => buffer[n].prepare.block = b /\ buffer[n].prepare.count = 1
    BY <1>5 DEF CountsInv, PrepareCounts
  <2>3. heard'[n]["prepare"][b] = p + 1 /\ vote'[n].hash = b - 1
    BY <1>2, <1>4, <1>5
  <2>4. p + 1 >= 2 => <<b, n>> \in committed'
    <3>1. p >= 2 => <<b, n>> \in committed'
      BY <1>2, <2>2
    <3>2. p = 1 => buf.count = 2
      BY <1>6, <2>2
    <3> HIDE DEF buf, p
    <3>3. p = 1 => <<b, n>> \in committed'
      BY <1>3, <3>2
    <3> QED BY <2>1, <3>1, <3>3
  <2>5. p + 1 = 1 => buffer'[n].prepare.block = b /\ buffer'[n].prepare.count = 1
    <3>1. p = 0 => buf.count = 1
      BY <1>6, <2>1
    <3> HIDE DEF buf, p
    <3> QED BY <1>3, <1>6, <2>1, <3>1
  <2>6. vote'[n].hash >= b - 1
    BY <1>5, <2>3
  <2> HIDE DEF p
  <2> QED BY <2>3, <2>4, <2>5, <2>6 DEF PrepareCounts
<1>8. ASSUME NEW c \in Hashes, c # b PROVE PrepareCounts(n, c)'
  <2>1. heard'[n]["prepare"][c] = heard[n]["prepare"][c] /\ vote'[n].hash # c - 1
    BY <1>1, <1>2, <1>4, <1>5, <1>8, HeardNumbers
  <2> QED BY <1>2, <2>1 DEF CountsInv, PrepareCounts
<1>9. ASSUME NEW c \in Hashes PROVE CommitCounts(n, c)'
  <2>1. heard'[n]["commit"][c] = heard[n]["commit"][c]
    BY <1>1, <1>4, HeardNumbers
  <2> QED BY <1>2, <1>3, <2>1 DEF CountsInv, CommitCounts
<1>10. ASSUME NEW m \in Nodes, NEW c \in Hashes, m # n
       PROVE  PrepareCounts(m, c)' /\ CommitCounts(m, c)'
  <2>1. /\ heard'[m]["prepare"][c] = heard[m]["prepare"][c]
        /\ heard'[m]["commit"][c] = heard[m]["commit"][c]
        /\ buffer'[m] = buffer[m]
    BY <1>1, <1>3, <1>4, <1>10, HeardNumbers
  <2>2. PrepareCounts(m, c) /\ CommitCounts(m, c)
    BY DEF CountsInv
  <2> QED BY <1>2, <2>1, <2>2 DEF PrepareCounts, CommitCounts
<1> QED BY <1>2, <1>7, <1>8, <1>9, <1>10 DEF CountsInv

\* A commit that is counted.
LEMMA CommitCounted ==
    ASSUME Invariant, OrderInv, CountsInv, NEW n \in Nodes, NEW b \in Hashes, ReceiveCommit(n, b)
    PROVE  CountsInv'
<1>1. TypeInv /\ HeardEnough
  BY DEF Invariant
<1>2. Hashes' = Hashes /\ vote' = vote /\ prepared' = prepared /\ committed' = committed
  BY DEF ReceiveCommit, building, Hashes
<1> DEFINE buf == Counted(buffer[n].commit, b)
<1>3. /\ Underway("commit", b, n) /\ Hears("commit", b, n)
      /\ \A m \in Nodes \ {n} : buffer'[m] = buffer[m]
      /\ buffer'[n].prepare = buffer[n].prepare
      /\ buf.count >= 3 \/ buffer'[n].commit = buf
  BY <1>1, CommitHeard
<1>4. /\ heard'[n]["commit"][b] = heard[n]["commit"][b] + 1
      /\ \A m \in Nodes, kind \in Kinds, c \in AllHashes :
             heard'[m][kind][c] = heard[m][kind][c] \/ (m = n /\ kind = "commit" /\ c = b)
  BY <1>1, <1>2, <1>3, HeardNumbers, HearsFacts
<1>5. vote[n].hash = b - 1 /\ blocks[b].prev = b - 1 /\ b \in Nat /\ Hashes \subseteq Nat
  BY <1>1, HashFacts DEF OrderInv, ReceiveCommit, CanCount, Agrees
<1>6. /\ buf.block = b /\ buf.count \in Nat /\ buf.count <= heard[n]["commit"][b] + 1
      /\ buf.count = IF buffer[n].commit.block = b THEN buffer[n].commit.count + 1 ELSE 1
  <2>1. 2 \in Nat /\ buffer[n].commit \in Buffers(2)
    BY <1>1, BufferFacts
  <2> QED BY <1>1, <1>3, <2>1, HeardNumbers, CountHeard, CountedFacts
<1>7. CommitCounts(n, b)'
  <2> DEFINE p == heard[n]["commit"][b]
  <2>1. p \in Nat /\ buffer[n].commit.count \in 0 .. 2
    BY <1>1, HeardNumbers
  <2>2. p \in {1, 2} => buffer[n].commit.block = b /\ buffer[n].commit.count = p
    BY <1>5 DEF CountsInv, CommitCounts
  <2>3. heard'[n]["commit"][b] = p + 1 /\ vote'[n].hash = b - 1 /\ vote'[n].hash >= b - 1
    BY <1>2, <1>4, <1>5
  <2>4. p + 1 \in {1, 2} => buf.count = p + 1
    BY <1>6, <2>1, <2>2
  <2>5. p + 1 \in {1, 2} => buffer'[n].commit.block = b /\ buffer'[n].commit.count = p + 1
    <3> HIDE DEF buf, p
    <3> QED BY <1>3, <1>6, <2>1, <2>4
  <2> HIDE DEF p
  <2> QED BY <2>3, <2>5 DEF CommitCounts
<1>8. ASSUME NEW c \in Hashes, c # b PROVE CommitCounts(n, c)'
  <2>1. heard'[n]["commit"][c] = heard[n]["commit"][c] /\ vote'[n].hash # c - 1
    BY <1>1, <1>2, <1>4, <1>5, <1>8, HeardNumbers
  <2> QED BY <1>2, <2>1 DEF CountsInv, CommitCounts
<1>9. ASSUME NEW c \in Hashes PROVE PrepareCounts(n, c)'
  <2>1. heard'[n]["prepare"][c] = heard[n]["prepare"][c]
    BY <1>1, <1>4, HeardNumbers
  <2> QED BY <1>2, <1>3, <2>1 DEF CountsInv, PrepareCounts
<1>10. ASSUME NEW m \in Nodes, NEW c \in Hashes, m # n
       PROVE  PrepareCounts(m, c)' /\ CommitCounts(m, c)'
  <2>1. /\ heard'[m]["prepare"][c] = heard[m]["prepare"][c]
        /\ heard'[m]["commit"][c] = heard[m]["commit"][c]
        /\ buffer'[m] = buffer[m]
    BY <1>1, <1>3, <1>4, <1>10, HeardNumbers
  <2>2. PrepareCounts(m, c) /\ CommitCounts(m, c)
    BY DEF CountsInv
  <2> QED BY <1>2, <2>1, <2>2 DEF PrepareCounts, CommitCounts
<1> QED BY <1>2, <1>7, <1>8, <1>9, <1>10 DEF CountsInv

LEMMA CountsNext ==
    ASSUME Invariant, OrderInv, CountsInv, [Next]_vars, Quiet'
    PROVE  CountsInv'
<1>1. TypeInv /\ Quiet /\ committed \subseteq committed'
  BY QuietSteps, Grows DEF Invariant
<1>2. CASE UNCHANGED <<blocks, vote, heard, buffer>>
  <2>1. Hashes' = Hashes
    BY <1>2 DEF Hashes
  <2> QED BY <1>1, <1>2, <2>1 DEF CountsInv, PrepareCounts, CommitCounts
<1>3. ASSUME NEW n \in Nodes, DrawBlocker(n) PROVE CountsInv'
  <2>1. /\ UNCHANGED <<blocks, heard, buffer, committed>>
        /\ vote'[n].hash = Tip(n) /\ vote[n].hash # Tip(n)
        /\ \A m \in Nodes \ {n} : vote'[m] = vote[m]
    BY <1>1, <1>3, DrawFacts DEF DrawBlocker, building, messages, counting
  <2>2. /\ Hashes' = Hashes /\ Hashes \subseteq Int /\ Tip(n) = Height(n) /\ Height(n) \in Int
        /\ vote[n].hash \in Int /\ vote[n].hash <= Height(n)
    BY <2>1, Numbers DEF Hashes, OrderInv
  <2>3. vote'[n].hash \in Int /\ vote'[n].hash > vote[n].hash
    BY <2>1, <2>2
  <2>4. ASSUME NEW b \in Hashes PROVE PrepareCounts(n, b)' /\ CommitCounts(n, b)'
    <3>1. PrepareCounts(n, b) /\ CommitCounts(n, b)
      BY DEF CountsInv
    <3>2. /\ heard'[n]["prepare"][b] = heard[n]["prepare"][b]
          /\ heard'[n]["commit"][b] = heard[n]["commit"][b] /\ committed' = committed
          /\ heard[n]["prepare"][b] \in Nat /\ heard[n]["commit"][b] \in Nat
      BY <1>1, <2>1, HeardNumbers
    <3>3. /\ heard[n]["prepare"][b] > 0 => vote'[n].hash > b - 1
          /\ heard[n]["commit"][b] > 0 => vote'[n].hash > b - 1
      BY <2>2, <2>3, <3>1 DEF PrepareCounts, CommitCounts
    <3>4. b - 1 \in Int /\ \A x \in Int : x > b - 1 => x >= b - 1 /\ x # b - 1
      BY <2>2
    <3>5. PrepareCounts(n, b)'
      BY <2>3, <3>1, <3>2, <3>3, <3>4 DEF PrepareCounts
    <3>6. CommitCounts(n, b)'
      BY <2>3, <3>2, <3>3, <3>4 DEF CommitCounts
    <3> QED BY <3>5, <3>6
  <2>5. ASSUME NEW m \in Nodes \ {n}, NEW b \in Hashes
        PROVE  PrepareCounts(m, b)' /\ CommitCounts(m, b)'
    <3>1. PrepareCounts(m, b) /\ CommitCounts(m, b)
      BY DEF CountsInv
    <3> QED BY <2>1, <3>1 DEF PrepareCounts, CommitCounts
  <2> QED BY <2>2, <2>4, <2>5 DEF CountsInv
<1>4. ASSUME NEW n \in Nodes, BuildBlock(n) PROVE CountsInv'
  <2>0. PICK k \in Int : k = Len(blocks) + 1
    BY <1>1, HashFacts
  <2>1. /\ k \notin Hashes /\ Hashes' = Hashes \cup {k} /\ k \in AllHashes
        /\ UNCHANGED <<vote, heard, buffer, committed>>
    BY <1>1, <1>4, <2>0, BuildFacts DEF messages, counting
  <2>2. \A m \in Nodes, kind \in Kinds : heard[m][kind][k] = 0
    <3> TAKE m \in Nodes, kind \in Kinds
    <3>1. heard[m][kind][k] \in 0 .. Cardinality(SendersOf(kind, k))
      BY <1>1, <2>1, TypeFacts DEF HeardBound
    <3>2. SendersOf(kind, k) = {}
      BY <1>1, <2>1, TypeFacts DEF SendersOf
    <3>3. heard[m][kind][k] \in 0 .. 0
      BY <3>1, <3>2, FS_EmptySet
    <3> QED BY <3>3
  <2>3. ASSUME NEW m \in Nodes PROVE PrepareCounts(m, k)' /\ CommitCounts(m, k)'
    <3>1. heard'[m]["prepare"][k] = 0 /\ heard'[m]["commit"][k] = 0
      BY <2>1, <2>2 DEF Kinds
    <3> QED BY <3>1 DEF PrepareCounts, CommitCounts
  <2>4. ASSUME NEW m \in Nodes, NEW b \in Hashes PROVE PrepareCounts(m, b)' /\ CommitCounts(m, b)'
    BY <2>1 DEF CountsInv, PrepareCounts, CommitCounts
  <2> QED BY <2>1, <2>3, <2>4 DEF CountsInv
<1>5. CASE UNCHANGED vars
  BY <1>2, <1>5 DEF vars, building, counting
<1>6. ASSUME NEW n \in Nodes, Works(n) PROVE CountsInv'
  <2>1. CASE CreateBlock(n) \/ CollectEndorsement(n)
    BY <1>2, <2>1 DEF CreateBlock, CollectEndorsement, counting
  <2>2. ASSUME NEW b \in Hashes, \/ AcceptPrePrepare(n, b) \/ Prepare(n, b) \/ ConfirmBlock(n, b)
                                 \/ \E r \in Requesters : ReceiveReply(n, b, r)
        PROVE  CountsInv'
    BY <1>2, <2>2 DEF AcceptPrePrepare, Prepare, ConfirmBlock, ReceiveReply, building, counting
  <2> QED BY <1>3, <1>4, <1>6, <2>1, <2>2, PrepareCounted, CommitCounted DEF Works
<1> QED BY <1>5, <1>6, QuietSteps DEF Up

-----------------------------------------------------------------------------
(* Replies.                                                                 *)

LEMMA AnswerNumbers ==
    ASSUME TypeInv, NEW b \in Hashes
    PROVE  /\ \A r \in Requesters : /\ replies[b][r] \in Nat /\ Got(b, r) \in 0 .. 1
                                    /\ Answers(b, r) \in Nat
           /\ Repliers(b) \subseteq Nodes
           /\ \A f, r : Cardinality(Taken(Repliers(b), f, r)) \in Nat
<1>1. ASSUME NEW r \in Requesters
      PROVE  replies[b][r] \in Nat /\ Got(b, r) \in 0 .. 1 /\ Answers(b, r) \in Nat
  <2>1. replies[b][r] \in Nat
    BY HashFacts, TypeFacts
  <2>2. Got(b, r) \in 0 .. 1
    <3>1. counter[First][r] \in Buffers(1)
      BY BufferFacts, FirstFacts
    <3> QED BY <3>1 DEF Got, Buffers
  <2> QED BY <2>1, <2>2 DEF Answers
<1>2. Repliers(b) \subseteq Nodes
  BY DEF Repliers
<1>3. ASSUME NEW f, NEW r PROVE Cardinality(Taken(Repliers(b), f, r)) \in Nat
  <2>1. Taken(Repliers(b), f, r) \in SUBSET Nodes
    BY <1>2 DEF Taken
  <2> QED BY <2>1, MoreIsMore
<1> QED BY <1>1, <1>2, <1>3

\* No answer is lost and nobody else replies.
LEMMA AnswersKept ==
    ASSUME TypeInv, NEW b \in Hashes \ published, RepliesInv,
           Repliers(b)' = Repliers(b), Routes(b) \subseteq Routes(b)',
           \A r \in Requesters : Answers(b, r)' \in Int /\ Answers(b, r) <= Answers(b, r)'
    PROVE  \E f \in [Repliers(b)' -> Requesters] : Answered(b, f)'
<1>1. PICK f \in [Repliers(b) -> Requesters] : Answered(b, f)
  BY DEF RepliesInv
<1>2. \A r \in Requesters : Cardinality(Taken(Repliers(b), f, r)) <= Answers(b, r)'
  <2> TAKE r \in Requesters
  <2>1. Cardinality(Taken(Repliers(b), f, r)) <= Answers(b, r)
    BY <1>1 DEF Answered
  <2>2. Cardinality(Taken(Repliers(b), f, r)) \in Int /\ Answers(b, r) \in Int
    BY AnswerNumbers
  <2>3. \A i, j, k \in Int : i <= j /\ j <= k => i <= k
    OBVIOUS
  <2> QED BY <2>1, <2>2, <2>3
<1>3. Answered(b, f)' <=>
         /\ \A n \in Repliers(b)' : f[n] \in Routes(b)'
         /\ \A r \in Requesters : Cardinality(Taken(Repliers(b)', f, r)) <= Answers(b, r)'
  BY DEF Answered, Taken
<1>4. Answered(b, f)'
  BY <1>1, <1>2, <1>3 DEF Answered
<1> QED BY <1>1, <1>4

\* What a commit adds to the replies.
LEMMA ReplyAdded ==
    ASSUME TypeInv, NEW n \in Nodes, NEW b \in Hashes, ReceiveCommit(n, b)
    PROVE  \/ /\ Counted(buffer[n].commit, b).count >= 3
              /\ \E q \in Routes(b) :
                    /\ q \in Requesters
                    /\ \A c \in AllHashes, r \in Requesters :
                          replies'[c][r] = IF c = b /\ r = q THEN replies[c][r] + 1
                                           ELSE replies[c][r]
           \/ ~(Counted(buffer[n].commit, b).count >= 3) /\ replies' = replies
<1>1. CASE ~(Counted(buffer[n].commit, b).count >= 3)
  BY <1>1 DEF ReceiveCommit
<1>2. CASE Counted(buffer[n].commit, b).count >= 3
  <2>1. PICK p \in SendersOf("prepare", b) :
             replies' = [replies EXCEPT ![b][schedule.route[p]] = @ + 1]
    BY <1>2 DEF ReceiveCommit
  <2>2. p \in Nodes /\ schedule \in ScheduleRecords
    BY TypeFacts, ConstantFacts DEF SendersOf
  <2>3. PICK q \in Requesters : q = schedule.route[p]
    BY <2>2 DEF ScheduleRecords
  <2>4. replies \in [AllHashes -> [Requesters -> Nat]] /\ b \in AllHashes
    BY TypeFacts, HashFacts
  <2>5. replies' = [replies EXCEPT ![b][q] = replies[b][q] + 1]
    BY <2>1, <2>3
  <2>6. \A c \in AllHashes, r \in Requesters :
           replies'[c][r] = IF c = b /\ r = q THEN replies[c][r] + 1 ELSE replies[c][r]
    BY <2>4, <2>5
  <2>7. q \in Routes(b)
    BY <2>3 DEF Routes
  <2> QED BY <1>2, <2>6, <2>7
<1> QED BY <1>1, <1>2

\* One more node has replied.
Extends(S, n, f, q, g) ==
    /\ g \in [S \cup {n} -> Requesters] /\ g[n] = q /\ \A m \in S : g[m] = f[m]
    /\ \A r \in Requesters \ {q} : Taken(S \cup {n}, g, r) = Taken(S, f, r)
    /\ Cardinality(Taken(S \cup {n}, g, q)) = Cardinality(Taken(S, f, q)) + 1

LEMMA OneMoreAnswer ==
    ASSUME NEW S \in SUBSET Nodes, NEW n \in Nodes \ S, NEW f \in [S -> Requesters],
           NEW q \in Requesters
    PROVE  Extends(S, n, f, q, [m \in S \cup {n} |-> IF m = n THEN q ELSE f[m]])
<1> DEFINE T == S \cup {n}
           g == [m \in T |-> IF m = n THEN q ELSE f[m]]
<1>1. g \in [T -> Requesters] /\ g[n] = q /\ \A m \in S : g[m] = f[m]
  OBVIOUS
<1> HIDE DEF g
<1>2. \A r \in Requesters \ {q} : Taken(T, g, r) = Taken(S, f, r)
  BY <1>1 DEF Taken
<1>3. Taken(T, g, q) = Taken(S, f, q) \cup {n} /\ n \notin Taken(S, f, q)
  BY <1>1 DEF Taken
<1>4. IsFiniteSet(Taken(S, f, q))
  <2>1. Taken(S, f, q) \in SUBSET Nodes
    BY DEF Taken
  <2> QED BY <2>1, ConstantFacts, FS_Subset
<1>5. Cardinality(Taken(T, g, q)) = Cardinality(Taken(S, f, q)) + 1
  BY <1>3, <1>4, FS_AddElement
<1>6. Extends(S, n, f, q, g)
  BY <1>1, <1>2, <1>5 DEF Extends
<1> QED BY <1>6 DEF g

\* A node that has heard of its third commit replies.
LEMMA CommitAnswered ==
    ASSUME Invariant, OrderInv, CountsInv, RepliesInv, schedule' = schedule,
           NEW n \in Nodes, NEW b \in Hashes, ReceiveCommit(n, b)
    PROVE  RepliesInv'
<1>1. TypeInv /\ HeardEnough
  BY DEF Invariant
<1>2. Hashes' = Hashes /\ UNCHANGED <<vote, prepared, committed, counter, published, schedule>>
  BY DEF ReceiveCommit, building, Hashes
<1>3. \A c : /\ Routes(c)' = Routes(c)
             /\ \A r : Got(c, r)' = Got(c, r) /\ Answers(c, r)' = replies'[c][r] + Got(c, r)
  BY <1>2 DEF Routes, SendersOf, Got, Answers
<1> DEFINE buf == Counted(buffer[n].commit, b)
           h == heard[n]["commit"][b]
<1>4. /\ \/ /\ buf.count >= 3
            /\ \E q \in Routes(b) :
                  /\ q \in Requesters
                  /\ \A c \in AllHashes, r \in Requesters :
                        replies'[c][r] = IF c = b /\ r = q THEN replies[c][r] + 1
                                         ELSE replies[c][r]
         \/ ~(buf.count >= 3) /\ replies' = replies
      /\ Underway("commit", b, n) /\ Hears("commit", b, n)
  BY <1>1, ReplyAdded, CommitHeard
<1>5. /\ heard'[n]["commit"][b] = h + 1 /\ h \in Nat
      /\ \A m \in Nodes, c \in AllHashes :
             heard'[m]["commit"][c] = heard[m]["commit"][c] \/ (m = n /\ c = b)
  BY <1>1, <1>2, <1>4, HeardNumbers, HearsFacts
<1>6. /\ buf.count \in Nat /\ buf.count <= h + 1
      /\ buf.count = IF buffer[n].commit.block = b THEN buffer[n].commit.count + 1 ELSE 1
  <2>1. 2 \in Nat /\ buffer[n].commit \in Buffers(2)
    BY <1>1, BufferFacts
  <2> QED BY <1>1, <1>4, <2>1, HeardNumbers, CountHeard, CountedFacts
<1>7. h = 2 => buf.count = 3
  <2>1. vote[n].hash = b - 1
    BY DEF OrderInv, ReceiveCommit, CanCount, Agrees
  <2>2. h = 2 => buffer[n].commit.block = b /\ buffer[n].commit.count = 2
    BY <2>1 DEF CountsInv, CommitCounts
  <2> QED BY <1>6, <2>2
<1> HIDE DEF buf
<1>8. /\ \A c \in Hashes, r \in Requesters :
            /\ replies[c][r] \in Nat /\ Got(c, r) \in 0 .. 1
            /\ Answers(c, r) = replies[c][r] + Got(c, r)
      /\ Hashes \subseteq AllHashes
  BY <1>1, AnswerNumbers, HashFacts DEF Answers
<1>9. \A c \in Hashes, r \in Requesters : Answers(c, r)' \in Int /\ Answers(c, r) <= Answers(c, r)'
  <2> TAKE c \in Hashes, r \in Requesters
  <2>1. replies'[c][r] = replies[c][r] \/ replies'[c][r] = replies[c][r] + 1
    BY <1>4, <1>8
  <2>2. \A i, j, k \in Int : (k = i \/ k = i + 1) => k + j \in Int /\ i + j <= k + j
    OBVIOUS
  <2> QED BY <1>3, <1>8, <2>1, <2>2
<1>10. ASSUME NEW c \in Hashes \ published, Repliers(c)' = Repliers(c)
       PROVE  \E f \in [Repliers(c)' -> Requesters] : Answered(c, f)'
  BY <1>1, <1>3, <1>9, <1>10, AnswersKept
<1>11. \A c \in Hashes : \A m \in Nodes : (c # b \/ m # n) =>
            (m \in Repliers(c)' <=> m \in Repliers(c))
  BY <1>5, <1>8 DEF Repliers
<1>12. \A c : Repliers(c) \subseteq Nodes /\ Repliers(c)' \subseteq Nodes
  BY DEF Repliers
<1>13. ASSUME NEW c \in Hashes \ published, c # b
       PROVE  \E f \in [Repliers(c)' -> Requesters] : Answered(c, f)'
  <2>1. Repliers(c)' = Repliers(c)
    BY <1>11, <1>12, <1>13
  <2> QED BY <1>10, <2>1
<1>14. ASSUME b \notin published
       PROVE  \E f \in [Repliers(b)' -> Requesters] : Answered(b, f)'
  <2>1. (n \in Repliers(b) <=> h >= 3) /\ (n \in Repliers(b)' <=> h + 1 >= 3)
    BY <1>5 DEF Repliers
  <2>2. CASE h # 2
    <3>1. Repliers(b)' = Repliers(b)
      <4>1. h >= 3 <=> h + 1 >= 3
        BY <1>5, <2>2
      <4> QED BY <1>11, <1>12, <2>1, <4>1
    <3> QED BY <1>10, <1>14, <3>1
  <2>3. CASE h = 2
    <3> DEFINE S == Repliers(b)
    <3>1. n \notin S /\ Repliers(b)' = S \cup {n}
      BY <1>11, <1>12, <2>1, <2>3
    <3>2. PICK q \in Routes(b) :
             /\ q \in Requesters
             /\ \A c \in AllHashes, r \in Requesters :
                   replies'[c][r] = IF c = b /\ r = q THEN replies[c][r] + 1 ELSE replies[c][r]
      BY <1>4, <1>7, <2>3
    <3>3. PICK f \in [S -> Requesters] : Answered(b, f)
      BY <1>14 DEF RepliesInv
    <3>4. PICK g : Extends(S, n, f, q, g)
      <4>1. S \in SUBSET Nodes /\ n \in Nodes \ S
        BY <1>12, <3>1
      <4>2. q \in Requesters /\ f \in [S -> Requesters]
        BY <3>2
      <4> HIDE DEF S
      <4>3. Extends(S, n, f, q, [m \in S \cup {n} |-> IF m = n THEN q ELSE f[m]])
        BY ONLY <4>1, <4>2, OneMoreAnswer, Zenon
      <4> QED BY <4>3
    <3>5. \A m \in S \cup {n} : g[m] \in Routes(b)'
      BY <1>3, <3>2, <3>3, <3>4 DEF Answered, Extends
    <3>6. \A r \in Requesters : Cardinality(Taken(S \cup {n}, g, r)) <= Answers(b, r)'
      <4> TAKE r \in Requesters
      <4>1. Cardinality(Taken(S, f, r)) <= Answers(b, r) /\ Cardinality(Taken(S, f, r)) \in Nat
        BY <1>1, <3>3, AnswerNumbers DEF Answered
      <4>2. Answers(b, r) \in Int /\ Answers(b, r)' \in Int
        BY <1>1, <1>9, AnswerNumbers
      <4>3. CASE r # q
        <5>1. Answers(b, r) <= Answers(b, r)' /\ Taken(S \cup {n}, g, r) = Taken(S, f, r)
          BY <1>9, <3>4, <4>3 DEF Extends
        <5>2. \A i, j, k \in Int : i <= j /\ j <= k => i <= k
          OBVIOUS
        <5> QED BY <4>1, <4>2, <5>1, <5>2
      <4>4. CASE r = q
        <5>1. Answers(b, r)' = Answers(b, r) + 1
          <6>1. replies'[b][r] = replies[b][r] + 1
            BY <1>8, <3>2, <4>4
          <6>2. \A i, j \in Int : (i + 1) + j = (i + j) + 1
            OBVIOUS
          <6> QED BY <1>3, <1>8, <6>1, <6>2
        <5>2. \A i, j \in Int : i <= j => i + 1 <= j + 1
          OBVIOUS
        <5> QED BY <3>4, <4>1, <4>2, <4>4, <5>1, <5>2 DEF Extends
      <4> QED BY <4>3, <4>4
    <3>7. Answered(b, g)' <=>
             /\ \A m \in Repliers(b)' : g[m] \in Routes(b)'
             /\ \A r \in Requesters : Cardinality(Taken(Repliers(b)', g, r)) <= Answers(b, r)'
      BY DEF Answered, Taken
    <3> HIDE DEF S
    <3> QED BY <3>1, <3>4, <3>5, <3>6, <3>7 DEF Extends
  <2> QED BY <2>2, <2>3
<1> QED BY <1>2, <1>13, <1>14 DEF RepliesInv

\* What a requester has counted that waits for one more reply.
LEMMA ReplyCounted ==
    ASSUME TypeInv, NEW b \in Hashes, NEW r \in Requesters, ReceiveReply(First, b, r)
    PROVE  /\ \A c \in AllHashes, q \in Requesters :
                 replies'[c][q] = IF c = b /\ q = r THEN replies[c][q] - 1 ELSE replies[c][q]
           /\ \A q \in Requesters \ {r} : counter'[First][q] = counter[First][q]
           /\ counter'[First][r].block \in {NoHash, b}
           /\ \/ Got(b, r)' = Got(b, r) + 1
              \/ collector[First] = b /\ OnTip(b, First) => b \in published'
<1> DEFINE c == Counted(counter[First][r], b)
           x == IF c.count >= 2 THEN Empty ELSE c
<1>1. /\ replies \in [AllHashes -> [Requesters -> Nat]] /\ b \in AllHashes
      /\ counter \in [Nodes -> [Requesters -> Buffers(1)]] /\ First \in Nodes
  BY TypeFacts, HashFacts, FirstFacts
<1>2. /\ replies' = [replies EXCEPT ![b][r] = replies[b][r] - 1]
      /\ counter' = [counter EXCEPT ![First][r] = x]
      /\ c.count >= 2 /\ collector[First] = b /\ OnTip(b, First) => b \in published'
  BY DEF ReceiveReply
<1>3. \A d \in AllHashes, q \in Requesters :
          replies'[d][q] = IF d = b /\ q = r THEN replies[d][q] - 1 ELSE replies[d][q]
  BY <1>1, <1>2
<1>4. /\ c.block = b /\ c.count \in Nat /\ Empty.block = NoHash
      /\ c.count = IF counter[First][r].block = b THEN counter[First][r].count + 1 ELSE 1
  <2>1. 1 \in Nat /\ counter[First][r] \in Buffers(1)
    BY <1>1
  <2> QED BY <2>1, CountedFacts
<1> HIDE DEF c
<1>5. x.block \in {NoHash, b}
  BY <1>4
<1>6. c.count >= 2 \/ x = c
  OBVIOUS
<1> HIDE DEF x
<1>7. counter'[First][r] = x /\ \A q \in Requesters \ {r} : counter'[First][q] = counter[First][q]
  BY <1>1, <1>2
<1>8. x = c => Got(b, r)' = Got(b, r) + 1
  <2>1. Got(b, r)' = IF counter'[First][r].block = b THEN counter'[First][r].count ELSE 0
    BY DEF Got
  <2> QED BY <1>4, <1>7, <2>1 DEF Got
<1> QED BY <1>2, <1>3, <1>5, <1>6, <1>7, <1>8

\* A reply that is counted was under way; the last one needed has the block published.
LEMMA ReplyAnswered ==
    ASSUME Invariant, OrderInv, StageInv, RepliesInv, Quiet, Quiet', schedule' = schedule,
           NEW b \in Hashes, NEW r \in Requesters, ReceiveReply(First, b, r)
    PROVE  RepliesInv'
<1>1. TypeInv /\ CommitInv /\ ReplyInv
  BY DEF Invariant, CertInv
<1>2. /\ UNCHANGED <<blocks, prepared, heard>> /\ Hashes' = Hashes /\ published \subseteq published'
      /\ replies[b][r] > 0
      /\ counter[First][r].block > b => mishaps' = mishaps + 1
  BY DEF ReceiveReply, CanTakeReply, building, Hashes
<1>3. /\ \A c \in AllHashes, q \in Requesters :
            replies'[c][q] = IF c = b /\ q = r THEN replies[c][q] - 1 ELSE replies[c][q]
      /\ \A q \in Requesters \ {r} : counter'[First][q] = counter[First][q]
      /\ counter'[First][r].block \in {NoHash, b}
      /\ \/ Got(b, r)' = Got(b, r) + 1
         \/ collector[First] = b /\ OnTip(b, First) => b \in published'
  BY <1>1, ReplyCounted
<1>4. ~(counter[First][r].block > b)
  BY <1>2 DEF Quiet
<1>5. \A c : Repliers(c)' = Repliers(c) /\ Routes(c)' = Routes(c)
  BY <1>2 DEF Repliers, Routes, SendersOf
<1>6. ASSUME NEW c \in Hashes \ published'
      PROVE  \E f \in [Repliers(c)' -> Requesters] : Answered(c, f)'
  <2>1. /\ c \notin published /\ c \in AllHashes /\ c # NoHash /\ c \in Nat /\ b \in Nat
        /\ \A d \in Hashes : d # c => d < c
        /\ c \in {collect[First], collector[First]} /\ OnTip(c, First)
    BY <1>1, <1>2, LastBlock, HashFacts
  <2>2. \A q \in Requesters : /\ replies[c][q] \in Nat /\ Got(c, q) \in 0 .. 1
                              /\ Answers(c, q) = replies[c][q] + Got(c, q)
                              /\ Answers(c, q)' = replies'[c][q] + Got(c, q)'
    BY <1>1, AnswerNumbers DEF Answers
  <2>3. \A q \in Requesters \ {r} : replies'[c][q] = replies[c][q] /\ Got(c, q)' = Got(c, q)
    BY <1>3, <2>1 DEF Got
  <2>4. CASE c # b
    <3>1. replies'[c][r] = replies[c][r]
      BY <1>3, <2>1, <2>4
    <3>2. Got(c, r) = 0
      BY <1>4, <2>1, <2>4 DEF Got
    <3>3. Got(c, r)' = 0
      <4>1. counter'[First][r].block # c
        BY <1>3, <2>1, <2>4
      <4>2. Got(c, r)' = IF counter'[First][r].block = c THEN counter'[First][r].count ELSE 0
        BY DEF Got
      <4> QED BY <4>1, <4>2
    <3> QED BY <2>2, <3>1, <3>2, <3>3, <2>3, <1>1, <1>5, <2>1, AnswersKept
  <2>5. CASE c = b
    <3>1. collect[First] # b
      <4>1. Enough(b)
        BY <1>1, <1>2, <2>1, <2>5 DEF ReplyInv
      <4>2. SendersOf("commit", b) # {}
        BY <4>1, FS_EmptySet DEF Enough
      <4>3. PICK m : <<b, m>> \in committed
        BY <4>2 DEF SendersOf
      <4>4. Cardinality(SendersOf("prepare", b)) >= 2
        BY <1>1, <4>3 DEF CommitInv
      <4>5. SendersOf("prepare", b) # {}
        BY <4>4, FS_EmptySet
      <4>6. PICK p : <<b, p>> \in prepared
        BY <4>5 DEF SendersOf
      <4> QED BY <4>6 DEF StageInv
    <3>2. Got(b, r)' = Got(b, r) + 1
      BY <1>3, <2>1, <2>5, <3>1
    <3>3. replies'[b][r] = replies[b][r] - 1
      BY <1>3, <2>1, <2>5
    <3>4. Answers(c, r)' = Answers(c, r)
      <4>1. \A i, j \in Int : (i - 1) + (j + 1) = i + j
        OBVIOUS
      <4> QED BY <2>2, <2>5, <3>2, <3>3, <4>1
    <3>5. \A q \in Requesters : Answers(c, q)' = Answers(c, q)
      BY <2>2, <2>3, <3>4
    <3>6. \A q \in Requesters : Answers(c, q)' \in Int /\ Answers(c, q) <= Answers(c, q)'
      <4>1. \A q \in Requesters : Answers(c, q) \in Nat
        BY <1>1, AnswerNumbers
      <4> QED BY <3>5, <4>1
    <3> QED BY <1>1, <1>5, <2>1, <3>6, AnswersKept
  <2> QED BY <2>4, <2>5
<1> QED BY <1>2, <1>6 DEF RepliesInv

LEMMA RepliesNext ==
    ASSUME Invariant, OrderInv, StageInv, CountsInv, RepliesInv, [Next]_vars, Quiet'
    PROVE  RepliesInv'
<1>1. TypeInv /\ Quiet /\ schedule' = schedule /\ prepared \subseteq prepared'
  BY QuietSteps, Grows DEF Invariant
<1>2. \A c : Routes(c) \subseteq Routes(c)'
  BY <1>1 DEF Routes, SendersOf
<1>3. ASSUME UNCHANGED <<replies, counter>>, NEW c \in Hashes \ published,
             \A m \in Nodes : heard'[m]["commit"][c] = heard[m]["commit"][c]
      PROVE  \E f \in [Repliers(c)' -> Requesters] : Answered(c, f)'
  <2>1. Repliers(c)' = Repliers(c)
    BY <1>3 DEF Repliers
  <2>2. \A r \in Requesters : Answers(c, r)' = Answers(c, r) /\ Answers(c, r) \in Nat
    BY <1>1, <1>3, AnswerNumbers DEF Answers, Got
  <2> QED BY <1>1, <1>2, <2>1, <2>2, AnswersKept
<1>4. CASE UNCHANGED <<blocks, replies, counter, heard, published>>
  BY <1>3, <1>4 DEF Hashes, RepliesInv
<1>5. ASSUME NEW n \in Nodes, BuildBlock(n) PROVE RepliesInv'
  <2>1. PICK k \in Int : k = Len(blocks) + 1
    BY <1>1, HashFacts
  <2>2. /\ k \notin Hashes /\ Hashes' = Hashes \cup {k} /\ k \in AllHashes
        /\ UNCHANGED <<heard, counter, prepared, replies, published>>
    BY <1>1, <1>5, <2>1, BuildFacts DEF messages, counting
  <2>3. \A m \in Nodes : heard[m]["commit"][k] = 0
    <3> TAKE m \in Nodes
    <3>1. heard[m]["commit"][k] \in 0 .. Cardinality(SendersOf("commit", k))
      BY <1>1, <2>2, TypeFacts DEF HeardBound, Kinds
    <3>2. SendersOf("commit", k) = {}
      BY <1>1, <2>2, TypeFacts DEF SendersOf
    <3>3. heard[m]["commit"][k] \in 0 .. 0
      BY <3>1, <3>2, FS_EmptySet
    <3> QED BY <3>3
  <2>4. Repliers(k)' = {}
    BY <2>2, <2>3 DEF Repliers
  <2>5. \A r \in Requesters : Answers(k, r)' \in Nat
    <3> TAKE r \in Requesters
    <3>1. replies'[k][r] \in Nat
      BY <1>1, <2>2, TypeFacts
    <3>2. counter'[First][r] \in Buffers(1)
      BY <1>1, <2>2, FirstFacts, BufferFacts
    <3>3. counter'[First][r].count \in 0 .. 1
      BY <3>2 DEF Buffers
    <3>4. Got(k, r)' = IF counter'[First][r].block = k THEN counter'[First][r].count ELSE 0
      BY DEF Got
    <3>5. Answers(k, r)' = replies'[k][r] + Got(k, r)'
      BY DEF Answers
    <3> QED BY <3>1, <3>3, <3>4, <3>5
  <2> DEFINE f == [m \in {} |-> First]
  <2>6. f \in [{} -> Requesters]
    OBVIOUS
  <2>7. \A r \in Requesters : Cardinality(Taken({}, f, r)) = 0
    <3>1. \A r : Taken({}, f, r) = {}
      BY DEF Taken
    <3> QED BY <3>1, FS_EmptySet
  <2> HIDE DEF f
  <2>8. Answered(k, f)'
    <3>1. Answered(k, f)' <=>
             /\ \A m \in Repliers(k)' : f[m] \in Routes(k)'
             /\ \A r \in Requesters : Cardinality(Taken(Repliers(k)', f, r)) <= Answers(k, r)'
      BY DEF Answered, Taken
    <3>2. \A r \in Requesters : 0 <= Answers(k, r)'
      BY <2>5
    <3> QED BY <2>4, <2>7, <3>1, <3>2
  <2>9. \A c \in Hashes \ published : \E g \in [Repliers(c)' -> Requesters] : Answered(c, g)'
    BY <1>3, <2>2
  <2> QED BY <2>2, <2>4, <2>6, <2>8, <2>9 DEF RepliesInv
<1>6. ASSUME NEW n \in Nodes, NEW b \in Hashes, ReceivePrepare(n, b) PROVE RepliesInv'
  <2>1. /\ UNCHANGED <<blocks, prepared, replies, counter, published>> /\ Hashes' = Hashes
        /\ committed \subseteq committed'
    BY <1>6 DEF ReceivePrepare, building, Hashes
  <2>2. Underway("prepare", b, n) /\ Hears("prepare", b, n)
    BY <1>6 DEF ReceivePrepare, CanCount
  <2>3. \A c \in Hashes, m \in Nodes : heard'[m]["commit"][c] = heard[m]["commit"][c]
    BY <1>1, <2>1, <2>2, HearsFacts, HeardNumbers
  <2> QED BY <1>3, <2>1, <2>3 DEF RepliesInv
<1>7. ASSUME NEW n \in Nodes, NEW b \in Hashes, NEW r \in Requesters, ReceiveReply(n, b, r)
      PROVE  RepliesInv'
  <2>1. n = First
    BY <1>1, <1>7, QuietFacts DEF ReceiveReply, CanTakeReply
  <2> QED BY <1>1, <1>7, <2>1, ReplyAnswered
<1>8. CASE UNCHANGED vars
  BY <1>4, <1>8 DEF vars, building, messages, counting
<1>9. ASSUME NEW n \in Nodes, Works(n) PROVE RepliesInv'
  <2>1. CASE DrawBlocker(n) \/ CreateBlock(n) \/ CollectEndorsement(n)
    BY <1>4, <2>1 DEF DrawBlocker, CreateBlock, CollectEndorsement, building, messages, counting
  <2>2. ASSUME NEW b \in Hashes, AcceptPrePrepare(n, b) \/ Prepare(n, b) \/ ConfirmBlock(n, b)
        PROVE  RepliesInv'
    BY <1>4, <2>2 DEF AcceptPrePrepare, Prepare, ConfirmBlock, building, messages, counting
  <2>3. ASSUME NEW b \in Hashes, ReceiveCommit(n, b) PROVE RepliesInv'
    BY <1>1, <2>3, CommitAnswered
  <2> QED BY <1>5, <1>6, <1>7, <1>9, <2>1, <2>2, <2>3 DEF Works
<1> QED BY <1>8, <1>9, QuietSteps DEF Up

-----------------------------------------------------------------------------
(* At rest.                                                                 *)

LEMMA QuietInvInit == Init => QuietInv
<1> SUFFICES ASSUME Init PROVE QuietInv
  OBVIOUS
<1>1. Hashes = {} /\ Len(blocks) = 0 /\ First \in Nodes
  BY FirstFacts DEF Init, Hashes
<1>2. /\ packing = {} /\ preblock[First] = NoHash /\ verifying = {} /\ prepared = {}
      /\ \A n \in Nodes : chain[n] = <<>> /\ vote[n].hash = -1 /\ Height(n) = 0
  BY <1>1 DEF Init, NoVote, NoHash, Height
<1>3. schedule.height \in Nat
  BY TypeInvInit, TypeFacts, ConstantFacts DEF ScheduleRecords
<1>4. OrderInv
  <2>1. \A n \in Nodes : vote[n].hash <= Height(n) /\ vote[n].hash < schedule.height
    BY <1>2, <1>3
  <2>2. \A n \in Nodes : \A i \in DOMAIN chain[n] : chain[n][i] = i
    BY <1>2
  <2>3. Len(blocks) <= Height(First) + 1
    BY <1>1, <1>2
  <2> QED BY <1>1, <1>2, <2>1, <2>2, <2>3 DEF OrderInv
<1>5. StageInv /\ ApartInv /\ CountsInv /\ RepliesInv
  BY <1>1, <1>2 DEF Init, StageInv, ApartInv, CountsInv, RepliesInv
<1> QED BY <1>4, <1>5 DEF QuietInv

LEMMA QuietInvNext == Invariant /\ QuietInv /\ [Next]_vars => QuietInv'
<1> SUFFICES ASSUME Invariant, QuietInv, [Next]_vars, Quiet'
             PROVE  OrderInv' /\ StageInv' /\ ApartInv' /\ CountsInv' /\ RepliesInv'
  BY DEF QuietInv
<1>1. OrderInv /\ StageInv /\ ApartInv /\ CountsInv /\ RepliesInv
  BY QuietSteps DEF QuietInv
<1> QED BY <1>1, OrderNext, StageNext, ApartNext, CountsNext, RepliesNext

LEMMA QuietInvHolds == Spec => [](Invariant /\ QuietInv)
<1>1. Init => Invariant /\ QuietInv
  BY InvariantInit, QuietInvInit
<1>2. (Invariant /\ QuietInv) /\ [Next]_vars => (Invariant /\ QuietInv)'
  BY InvariantNext, QuietInvNext
<1> QED BY <1>1, <1>2, PTL DEF Spec

\* A requester for each node that replies: they are fewer, so two replies meet.
LEMMA RepliesMeet ==
    ASSUME TypeInv, NEW b \in Hashes \ published, RepliesInv, NEW U \in SUBSET Repliers(b),
           Cardinality(SendersOf("prepare", b)) < Cardinality(U)
    PROVE  \E r \in Requesters : Answers(b, r) >= 2
<1> DEFINE P == SendersOf("prepare", b)
           T == Routes(b)
<1>1. IsFiniteSet(P) /\ Cardinality(P) \in Nat
  BY SendersFacts DEF Kinds
<1>2. IsFiniteSet(T) /\ Cardinality(T) <= Cardinality(P)
  <2> DEFINE e == [p \in P |-> schedule.route[p]]
  <2>1. e \in Surjection(P, T)
    BY DEF Surjection, Routes
  <2> HIDE DEF e, P, T
  <2> QED BY <1>1, <2>1, FS_Surjection
<1>3. U \in SUBSET Nodes /\ IsFiniteSet(U) /\ Cardinality(U) \in Nat
  <2>1. U \in SUBSET Nodes
    BY DEF Repliers
  <2> QED BY <2>1, ConstantFacts, FS_Subset, FS_CardinalityType
<1>4. Cardinality(T) < Cardinality(U)
  <2>1. Cardinality(T) \in Nat
    BY <1>2, FS_CardinalityType
  <2>2. \A i, j, k \in Nat : i <= j /\ j < k => i < k
    OBVIOUS
  <2> QED BY <1>1, <1>2, <1>3, <2>1, <2>2
<1>5. PICK f \in [Repliers(b) -> Requesters] : Answered(b, f)
  BY DEF RepliesInv
<1> DEFINE g == [n \in U |-> f[n]]
<1>6. g \in [U -> T]
  BY <1>5 DEF Answered
<1>7. \E x, y \in U : x # y /\ g[x] = g[y]
  <2> HIDE DEF g, T
  <2> QED BY <1>2, <1>3, <1>4, <1>6, FS_PigeonHole
<1>8. PICK x \in U, y \in U : x # y /\ f[x] = f[y]
  BY <1>7
<1> DEFINE S == Taken(Repliers(b), f, f[x])
<1>9. {x, y} \subseteq S /\ S \in SUBSET Nodes
  BY <1>8 DEF Taken, Repliers
<1>10. Cardinality({x} \cup {y}) = 2
  <2>1. IsFiniteSet({x}) /\ Cardinality({x}) = 1
    BY FS_Singleton
  <2>2. y \notin {x}
    BY <1>8
  <2>3. Cardinality({x} \cup {y}) = Cardinality({x}) + 1
    BY <2>1, <2>2, FS_AddElement
  <2> QED BY <2>1, <2>3
<1>11. Cardinality(S) \in Nat /\ Cardinality(S) >= 2
  <2>1. {x} \cup {y} \in SUBSET Nodes /\ {x} \cup {y} \subseteq S
    BY <1>9
  <2> HIDE DEF S
  <2>2. Cardinality({x} \cup {y}) <= Cardinality(S) /\ Cardinality(S) \in Nat
    BY <1>9, <2>1, MoreIsMore
  <2> QED BY <1>10, <2>2
<1>12. f[x] \in Requesters /\ Cardinality(S) <= Answers(b, f[x])
  BY <1>5, <1>8 DEF Answered
<1>13. Answers(b, f[x]) \in Nat
  BY <1>12, AnswerNumbers
<1> HIDE DEF S
<1>14. Answers(b, f[x]) >= 2
  BY <1>11, <1>12, <1>13
<1> QED BY <1>12, <1>14

\* Nodes that have nothing to do have stored all blocks.
LEMMA RestsHere ==
    ASSUME Invariant, QuietInv, Quiet, First \in Up, Cardinality(Up) >= 3,
           schedule.height <= MaxBlocks, \A n \in Up : ~HasWork(n)
    PROVE  \A n \in Up : Height(n) = schedule.height
<1>1. TypeInv /\ AskedInv /\ OrderInv /\ StageInv /\ CountsInv /\ RepliesInv /\ Up \subseteq Nodes
  BY DEF Invariant, CertInv, QuietInv, Up
<1> DEFINE k == Len(blocks)
           h == Height(First)
           top == schedule.height
<1>2. /\ k \in Nat /\ Hashes = 1 .. k /\ top \in Nat /\ MaxBlocks \in Nat
      /\ \A n \in Nodes : /\ Height(n) \in 0 .. k /\ Tip(n) = Height(n)
                          /\ \A i \in 1 .. Height(n) : i \in published
                          /\ vote[n].hash \in -1 .. k
      /\ NoHash = -1 /\ h \in 0 .. k /\ First \in Nodes
  BY <1>1, Numbers, FirstFacts, ConstantFacts
<1>3. \A b \in Hashes : /\ blocks[b].prev = b - 1 /\ blocks[b].height = b /\ b <= top
                        /\ blocks[b].maker = First
  BY <1>1, QuietFacts DEF OrderInv
<1>4. ASSUME NEW m \in Up, NEW n \in Up, Height(m) > Height(n) PROVE FALSE
  <2>1. PICK c \in Int : c = Height(n) + 1
    BY <1>1, <1>2
  <2>2. c \in Hashes /\ c \in 1 .. Height(m) /\ c - 1 = Height(n)
    BY <1>1, <1>2, <1>4, <2>1
  <2>3. CanStore(n, c)
    BY <1>1, <1>2, <1>3, <2>2 DEF CanStore, OnTip
  <2> QED BY <2>2, <2>3 DEF HasWork
<1>5. \A n \in Up : Height(n) = h
  <2>1. \A n \in Up : Height(n) \in Int /\ ~(Height(n) > h) /\ ~(h > Height(n))
    BY <1>1, <1>2, <1>4
  <2> QED BY <1>2, <2>1
<1> SUFFICES ASSUME h # top PROVE FALSE
  BY <1>5
<1>6. h < top
  <2>1. h > 0 => h \in Hashes
    BY <1>2
  <2> QED BY <1>2, <1>3, <2>1
<1>7. ASSUME NEW n \in Up
      PROVE  vote[n].hash = h /\ Tip(n) = h /\ BlockerAt(vote[n].index) = First
  <2>1. ~CanDraw(n)
    BY DEF HasWork
  <2>2. vote[n].hash = h /\ Tip(n) = h
    BY <1>1, <1>2, <1>5, <1>6, <2>1 DEF CanDraw
  <2>3. vote[n].hash # NoHash
    BY <1>2, <2>2
  <2>4. vote[n].index = 0
    BY <1>1, <2>3, QuietFacts
  <2> QED BY <2>2, <2>4, FirstFacts
<1>8. k = h + 1
  <2>1. k <= h + 1
    BY <1>1 DEF OrderInv
  <2>2. ASSUME k = h PROVE FALSE
    <3>1. CASE First \in packing
      <4>1. Len(blocks) < MaxBlocks /\ vote[First].hash # NoHash
        BY <1>2, <1>6, <1>7, <2>2
      <4> QED BY <3>1, <4>1 DEF HasWork, CanBuild
    <3>2. CASE First \notin packing
      <4>1. preblock[First] = IF k = 0 THEN NoHash ELSE k
        BY <1>1 DEF OrderInv
      <4>2. k # 0 => blocks[k].prev # h
        <5>1. k # 0 => k \in Hashes /\ k - 1 # h
          BY <1>2, <2>2
        <5> QED BY <1>3, <5>1
      <4>3. NeedsBlock(First)
        BY <1>7, <4>1, <4>2 DEF NeedsBlock
      <4> QED BY <1>7, <3>2, <4>3 DEF HasWork, CanCreate
    <3> QED BY <3>1, <3>2
  <2> QED BY <1>2, <2>1, <2>2
<1>9. PICK b \in Hashes : b = k /\ b - 1 = h /\ b \in Int
  <2>1. k \in Hashes /\ k - 1 = h /\ k \in Int
    BY <1>2, <1>8
  <2> QED BY <2>1
<1> HIDE DEF k, h, top
<1>10. b \notin published
  <2>1. OnTip(b, First)
    BY <1>3, <1>7, <1>9 DEF OnTip
  <2> QED BY <2>1 DEF HasWork, CanStore
<1>11. \A n \in Up : Agrees(n, b)
  BY <1>3, <1>7, <1>9 DEF Agrees
<1>12. ASSUME NEW n \in Up, n # First PROVE <<b, n>> \in prepared
  <2>1. collect[First] # b
    BY <1>1, HashFacts DEF HasWork
  <2>2. <<b, n>> \in waiting \cup verifying \cup prepared
    BY <1>1, <1>12, <2>1 DEF StageInv
  <2>3. <<b, n>> \notin waiting
    <3>1. ~CanAccept(n, b)
      BY DEF HasWork
    <3>2. blocks[b].height <= Height(n) + 1
      BY <1>3, <1>5, <1>9
    <3> QED BY <1>11, <3>1, <3>2 DEF CanAccept
  <2>4. <<b, n>> \notin verifying
    BY DEF HasWork
  <2> QED BY <2>2, <2>3, <2>4
<1>13. ASSUME NEW n \in Up, NEW kind \in Kinds
       PROVE  heard[n][kind][b] = Cardinality(SendersOf(kind, b))
  <2>1. heard[n][kind][b] \in 0 .. Cardinality(SendersOf(kind, b))
    BY <1>1, HashFacts, TypeFacts DEF HeardBound
  <2>2. ~(heard[n][kind][b] < Cardinality(SendersOf(kind, b)))
    BY <1>11 DEF HasWork, CanCount, Underway, Kinds
  <2>3. Cardinality(SendersOf(kind, b)) \in Nat
    BY SendersFacts
  <2> QED BY <2>1, <2>2, <2>3
<1>14. SendersOf("prepare", b) = Up \ {First}
  <2>1. \A n \in SendersOf("prepare", b) : n \in Up /\ n # First
    <3> TAKE n \in SendersOf("prepare", b)
    <3>1. <<b, n>> \in prepared
      BY DEF SendersOf
    <3>2. \A v \in prepared : v[2] \in Up /\ v[2] # blocks[v[1]].maker
      BY <1>1 DEF StageInv, AskedInv
    <3> QED BY <1>3, <3>1, <3>2
  <2>2. \A n \in Up \ {First} : n \in SendersOf("prepare", b)
    BY <1>1, <1>12 DEF SendersOf
  <2> QED BY <2>1, <2>2
<1>15. /\ Cardinality(SendersOf("prepare", b)) >= 2 /\ Cardinality(Up) \in Nat
       /\ Cardinality(SendersOf("prepare", b)) < Cardinality(Up)
  <2>1. IsFiniteSet(Up) /\ Cardinality(Up) \in Nat
    BY <1>1, ConstantFacts, FS_Subset, FS_CardinalityType
  <2>2. Cardinality(Up \ {First}) = Cardinality(Up) - 1
    BY <2>1, FS_RemoveElement
  <2> QED BY <1>14, <2>1, <2>2
<1>16. Up \subseteq SendersOf("commit", b)
  <2> SUFFICES ASSUME NEW n \in Up PROVE <<b, n>> \in committed
    BY <1>1 DEF SendersOf
  <2>1. heard[n]["prepare"][b] >= 2
    BY <1>13, <1>15 DEF Kinds
  <2> QED BY <1>1, <2>1 DEF CountsInv, PrepareCounts
<1>17. Up \in SUBSET Repliers(b)
  <2>1. Cardinality(SendersOf("commit", b)) >= 3
    <3>1. Up \in SUBSET Nodes /\ SendersOf("commit", b) \in SUBSET Nodes
      BY <1>1 DEF SendersOf
    <3>2. /\ Cardinality(Up) <= Cardinality(SendersOf("commit", b))
          /\ Cardinality(SendersOf("commit", b)) \in Nat
      BY <1>16, <3>1, MoreIsMore
    <3> QED BY <1>15, <3>2
  <2> QED BY <1>1, <1>13, <2>1 DEF Repliers, Kinds
<1>18. PICK r \in Requesters : Answers(b, r) >= 2
  BY <1>1, <1>10, <1>15, <1>17, RepliesMeet
<1>19. replies[b][r] \in Nat /\ ~(replies[b][r] > 0) /\ Got(b, r) \in 0 .. 1
  BY <1>1, <1>3, AnswerNumbers DEF HasWork, CanTakeReply
<1> QED BY <1>18, <1>19 DEF Answers

\* If nobody times out or restarts, no message is passed over and no late reply wipes a
\* count, the nodes do not come to rest before all that are up have stored the blocks of the
\* schedule: for any number of nodes, any that are down, the first and two more excepted,
\* any distribution of the requesters and any order of what the nodes do.
THEOREM RestsCorrect ==
    ASSUME \A s \in Schedules : /\ s.height <= MaxBlocks /\ Order[1] \notin s.down
                                /\ Cardinality(Nodes \ s.down) >= 3
    PROVE  Spec => []RestsWhenDone
<1>1. Invariant /\ QuietInv => RestsWhenDone
  <2> SUFFICES ASSUME Invariant, QuietInv, Quiet, \A n \in Up : ~HasWork(n)
               PROVE  \A n \in Up : Height(n) = schedule.height
    BY DEF RestsWhenDone
  <2>1. schedule \in Schedules
    BY TypeFacts DEF Invariant
  <2>2. First \in Up /\ Cardinality(Up) >= 3 /\ schedule.height <= MaxBlocks
    BY <2>1, FirstFacts DEF First, Up
  <2> QED BY <2>2, RestsHere
<1> QED BY <1>1, QuietInvHolds, PTL

-----------------------------------------------------------------------------
(* Work is used up.                                                         *)

\* What has been done: heights drawn at by each node, blocks begun by the first, blocks it
\* has given to the collector, pre-prepares accepted and verified, messages heard, and
\* blocks stored.  All of these are parts of finite sets.
Drawn == {v \in Nodes \X (0 .. MaxBlocks) : v[2] <= vote[v[1]].hash}
Begun == Hashes \cup IF First \in packing THEN {Len(blocks) + 1} ELSE {}
Collected == {b \in Hashes : collect[First] # b}
Accepted == {v \in Collected \X Nodes : v \notin waiting}
Verified == {v \in Accepted : v \notin verifying}
Received ==
    {v \in Nodes \X Kinds \X AllHashes \X (1 .. Cardinality(Nodes)) :
        v[4] <= heard[v[1]][v[2]][v[3]]}
Stored == {v \in Nodes \X AllHashes : v[2] <= Height(v[1])}

Done == <<Drawn, Begun, Hashes, Collected, Accepted, Verified, Received, Stored>>

\* A step does something more, and undoes nothing; or it takes a reply.
UsesUp ==
    /\ \A i \in 1 .. 8 : Done[i] \subseteq Done'[i]
    /\ \/ Done' # Done
       \/ /\ \A b \in AllHashes, r \in Requesters : replies'[b][r] <= replies[b][r]
          /\ replies' # replies

LEMMA UsesUpStep ==
    ASSUME Invariant, QuietInv, [Next]_vars, ~UNCHANGED vars, Quiet'
    PROVE  UsesUp
<1> DEFINE Grow == /\ Drawn \subseteq Drawn' /\ Begun \subseteq Begun' /\ Hashes \subseteq Hashes'
                   /\ Collected \subseteq Collected' /\ Accepted \subseteq Accepted'
                   /\ Verified \subseteq Verified' /\ Received \subseteq Received'
                   /\ Stored \subseteq Stored'
           More == \/ Drawn' # Drawn \/ Begun' # Begun \/ Hashes' # Hashes
                   \/ Collected' # Collected \/ Accepted' # Accepted \/ Verified' # Verified
                   \/ Received' # Received \/ Stored' # Stored
           Less == /\ \A b \in AllHashes, r \in Requesters : replies'[b][r] <= replies[b][r]
                   /\ replies' # replies
<1>1. TypeInv /\ Quiet /\ OrderInv /\ StageInv /\ ApartInv
  BY QuietSteps DEF Invariant, QuietInv
<1>2. /\ Len(blocks) \in Nat /\ Hashes = 1 .. Len(blocks) /\ NoHash = -1 /\ First \in Nodes
      /\ \A n \in Nodes : /\ Height(n) \in 0 .. Len(blocks) /\ Tip(n) = Height(n)
                          /\ vote[n].hash \in -1 .. Len(blocks)
      /\ MaxBlocks \in Nat /\ Len(blocks) <= MaxBlocks /\ Hashes \subseteq AllHashes
      /\ packing \subseteq {First} /\ collect \in [Nodes -> Hashes \cup {NoHash}]
      /\ \A n \in Nodes : collect[n] # NoHash => n = First /\ collect[n] \in Hashes
      /\ waiting \subseteq Hashes \X Nodes /\ verifying \subseteq Hashes \X Nodes
  BY <1>1, Numbers, FirstFacts, ConstantFacts, QuietFacts, TypeFacts, HashFacts
\* What does not change is not undone.
<1>3. /\ UNCHANGED blocks => Hashes' = Hashes
      /\ UNCHANGED vote => Drawn' = Drawn
      /\ UNCHANGED <<blocks, packing>> => Begun' = Begun
      /\ UNCHANGED <<blocks, collect>> => Collected' = Collected
      /\ UNCHANGED <<blocks, collect, waiting>> => Accepted' = Accepted
      /\ UNCHANGED <<blocks, collect, waiting, verifying>> => Verified' = Verified
      /\ UNCHANGED heard => Received' = Received
      /\ UNCHANGED chain => Stored' = Stored
  BY DEF Hashes, Drawn, Begun, Collected, Accepted, Verified, Received, Stored, Height
<1>4. Grow /\ (More \/ Less) => UsesUp
  <2>1. \A i \in 1 .. 8 : i \in {1, 2, 3, 4, 5, 6, 7, 8}
    OBVIOUS
  <2>2. Grow => \A i \in 1 .. 8 : Done[i] \subseteq Done'[i]
    BY <2>1 DEF Done
  <2>3. More => Done' # Done
    BY DEF Done
  <2> QED BY <2>2, <2>3 DEF UsesUp
<1>5. ASSUME NEW n \in Nodes, DrawBlocker(n) PROVE Grow /\ More
  <2>1. /\ UNCHANGED <<blocks, packing, collect, waiting, verifying, heard, chain>>
        /\ vote'[n].hash = Height(n) /\ vote[n].hash # Height(n)
        /\ \A m \in Nodes \ {n} : vote'[m] = vote[m]
    BY <1>1, <1>2, <1>5, DrawFacts DEF DrawBlocker, building, messages, counting
  <2>2. vote[n].hash < Height(n) /\ Height(n) \in 0 .. MaxBlocks
    <3>1. vote[n].hash <= Height(n)
      BY <1>1 DEF OrderInv
    <3> QED BY <1>2, <2>1, <3>1
  <2>3. Drawn \subseteq Drawn'
    <3>1. \A m \in Nodes : \A h \in 0 .. MaxBlocks : h <= vote[m].hash => h <= vote'[m].hash
      BY <1>2, <2>1, <2>2
    <3> QED BY <3>1 DEF Drawn
  <2>4. <<n, Height(n)>> \in Drawn' /\ <<n, Height(n)>> \notin Drawn
    BY <1>2, <2>1, <2>2 DEF Drawn
  <2> QED BY <1>3, <2>1, <2>3, <2>4
<1>6. ASSUME NEW n \in Nodes, CreateBlock(n) PROVE Grow /\ More
  <2>1. /\ UNCHANGED <<blocks, vote, collect, waiting, verifying, heard, chain>>
        /\ packing' = packing \cup {n} /\ n \notin packing
        /\ vote[n].hash = Tip(n) /\ BlockerAt(vote[n].index) = n
    BY <1>6 DEF CreateBlock, CanCreate, messages, counting
  <2>2. n = First
    <3>1. vote[n].hash # NoHash
      BY <1>2, <2>1
    <3> QED BY <1>1, <2>1, <3>1, QuietFacts, FirstFacts
  <2>3. Begun' = Begun \cup {Len(blocks) + 1} /\ Len(blocks) + 1 \notin Begun
    <3>1. Len(blocks) + 1 \notin Hashes
      BY <1>2
    <3> QED BY <1>3, <2>1, <2>2, <3>1 DEF Begun
  <2> QED BY <1>3, <2>1, <2>3
<1>7. ASSUME NEW n \in Nodes, BuildBlock(n) PROVE Grow /\ More
  <2>1. PICK k \in Int : k = Len(blocks) + 1
    BY <1>2
  <2>2. /\ n \in packing /\ k \notin Hashes /\ Hashes' = Hashes \cup {k}
        /\ collect' = [collect EXCEPT ![n] = k]
        /\ UNCHANGED <<vote, waiting, verifying, heard, chain>>
    BY <1>1, <1>7, <2>1, BuildFacts DEF messages, counting
  <2>3. n = First /\ collect'[First] = k
    BY <1>2, <2>2
  <2>4. Begun \subseteq Begun'
    BY <2>1, <2>2 DEF Begun
  <2>5. Collected \subseteq Collected'
    BY <2>2, <2>3 DEF Collected
  <2>6. Accepted \subseteq Accepted' /\ Verified \subseteq Verified'
    BY <2>2, <2>5 DEF Accepted, Verified
  <2> QED BY <1>3, <2>2, <2>4, <2>5, <2>6
<1>8. ASSUME NEW n \in Nodes, CollectEndorsement(n) PROVE Grow /\ More
  <2>1. PICK b : b = collect[n]
    OBVIOUS
  <2>2. b # NoHash /\ n = First /\ b \in Hashes
    BY <1>2, <1>8, <2>1 DEF CollectEndorsement
  <2>3. /\ collect' = [collect EXCEPT ![n] = NoHash]
        /\ UNCHANGED <<blocks, packing, vote, verifying, heard, chain>>
        /\ \A v \in waiting' : v \in waiting \/ v[1] = b
    BY <1>8, <2>1 DEF CollectEndorsement, counting
  <2>4. Hashes' = Hashes /\ collect'[First] = NoHash /\ NoHash \notin Hashes
    BY <1>2, <1>3, <2>2, <2>3
  <2>5. Collected \subseteq Collected' /\ b \in Collected' /\ b \notin Collected
    BY <2>1, <2>2, <2>4 DEF Collected
  <2>6. Accepted \subseteq Accepted'
    <3>1. \A v \in Accepted : v[1] # b
      BY <2>5 DEF Accepted
    <3> QED BY <2>3, <2>5, <3>1 DEF Accepted
  <2>7. Verified \subseteq Verified'
    BY <2>3, <2>6 DEF Verified
  <2> QED BY <1>3, <2>3, <2>5, <2>6, <2>7
<1>9. ASSUME NEW n \in Nodes, NEW b \in Hashes, <<b, n>> \in waiting \cup verifying
      PROVE  <<b, n>> \in Collected \X Nodes
  <2>1. PICK v \in waiting \cup verifying : v = <<b, n>> /\ v[1] = b
    BY <1>9
  <2>2. collect[First] = b => \A w \in waiting \cup verifying \cup prepared : w[1] # b
    BY <1>1 DEF StageInv
  <2>3. collect[First] # b
    BY <2>1, <2>2
  <2> QED BY <2>3 DEF Collected
<1>10. ASSUME NEW n \in Nodes, NEW b \in Hashes, AcceptPrePrepare(n, b) PROVE Grow /\ More
  <2>1. /\ UNCHANGED <<blocks, packing, collect, vote, heard, chain>>
        /\ <<b, n>> \in waiting /\ waiting' = waiting \ {<<b, n>>}
        /\ verifying' = verifying \cup {<<b, n>>}
    BY <1>10 DEF AcceptPrePrepare, CanAccept, building, counting
  <2>2. Collected' = Collected
    BY <1>3, <2>1
  <2>3. Accepted \subseteq Accepted' /\ <<b, n>> \in Accepted' /\ <<b, n>> \notin Accepted
    BY <1>9, <2>1, <2>2 DEF Accepted
  <2>4. Verified \subseteq Verified'
    BY <2>1, <2>3 DEF Verified
  <2> QED BY <1>3, <2>1, <2>3, <2>4
<1>11. ASSUME NEW n \in Nodes, NEW b \in Hashes, Prepare(n, b) PROVE Grow /\ More
  <2>1. /\ UNCHANGED <<blocks, packing, collect, vote, waiting, heard, chain>>
        /\ <<b, n>> \in verifying /\ verifying' = verifying \ {<<b, n>>}
    BY <1>11 DEF Prepare, building, counting
  <2>2. Accepted' = Accepted /\ <<b, n>> \in Accepted
    BY <1>1, <1>3, <1>9, <2>1 DEF Accepted, ApartInv
  <2>3. Verified \subseteq Verified' /\ <<b, n>> \in Verified' /\ <<b, n>> \notin Verified
    BY <2>1, <2>2 DEF Verified
  <2> QED BY <1>3, <2>1, <2>2, <2>3
<1>12. ASSUME NEW n \in Nodes, NEW b \in Hashes, NEW kind \in Kinds,
              Underway(kind, b, n), Hears(kind, b, n), prepared' = prepared,
              committed \subseteq committed',
              UNCHANGED <<blocks, packing, collect, vote, waiting, verifying, chain>>
       PROVE  Grow /\ More
  <2>1. b \in AllHashes /\ heard \in HeardFunctions /\ heard' \in HeardFunctions
        /\ heard'[n][kind][b] = heard[n][kind][b] + 1
        /\ \A m \in Nodes, k \in Kinds, c \in AllHashes : heard[m][k][c] <= heard'[m][k][c]
    BY <1>1, <1>2, <1>12, HearsFacts, TypeFacts
  <2>2. Received \subseteq Received'
    <3>1. \A m \in Nodes, k \in Kinds, c \in AllHashes :
              heard[m][k][c] \in Int /\ heard'[m][k][c] \in Int
      BY <2>1 DEF HeardFunctions
    <3>2. \A i, x, y \in Int : i <= x /\ x <= y => i <= y
      OBVIOUS
    <3>3. \A m \in Nodes, k \in Kinds, c \in AllHashes, i \in 1 .. Cardinality(Nodes) :
              i <= heard[m][k][c] => i <= heard'[m][k][c]
      BY <2>1, <3>1, <3>2
    <3> QED BY <3>3 DEF Received
  <2>3. PICK i \in Int : i = heard[n][kind][b] + 1
    BY <2>1 DEF HeardFunctions
  <2>4. i \in 1 .. Cardinality(Nodes)
    <3>1. SendersOf(kind, b) \in SUBSET Nodes /\ Nodes \in SUBSET Nodes
      BY DEF SendersOf
    <3>2. /\ Cardinality(SendersOf(kind, b)) <= Cardinality(Nodes)
          /\ Cardinality(SendersOf(kind, b)) \in Nat /\ Cardinality(Nodes) \in Nat
      BY <3>1, MoreIsMore
    <3>3. heard[n][kind][b] \in Nat /\ heard[n][kind][b] < Cardinality(SendersOf(kind, b))
      BY <1>12, <2>1 DEF Underway, HeardFunctions
    <3> QED BY <2>3, <3>2, <3>3
  <2>5. <<n, kind, b, i>> \in Received' /\ <<n, kind, b, i>> \notin Received
    <3>1. heard[n][kind][b] \in Int
      BY <2>1 DEF HeardFunctions
    <3> QED BY <2>1, <2>3, <2>4, <3>1 DEF Received
  <2> QED BY <1>3, <1>12, <2>2, <2>5
<1>13. ASSUME NEW n \in Nodes, NEW b \in Hashes, ReceivePrepare(n, b) \/ ReceiveCommit(n, b)
       PROVE  Grow /\ More
  <2>1. PICK kind \in Kinds : Underway(kind, b, n) /\ Hears(kind, b, n)
    BY <1>13 DEF ReceivePrepare, ReceiveCommit, CanCount, Kinds
  <2>2. /\ prepared' = prepared /\ committed \subseteq committed'
        /\ UNCHANGED <<blocks, packing, collect, vote, waiting, verifying, chain>>
    BY <1>13 DEF ReceivePrepare, ReceiveCommit, building
  <2> QED BY <1>12, <2>1, <2>2
<1>14. ASSUME NEW n \in Nodes, NEW b \in Hashes, ConfirmBlock(n, b) PROVE Grow /\ More
  <2>1. /\ blocks[b].prev = Tip(n)
        /\ DOMAIN chain'[n] = 1 .. Height(n) + 1 /\ chain' \in [Nodes -> Seq(Hashes)]
        /\ \A m \in Nodes \ {n} : chain'[m] = chain[m]
        /\ UNCHANGED <<blocks, vote, packing, preblock>>
    BY <1>1, <1>14, ConfirmFacts
  <2>2. UNCHANGED <<collect, waiting, verifying, heard>>
    BY <1>14 DEF ConfirmBlock, building, messages, counting
  <2>3. b = Height(n) + 1 /\ b \in AllHashes
    BY <1>1, <1>2, <2>1 DEF OrderInv
  <2>4. Height(n)' = b /\ \A m \in Nodes \ {n} : Height(m)' = Height(m)
    <3>1. Len(chain'[n]) \in Nat /\ DOMAIN chain'[n] = 1 .. Len(chain'[n])
      BY <2>1, LenProperties
    <3> QED BY <1>2, <2>1, <2>3, <3>1 DEF Height
  <2>5. Stored \subseteq Stored'
    <3>1. \A m \in Nodes : Height(m) \in Int /\ Height(m)' \in Int /\ Height(m) <= Height(m)'
      BY <1>2, <2>3, <2>4
    <3>2. \A i, x, y \in Int : i <= x /\ x <= y => i <= y
      OBVIOUS
    <3>3. \A m \in Nodes : \A i \in AllHashes : i <= Height(m) => i <= Height(m)'
      BY <3>1, <3>2 DEF AllHashes
    <3> QED BY <3>3 DEF Stored
  <2>6. <<n, b>> \in Stored' /\ <<n, b>> \notin Stored
    BY <1>2, <2>3, <2>4 DEF Stored
  <2> QED BY <1>3, <2>1, <2>2, <2>5, <2>6
<1>15. ASSUME NEW n \in Nodes, NEW b \in Hashes, NEW r \in Requesters, ReceiveReply(n, b, r)
       PROVE  Grow /\ Less
  <2>1. UNCHANGED <<blocks, packing, collect, vote, waiting, verifying, heard, chain>>
    BY <1>15 DEF ReceiveReply, building
  <2>2. \A c \in AllHashes, q \in Requesters : replies'[c][q] <= replies[c][q]
    BY <1>1, <1>15, ReplyHeard
  <2>3. replies' # replies
    <3>1. replies' = [replies EXCEPT ![b][r] = replies[b][r] - 1]
      BY <1>15 DEF ReceiveReply
    <3>2. replies \in [AllHashes -> [Requesters -> Nat]] /\ b \in AllHashes
      BY <1>1, TypeFacts, HashFacts
    <3>3. replies'[b][r] = replies[b][r] - 1 /\ replies[b][r] \in Nat
      BY <3>1, <3>2
    <3> QED BY <3>3
  <2> QED BY <1>3, <2>1, <2>2, <2>3
<1>16. PICK n \in Up : Works(n)
  BY QuietSteps
<1>17. Grow /\ (More \/ Less)
  <2> HIDE DEF Grow, More, Less
  <2>1. n \in Nodes
    BY DEF Up
  <2> QED BY <1>5, <1>6, <1>7, <1>8, <1>10, <1>11, <1>13, <1>14, <1>15, <1>16, <2>1 DEF Works
<1> QED BY <1>4, <1>17

\* As long as nothing goes wrong every step does something that is left to do, undoes nothing,
\* or takes a reply and gives none: no node works for ever on the same blocks.
THEOREM UsesUpCorrect == Spec => [][Quiet' => UsesUp]_vars
<1>1. Invariant /\ QuietInv /\ [Next]_vars => [Quiet' => UsesUp]_vars
  BY UsesUpStep
<1> QED BY <1>1, QuietInvHolds, PTL DEF Spec

=============================================================================
