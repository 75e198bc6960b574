----------------------------- MODULE CfrdProofs -----------------------------
(***************************************************************************)
(* The safety of CFRD, for any number of nodes, any drawing, any quorum    *)
(* mode and any schedule of time-outs, losses and restarts.                *)
(*                                                                         *)
(* Types first; then what the chains and blocks of the nodes look like     *)
(* (ChainInv), whose blocks are on their way (OwnInv), who has signed what *)
(* is published and stored (CertInv), and that a blocker sends one block   *)
(* per height (SentInv).  Invariant is their conjunction, and each theorem *)
(* at the end follows from it.                                             *)
(***************************************************************************)
EXTENDS Cfrd, FiniteSetTheorems, TLAPS

\* TypeOK is not inductive: who builds has drawn, who preloads has a block, and a
\* collector that is cleared has nobody to ask again.
StageInv ==
    \A n \in Nodes :
        /\ blocker[n].pc # "idle" => vote[n].hash # NoHash
        /\ blocker[n].pc = "preloading" => blocker[n].block # NoHash
        /\ collector[n].block = NoHash => collector[n].late = {} /\ collector[n].from = {}

TypeInv == TypeOK /\ StageInv

\* The record sets of TypeOK, by name.
BlockRecords == [prev : 0 .. MaxBlocks, height : Nat, maker : Nodes]
VoteRecords == [blocker : Nodes \cup {NoNode}, index : Nat \cup {-1},
                hash : Hashes \cup {Genesis, NoHash}, height : Nat \cup {-1}]
BlockerRecords == [pc : {"idle", "packing", "preloading"},
                   block : Hashes \cup {NoHash}, pre : Hashes \cup {NoHash},
                   index : Nat \cup {-1}]
CollectMessages == [block : Hashes, index : Nat \cup {-1}]
CollectorRecords == [block : Hashes \cup {NoHash}, index : Nat \cup {-1},
                     from : SUBSET Nodes, resends : Nat, late : SUBSET Nodes]
AskRecords == [by : Nodes, to : Nodes, block : Hashes, index : Nat \cup {-1},
               stage : {"routed", "sent", "success", "heightError",
                        "indexError", "unknown"}]
PublishedRecords == [block : Hashes, from : SUBSET Nodes]

LEMMA ConstantFacts ==
    /\ MaxBlocks \in Nat /\ ResendTimes \in Nat /\ Mode \in 1 .. 3
    /\ IsFiniteSet(Nodes) /\ NoNode \notin Nodes
    /\ Schedules \subseteq ScheduleRecords
BY CfrdAssumption DEF CfrdAssumption

LEMMA TypeFacts ==
    TypeOK <=>
        /\ blocks \in Seq(BlockRecords) /\ Len(blocks) <= MaxBlocks
        /\ chain \in [Nodes -> Seq(Hashes)]
        /\ vote \in [Nodes -> VoteRecords]
        /\ reset \in [Nodes -> BOOLEAN]
        /\ blocker \in [Nodes -> BlockerRecords]
        /\ collect \in [Nodes -> Seq(CollectMessages)]
        /\ collector \in [Nodes -> CollectorRecords]
        /\ asks \subseteq AskRecords
        /\ published \subseteq PublishedRecords
        /\ signed \in [Nodes -> SUBSET Hashes]
        /\ failures \in 0 .. schedule.failures
        /\ restarted \subseteq schedule.restart
        /\ schedule \in Schedules
BY DEF TypeOK, BlockRecords, VoteRecords, BlockerRecords, CollectMessages, CollectorRecords,
       AskRecords, PublishedRecords

\* The types of a step that builds no block.
LEMMA TypeStep ==
    ASSUME TypeOK, blocks' = blocks, schedule' = schedule,
           chain' = chain \/ chain' \in [Nodes -> Seq(Hashes)],
           vote' = vote \/ vote' \in [Nodes -> VoteRecords],
           reset' = reset \/ reset' \in [Nodes -> BOOLEAN],
           blocker' = blocker \/ blocker' \in [Nodes -> BlockerRecords],
           collect' = collect \/ collect' \in [Nodes -> Seq(CollectMessages)],
           collector' = collector \/ collector' \in [Nodes -> CollectorRecords],
           asks' = asks \/ asks' \subseteq AskRecords,
           published' = published \/ published' \subseteq PublishedRecords,
           signed' = signed \/ signed' \in [Nodes -> SUBSET Hashes],
           failures' = failures \/ failures' \in 0 .. schedule.failures,
           restarted' = restarted \/ restarted' \subseteq schedule.restart
    PROVE  TypeOK' /\ Hashes' = Hashes
<1>1. Hashes' = Hashes
  BY DEF Hashes
<1>2. /\ VoteRecords' = VoteRecords /\ BlockerRecords' = BlockerRecords
      /\ CollectMessages' = CollectMessages /\ CollectorRecords' = CollectorRecords
      /\ AskRecords' = AskRecords /\ PublishedRecords' = PublishedRecords
      /\ BlockRecords' = BlockRecords
  BY <1>1 DEF BlockRecords, VoteRecords, BlockerRecords, CollectMessages, CollectorRecords,
              AskRecords, PublishedRecords
<1>3. (TypeOK)' <=>
        /\ blocks' \in Seq(BlockRecords') /\ Len(blocks') <= MaxBlocks
        /\ chain' \in [Nodes -> Seq(Hashes')]
        /\ vote' \in [Nodes -> VoteRecords']
        /\ reset' \in [Nodes -> BOOLEAN]
        /\ blocker' \in [Nodes -> BlockerRecords']
        /\ collect' \in [Nodes -> Seq(CollectMessages')]
        /\ collector' \in [Nodes -> CollectorRecords']
        /\ asks' \subseteq AskRecords'
        /\ published' \subseteq PublishedRecords'
        /\ signed' \in [Nodes -> SUBSET Hashes']
        /\ failures' \in 0 .. schedule'.failures
        /\ restarted' \subseteq schedule'.restart
        /\ schedule' \in Schedules
  BY DEF TypeOK, BlockRecords, VoteRecords, BlockerRecords, CollectMessages, CollectorRecords,
         AskRecords, PublishedRecords
<1> QED BY <1>1, <1>2, <1>3, TypeFacts

LEMMA TipType ==
    ASSUME TypeOK, NEW n \in Nodes
    PROVE  /\ Tip(n) \in Hashes \cup {Genesis} /\ Tip(n) # NoHash
           /\ Height(n) \in Nat /\ Tip(n) \in 0 .. MaxBlocks
<1>1. chain[n] \in Seq(Hashes) /\ Hashes \subseteq 0 .. MaxBlocks /\ NoHash \notin Hashes
  <2>1. Len(blocks) \in Nat /\ Len(blocks) <= MaxBlocks /\ MaxBlocks \in Nat
    BY TypeFacts, ConstantFacts
  <2> QED BY <2>1, TypeFacts DEF Hashes, NoHash
<1>2. Height(n) \in Nat
  BY <1>1 DEF Height
<1>3. CASE chain[n] = <<>>
  BY <1>2, <1>3, ConstantFacts DEF Tip, Genesis, NoHash
<1>4. CASE chain[n] # <<>>
  <2>1. chain[n][Len(chain[n])] \in Hashes
    BY <1>1, <1>4
  <2>2. Tip(n) \in Hashes
    BY <1>4, <2>1 DEF Tip, Height
  <2> QED BY <1>1, <1>2, <2>2
<1> QED BY <1>3, <1>4

LEMMA ElectType ==
    ASSUME TypeOK, NEW n \in Nodes, NEW i \in Nat, Elect(n, i)
    PROVE  /\ vote' \in [Nodes -> VoteRecords]
           /\ vote' = [vote EXCEPT ![n] = vote'[n]]
           /\ vote'[n].blocker = CandidateAt(Tip(n), i) /\ vote'[n].index = i
           /\ vote'[n].hash = Tip(n) /\ vote'[n].height = Height(n)
<1>1. Candidators(Tip(n)) \in Seq(Nodes) /\ Candidators(Tip(n)) # <<>>
  BY TipType, CfrdAssumption DEF CfrdAssumption
<1>2. CandidateAt(Tip(n), i) \in Nodes
  <2> DEFINE c == Candidators(Tip(n))
  <2>1. c \in Seq(Nodes) /\ Len(c) \in Nat \ {0}
    BY <1>1
  <2>2. (i % Len(c)) + 1 \in 1 .. Len(c)
    BY <2>1
  <2> QED BY <2>1, <2>2 DEF CandidateAt
<1>3. [blocker |-> CandidateAt(Tip(n), i), index |-> i, hash |-> Tip(n), height |-> Height(n)]
          \in VoteRecords
  BY <1>2, TipType DEF VoteRecords
<1> QED
  BY <1>3, TypeFacts DEF Elect

LEMMA VoterElects ==
    ASSUME TypeInv, NEW n \in Nodes, Voter(n)
    PROVE  \E i \in Nat : Elect(n, i)
<1>1. vote[n].index \in Nat \cup {-1}
  BY TypeFacts DEF TypeInv, VoteRecords
<1>2. vote[n].index + 1 \in Nat
  BY <1>1
<1> QED BY <1>2 DEF Voter, DrawBlocker, BlockTimeout, ResetVote

LEMMA TypeVoter ==
    ASSUME TypeInv, NEW n \in Nodes, Voter(n), schedule' = schedule
    PROVE  TypeInv'
<1>1. PICK i \in Nat : Elect(n, i)
  BY VoterElects
<1>2. UNCHANGED <<blocks, chain, blocker, collect, collector, asks, published, signed, noise>>
  BY DEF Voter, DrawBlocker, BlockTimeout, ResetVote
<1>3. reset' \in [Nodes -> BOOLEAN]
  BY TypeFacts DEF Voter, DrawBlocker, BlockTimeout, ResetVote, TypeInv
<1>4. TypeOK'
  BY <1>1, <1>2, <1>3, ElectType, TypeStep DEF TypeInv, noise
<1>5. StageInv'
  <2>1. vote \in [Nodes -> VoteRecords]
    BY TypeFacts DEF TypeInv
  <2>2. vote' = [vote EXCEPT ![n] = vote'[n]] /\ vote'[n].hash # NoHash
    BY <1>1, ElectType, TipType DEF TypeInv
  <2>3. \A m \in Nodes : vote'[m].hash = NoHash => vote[m].hash = NoHash
    BY <2>1, <2>2
  <2> QED BY <1>2, <2>3 DEF TypeInv, StageInv
<1> QED BY <1>4, <1>5 DEF TypeInv

LEMMA TypeCreateBlock ==
    ASSUME TypeInv, NEW n \in Nodes, CreateBlock(n), schedule' = schedule
    PROVE  TypeInv'
<1>1. blocker' \in [Nodes -> BlockerRecords]
  BY TypeFacts DEF TypeInv, CreateBlock, BlockerRecords
<1>2. TypeOK'
  BY <1>1, TypeStep DEF TypeInv, CreateBlock, noise
<1>3. StageInv'
  BY TypeFacts, TipType DEF TypeInv, CreateBlock, StageInv, BlockerRecords
<1> QED BY <1>2, <1>3 DEF TypeInv

LEMMA TypeCollectAgain ==
    ASSUME TypeInv, NEW n \in Nodes, CollectAgain(n), schedule' = schedule
    PROVE  TypeInv'
<1>1. vote[n].index \in Nat \cup {-1} /\ blocker[n].pre \in Hashes
  BY TypeFacts DEF TypeInv, CollectAgain, NeedsBlock, VoteRecords, BlockerRecords
<1>2. blocker' \in [Nodes -> BlockerRecords]
  BY <1>1, TypeFacts DEF TypeInv, CollectAgain, BlockerRecords
<1>3. collect' \in [Nodes -> Seq(CollectMessages)]
  <2>1. [block |-> blocker[n].pre, index |-> vote[n].index] \in CollectMessages
    BY <1>1 DEF CollectMessages
  <2> QED BY <2>1, TypeFacts DEF TypeInv, CollectAgain
<1>4. TypeOK'
  BY <1>2, <1>3, TypeStep DEF TypeInv, CollectAgain, noise
<1>5. StageInv'
  BY TypeFacts DEF TypeInv, CollectAgain, StageInv, BlockerRecords
<1> QED BY <1>4, <1>5 DEF TypeInv

LEMMA TypeFinishBlock ==
    ASSUME TypeInv, NEW n \in Nodes, FinishBlock(n), schedule' = schedule
    PROVE  TypeInv'
<1>1. vote[n].index \in Nat \cup {-1} /\ blocker[n].block \in Hashes
  BY TypeFacts DEF TypeInv, StageInv, FinishBlock, VoteRecords, BlockerRecords
<1>2. blocker' \in [Nodes -> BlockerRecords]
  BY <1>1, TypeFacts DEF TypeInv, FinishBlock, IdleBlocker, BlockerRecords
<1>3. collect' \in [Nodes -> Seq(CollectMessages)]
  <2>1. [block |-> blocker[n].block, index |-> vote[n].index] \in CollectMessages
    BY <1>1 DEF CollectMessages
  <2> QED BY <2>1, TypeFacts DEF TypeInv, FinishBlock
<1>4. TypeOK'
  BY <1>2, <1>3, TypeStep DEF TypeInv, FinishBlock, noise
<1>5. StageInv'
  BY TypeFacts DEF TypeInv, FinishBlock, IdleBlocker, StageInv, BlockerRecords
<1> QED BY <1>4, <1>5 DEF TypeInv

LEMMA TypeGiveUpBlock ==
    ASSUME TypeInv, NEW n \in Nodes, GiveUpBlock(n), schedule' = schedule
    PROVE  TypeInv'
<1>1. failures' \in 0 .. schedule.failures
  BY TypeFacts, ConstantFacts DEF TypeInv, GiveUpBlock, OneFailure, ScheduleRecords
<1>2. blocker' \in [Nodes -> BlockerRecords]
  BY TypeFacts DEF TypeInv, GiveUpBlock, BlockerRecords
<1>3. TypeOK'
  BY <1>1, <1>2, TypeStep DEF TypeInv, GiveUpBlock, OneFailure
<1>4. StageInv'
  BY TypeFacts DEF TypeInv, GiveUpBlock, StageInv, BlockerRecords
<1> QED BY <1>3, <1>4 DEF TypeInv

\* The record of one collector is replaced.
LEMMA CollectorStep ==
    ASSUME TypeInv, NEW n \in Nodes, NEW c \in CollectorRecords,
           c.block = NoHash => c.late = {} /\ c.from = {}
    PROVE  /\ [collector EXCEPT ![n] = c] \in [Nodes -> CollectorRecords]
           /\ \A m \in Nodes : [collector EXCEPT ![n] = c][m].block = NoHash =>
                 /\ [collector EXCEPT ![n] = c][m].late = {}
                 /\ [collector EXCEPT ![n] = c][m].from = {}
<1>1. collector \in [Nodes -> CollectorRecords]
  BY TypeFacts DEF TypeInv
<1>2. \A m \in Nodes : collector[m].block = NoHash =>
          collector[m].late = {} /\ collector[m].from = {}
  BY DEF TypeInv, StageInv
<1> QED BY <1>1, <1>2

LEMMA IdleCollectorType ==
    IdleCollector \in CollectorRecords /\ IdleCollector.late = {} /\ IdleCollector.from = {}
BY DEF IdleCollector, CollectorRecords

LEMMA TypeCollectEndorsement ==
    ASSUME TypeInv, NEW n \in Nodes, CollectEndorsement(n), schedule' = schedule
    PROVE  TypeInv'
<1> DEFINE m == Head(collect[n])
<1>1. m \in CollectMessages /\ Tail(collect[n]) \in Seq(CollectMessages)
  BY TypeFacts DEF TypeInv, CollectEndorsement
<1>2. collect' \in [Nodes -> Seq(CollectMessages)]
  BY <1>1, TypeFacts DEF TypeInv, CollectEndorsement
<1>3. [IdleCollector EXCEPT !.block = m.block, !.index = m.index] \in CollectorRecords
  BY <1>1 DEF IdleCollector, CollectMessages, CollectorRecords
<1>4. Requests(n, m.block, m.index, Nodes) \subseteq AskRecords
  BY <1>1 DEF Requests, CollectMessages, AskRecords
<1>5. \/ collector' = collector
      \/ collector' = [collector EXCEPT ![n] =
                          [IdleCollector EXCEPT !.block = m.block, !.index = m.index]]
  BY DEF CollectEndorsement
<1> HIDE DEF m
<1>8. /\ collector' \in [Nodes -> CollectorRecords]
      /\ \A k \in Nodes : collector'[k].block = NoHash =>
             collector'[k].late = {} /\ collector'[k].from = {}
  <2>1. /\ [IdleCollector EXCEPT !.block = m.block, !.index = m.index].late = {}
        /\ [IdleCollector EXCEPT !.block = m.block, !.index = m.index].from = {}
    BY DEF IdleCollector
  <2>2. /\ collector \in [Nodes -> CollectorRecords]
        /\ \A k \in Nodes : collector[k].block = NoHash =>
              collector[k].late = {} /\ collector[k].from = {}
    BY TypeFacts DEF TypeInv, StageInv
  <2> QED BY <1>3, <1>5, <2>1, <2>2, CollectorStep
<1>9. asks' \subseteq AskRecords
  BY <1>4, TypeFacts DEF TypeInv, CollectEndorsement, m
<1>6. TypeOK'
  BY <1>2, <1>8, <1>9, TypeStep DEF TypeInv, CollectEndorsement, noise
<1>7. StageInv'
  BY <1>8 DEF TypeInv, CollectEndorsement, StageInv
<1> QED BY <1>6, <1>7 DEF TypeInv

LEMMA TypeSendRequest ==
    ASSUME TypeInv, NEW a \in asks, SendRequest(a), schedule' = schedule
    PROVE  TypeInv'
<1>1. asks' \subseteq AskRecords
  BY TypeFacts DEF TypeInv, SendRequest, AskRecords
<1>2. TypeOK'
  BY <1>1, TypeStep DEF TypeInv, SendRequest, noise
<1>3. StageInv'
  BY DEF TypeInv, StageInv, SendRequest
<1> QED BY <1>2, <1>3 DEF TypeInv

LEMMA EndorsedType ==
    ASSUME TypeInv, NEW a \in asks, Counts(a), Endorsed(a)
    PROVE  /\ collector' \in [Nodes -> CollectorRecords]
           /\ published' \subseteq PublishedRecords
           /\ \A n \in Nodes : collector'[n].block = NoHash =>
                 collector'[n].late = {} /\ collector'[n].from = {}
<1>1. a \in AskRecords /\ a.by \in Nodes /\ a.to \in Nodes /\ a.block \in Hashes
  BY TypeFacts DEF TypeInv, AskRecords
<1>2. collector[a.by].block # NoHash
  BY <1>1 DEF Counts, Hashes, NoHash
<1> DEFINE c == collector[a.by]
           from == c.from \cup {a.to}
<1>3. c \in CollectorRecords /\ from \subseteq Nodes
  BY <1>1, TypeFacts DEF TypeInv, CollectorRecords
<1>4. [block |-> c.block, from |-> from \cup {a.by}] \in PublishedRecords
  BY <1>1, <1>3 DEF Counts, PublishedRecords
<1>5. published' \subseteq PublishedRecords
  BY <1>4, TypeFacts DEF TypeInv, Endorsed
<1>6. /\ [c EXCEPT !.from = from] \in CollectorRecords
      /\ [c EXCEPT !.from = from].block # NoHash
  BY <1>2, <1>3 DEF CollectorRecords
<1>7. \/ collector' = [collector EXCEPT ![a.by] = IdleCollector]
      \/ collector' = [collector EXCEPT ![a.by] = [c EXCEPT !.from = from]]
  BY DEF Endorsed
<1>8. CASE collector' = [collector EXCEPT ![a.by] = IdleCollector]
  BY <1>1, <1>5, <1>8, IdleCollectorType, CollectorStep
<1>9. CASE collector' = [collector EXCEPT ![a.by] = [c EXCEPT !.from = from]]
  <2> DEFINE d == [c EXCEPT !.from = from]
  <2> HIDE DEF d
  <2>1. d \in CollectorRecords /\ d.block # NoHash /\ collector' = [collector EXCEPT ![a.by] = d]
    BY <1>6, <1>9 DEF d
  <2> QED BY <1>1, <1>5, <2>1, CollectorStep
<1> QED BY <1>7, <1>8, <1>9

LEMMA NotedLateType ==
    ASSUME TypeInv, NEW n \in Nodes, NEW e \in Nodes
    PROVE  /\ NotedLate(n, e) \in [Nodes -> CollectorRecords]
           /\ \A m \in Nodes : NotedLate(n, e)[m].block = NoHash =>
                 NotedLate(n, e)[m].late = {} /\ NotedLate(n, e)[m].from = {}
<1> DEFINE c == [collector[n] EXCEPT !.late = @ \cup {e}]
<1>1. collector \in [Nodes -> CollectorRecords]
  BY TypeFacts DEF TypeInv
<1>2. c \in CollectorRecords /\ c.block = collector[n].block
  BY <1>1 DEF CollectorRecords
<1>3. \/ NotedLate(n, e) = collector
      \/ NotedLate(n, e) = [collector EXCEPT ![n] = c] /\ collector[n].block # NoHash
  BY DEF NotedLate
<1>4. \A m \in Nodes : collector[m].block = NoHash =>
          collector[m].late = {} /\ collector[m].from = {}
  BY DEF TypeInv, StageInv
<1> HIDE DEF c
<1> QED BY <1>1, <1>2, <1>3, <1>4, CollectorStep

LEMMA TypeAnswer ==
    ASSUME TypeInv, NEW a \in asks, Answer(a), schedule' = schedule
    PROVE  TypeInv'
<1>1. a \in AskRecords /\ a.by \in Nodes /\ a.to \in Nodes
  BY TypeFacts DEF TypeInv, AskRecords
<1>2. asks' \subseteq AskRecords /\ reset' \in [Nodes -> BOOLEAN]
  BY <1>1, TypeFacts DEF TypeInv, Answer
<1>3. \/ Counts(a) /\ Endorsed(a)
      \/ UNCHANGED <<published, collector>>
      \/ collector' = NotedLate(a.by, a.to) /\ UNCHANGED published
  BY DEF Answer
<1>4. /\ collector' = collector \/ collector' \in [Nodes -> CollectorRecords]
      /\ published' = published \/ published' \subseteq PublishedRecords
  BY <1>1, <1>3, EndorsedType, NotedLateType
<1>5. TypeOK'
  BY <1>2, <1>4, TypeStep DEF TypeInv, Answer, noise
<1>6. StageInv'
  BY <1>1, <1>3, EndorsedType, NotedLateType DEF TypeInv, StageInv, Answer
<1> QED BY <1>5, <1>6 DEF TypeInv

LEMMA TypeRequestTimeout ==
    ASSUME TypeInv, NEW a \in asks, RequestTimeout(a), schedule' = schedule
    PROVE  TypeInv'
<1>1. a.by \in Nodes /\ a.to \in Nodes
  BY TypeFacts DEF TypeInv, AskRecords
<1>2. asks' \subseteq AskRecords
  BY TypeFacts DEF TypeInv, RequestTimeout
<1>3. failures' \in 0 .. schedule.failures
  BY TypeFacts, ConstantFacts DEF TypeInv, RequestTimeout, OneFailure, ScheduleRecords
<1>4. TypeOK'
  BY <1>1, <1>2, <1>3, NotedLateType, TypeStep DEF TypeInv, RequestTimeout, OneFailure
<1>5. StageInv'
  BY <1>1, NotedLateType DEF TypeInv, StageInv, RequestTimeout
<1> QED BY <1>4, <1>5 DEF TypeInv

LEMMA TypeDelayResend ==
    ASSUME TypeInv, NEW n \in Nodes, DelayResend(n), schedule' = schedule
    PROVE  TypeInv'
<1>1. collector[n] \in CollectorRecords /\ collector[n].block \in Hashes
  BY TypeFacts DEF TypeInv, StageInv, DelayResend, CollectorRecords
<1> DEFINE again == OnTip(collector[n].block, n) /\ collector[n].resends <= ResendTimes
           r == IF again THEN collector[n].resends + 1 ELSE collector[n].resends
           c == [collector[n] EXCEPT !.late = {}, !.resends = r]
<1>2. r \in Nat
  BY <1>1 DEF CollectorRecords
<1> HIDE DEF r
<1>3. c \in CollectorRecords /\ c.block # NoHash
  <2>1. collector[n].block # NoHash
    BY DEF TypeInv, StageInv, DelayResend
  <2> QED BY <1>1, <1>2, <2>1 DEF CollectorRecords
<1>4. collector' = [collector EXCEPT ![n] = c]
  BY DEF DelayResend, r
<1> HIDE DEF c
<1>5. /\ collector' \in [Nodes -> CollectorRecords]
      /\ \A m \in Nodes : collector'[m].block = NoHash =>
             collector'[m].late = {} /\ collector'[m].from = {}
  BY <1>3, <1>4, CollectorStep
<1>6. Requests(n, collector[n].block, collector[n].index, collector[n].late) \subseteq AskRecords
  BY <1>1 DEF Requests, CollectorRecords, AskRecords
<1>7. asks' \subseteq AskRecords
  BY <1>6, TypeFacts DEF TypeInv, DelayResend
<1>8. TypeOK'
  BY <1>5, <1>7, TypeStep DEF TypeInv, DelayResend
<1>9. StageInv'
  BY <1>5 DEF TypeInv, StageInv, DelayResend
<1> QED BY <1>8, <1>9 DEF TypeInv

LEMMA TypeEndorse ==
    ASSUME TypeInv, NEW a \in asks, Endorse(a), schedule' = schedule
    PROVE  TypeInv'
<1>1. a \in AskRecords /\ a.to \in Nodes /\ a.block \in Hashes
  BY TypeFacts DEF TypeInv, AskRecords
<1>2. EndorseResult(a) \in {"success", "heightError", "indexError", "unknown"}
  BY DEF EndorseResult
<1>3. asks' \subseteq AskRecords
  BY <1>1, <1>2, TypeFacts DEF TypeInv, Endorse, AskRecords
<1>4. signed' \in [Nodes -> SUBSET Hashes] /\ reset' \in [Nodes -> BOOLEAN]
  BY <1>1, TypeFacts DEF TypeInv, Endorse
<1>5. TypeOK'
  BY <1>3, <1>4, TypeStep DEF TypeInv, Endorse, noise
<1>6. StageInv'
  BY DEF TypeInv, StageInv, Endorse
<1> QED BY <1>5, <1>6 DEF TypeInv

LEMMA TypeStore ==
    ASSUME TypeInv, NEW n \in Nodes, Storager(n), schedule' = schedule
    PROVE  TypeInv'
<1>1. PICK b \in Hashes : chain' = [chain EXCEPT ![n] = Append(@, b)]
  <2>1. ASSUME NEW m \in published, ConfirmBlock(n, m)
        PROVE  m.block \in Hashes /\ chain' = [chain EXCEPT ![n] = Append(@, m.block)]
    BY <2>1, TypeFacts DEF TypeInv, ConfirmBlock, PublishedRecords
  <2>2. ASSUME NEW m \in Nodes, Height(m) > Height(n)
        PROVE  chain[m][Height(n) + 1] \in Hashes
    BY <2>2, TypeFacts DEF TypeInv, Height
  <2> QED BY <2>1, <2>2 DEF Storager, FetchBlock
<1>2. chain' \in [Nodes -> Seq(Hashes)]
  BY <1>1, TypeFacts DEF TypeInv
<1>3. UNCHANGED <<blocks, vote, reset, blocker, collect, collector, asks, published, signed,
                  noise>>
  BY DEF Storager, FetchBlock, ConfirmBlock
<1>4. TypeOK'
  BY <1>2, <1>3, TypeStep DEF TypeInv, noise
<1>5. StageInv'
  BY <1>3 DEF TypeInv, StageInv
<1> QED BY <1>4, <1>5 DEF TypeInv

LEMMA TypeRestart ==
    ASSUME TypeInv, NEW n \in Nodes, Restart(n), schedule' = schedule
    PROVE  TypeInv'
<1>1. vote' \in [Nodes -> VoteRecords] /\ reset' \in [Nodes -> BOOLEAN]
  BY TypeFacts DEF TypeInv, Restart, NoVote, VoteRecords
<1>2. blocker' \in [Nodes -> BlockerRecords] /\ collect' \in [Nodes -> Seq(CollectMessages)]
  BY TypeFacts DEF TypeInv, Restart, IdleBlocker, BlockerRecords
<1>3. collector' \in [Nodes -> CollectorRecords] /\ asks' \subseteq AskRecords
  BY TypeFacts DEF TypeInv, Restart, IdleCollector, CollectorRecords
<1>4. restarted' \subseteq schedule.restart
  BY TypeFacts DEF TypeInv, Restart
<1>5. TypeOK'
  BY <1>1, <1>2, <1>3, <1>4, TypeStep DEF TypeInv, Restart
<1>6. StageInv'
  BY TypeFacts DEF TypeInv, StageInv, Restart, IdleBlocker, IdleCollector
<1> QED BY <1>5, <1>6 DEF TypeInv

LEMMA TypeBuildBlock ==
    ASSUME TypeInv, NEW n \in Nodes, BuildBlock(n), schedule' = schedule
    PROVE  TypeInv'
<1> DEFINE b == [prev |-> vote[n].hash, height |-> vote[n].height + 1, maker |-> n]
           k == Len(blocks) + 1
<1>1. /\ blocks \in Seq(BlockRecords) /\ Len(blocks) < MaxBlocks
      /\ Len(blocks) \in Nat /\ MaxBlocks \in Nat
  BY TypeFacts, ConstantFacts DEF TypeInv, BuildBlock
<1>2. b \in BlockRecords
  <2>1. vote[n] \in VoteRecords /\ vote[n].hash # NoHash
    BY TypeFacts DEF TypeInv, StageInv, BuildBlock
  <2>2. vote[n].hash \in 0 .. MaxBlocks
    BY <1>1, <2>1 DEF VoteRecords, Hashes, Genesis
  <2>3. vote[n].height + 1 \in Nat
    <3>1. vote[n].height \in Nat \cup {-1}
      BY <2>1 DEF VoteRecords
    <3> QED BY <3>1
  <2> QED BY <2>2, <2>3 DEF BlockRecords
<1>3. blocks' = Append(blocks, b)
  BY DEF BuildBlock
<1> HIDE DEF b
<1>4. /\ blocks' \in Seq(BlockRecords) /\ Len(blocks') = k
      /\ Hashes' = Hashes \cup {k} /\ k \in Hashes'
  BY <1>1, <1>2, <1>3 DEF Hashes
<1>5. /\ VoteRecords \subseteq VoteRecords' /\ CollectMessages \subseteq CollectMessages'
      /\ CollectorRecords \subseteq CollectorRecords' /\ AskRecords \subseteq AskRecords'
      /\ PublishedRecords \subseteq PublishedRecords' /\ BlockRecords' = BlockRecords
      /\ BlockerRecords \subseteq BlockerRecords'
  BY <1>4 DEF VoteRecords, CollectMessages, CollectorRecords, AskRecords, PublishedRecords,
              BlockRecords, BlockerRecords
<1>6. /\ vote' \in [Nodes -> VoteRecords'] /\ collector' \in [Nodes -> CollectorRecords']
      /\ asks' \subseteq AskRecords' /\ published' \subseteq PublishedRecords'
      /\ signed' \in [Nodes -> SUBSET Hashes']
  BY <1>4, <1>5, TypeFacts DEF TypeInv, BuildBlock
<1>7. chain' \in [Nodes -> Seq(Hashes')] /\ collect' \in [Nodes -> Seq(CollectMessages')]
  <2>1. Seq(Hashes) \subseteq Seq(Hashes') /\ Seq(CollectMessages) \subseteq Seq(CollectMessages')
    BY <1>4, <1>5
  <2> QED BY <2>1, TypeFacts DEF TypeInv, BuildBlock
<1>8. blocker' \in [Nodes -> BlockerRecords']
  <2>1. blocker \in [Nodes -> BlockerRecords]
    BY TypeFacts DEF TypeInv
  <2>2. [blocker[n] EXCEPT !.pc = "preloading", !.block = k] \in BlockerRecords'
    BY <1>4, <2>1 DEF BlockerRecords
  <2>3. blocker' = [blocker EXCEPT ![n] = [blocker[n] EXCEPT !.pc = "preloading", !.block = k]]
    BY <2>1 DEF BuildBlock
  <2> QED BY <1>5, <2>1, <2>2, <2>3
<1>9. TypeOK'
  <2>1. /\ reset' \in [Nodes -> BOOLEAN] /\ failures' \in 0 .. schedule'.failures
        /\ restarted' \subseteq schedule'.restart /\ schedule' \in Schedules
        /\ Len(blocks') <= MaxBlocks
    BY <1>1, <1>4, TypeFacts DEF TypeInv, BuildBlock, noise
  <2>2. blocks' \in Seq(BlockRecords')
    BY <1>4, <1>5
  <2> QED
    BY <1>6, <1>7, <1>8, <2>1, <2>2
       DEF TypeOK, BlockRecords, VoteRecords, BlockerRecords, CollectMessages,
           CollectorRecords, AskRecords, PublishedRecords
<1>10. StageInv'
  <2>1. blocker \in [Nodes -> BlockerRecords]
    BY TypeFacts DEF TypeInv
  <2>2. /\ blocker' = [blocker EXCEPT ![n].pc = "preloading", ![n].block = k]
        /\ UNCHANGED <<vote, collector>> /\ blocker[n].pc # "idle" /\ k # NoHash
    BY <1>1 DEF BuildBlock, NoHash
  <2>3. \A m \in Nodes :
           /\ blocker'[m].pc = "preloading" => blocker'[m].block # NoHash
           /\ blocker'[m].pc # "idle" => blocker[m].pc # "idle"
    BY <2>1, <2>2 DEF TypeInv, StageInv, BlockerRecords
  <2> QED BY <2>2, <2>3 DEF TypeInv, StageInv
<1> QED BY <1>9, <1>10 DEF TypeInv

LEMMA TypeInvInit == Init => TypeInv
BY ConstantFacts DEF TypeInv, TypeOK, StageInv, Init, NoVote, IdleBlocker, IdleCollector,
                     Hashes, ScheduleRecords

LEMMA TypeInvNext == TypeInv /\ [Next]_vars => TypeInv'
<1> SUFFICES ASSUME TypeInv, [Next]_vars PROVE TypeInv'
  OBVIOUS
<1>1. CASE Next
  <2>1. ASSUME NEW n \in Nodes, Blocker(n), schedule' = schedule PROVE TypeInv'
    BY <2>1, TypeCreateBlock, TypeCollectAgain, TypeBuildBlock, TypeFinishBlock, TypeGiveUpBlock
       DEF Blocker
  <2>2. ASSUME NEW n \in Nodes, Collector(n), schedule' = schedule PROVE TypeInv'
    BY <2>2, TypeCollectEndorsement, TypeDelayResend DEF Collector
  <2>3. ASSUME NEW a \in asks, Request(a), schedule' = schedule PROVE TypeInv'
    BY <2>3, TypeSendRequest, TypeEndorse, TypeAnswer, TypeRequestTimeout DEF Request
  <2> QED
    BY <1>1, <2>1, <2>2, <2>3, TypeVoter, TypeStore, TypeRestart DEF Next, Step
<1>2. CASE UNCHANGED vars
  <2>1. TypeOK'
    BY <1>2, TypeStep DEF TypeInv, vars, noise
  <2>2. StageInv'
    BY <1>2 DEF TypeInv, StageInv, vars
  <2> QED BY <2>1, <2>2 DEF TypeInv
<1> QED BY <1>1, <1>2

\* The types and stages hold in every state.
THEOREM TypeInvCorrect == Spec => []TypeInv
BY TypeInvInit, TypeInvNext, PTL DEF Spec

\* Every variable keeps its type, and every block number in a message, a chain or a
\* signature is that of a block that was built.
THEOREM TypeCorrect == Spec => []TypeOK
BY TypeInvCorrect, PTL DEF TypeInv

-----------------------------------------------------------------------------
(* Chains: heights and parents.                                             *)

\* The block at a height of a chain, the genesis block at 0.
At(c, i) == IF i = 0 THEN Genesis ELSE c[i]

\* A stored block has the height it is stored at and follows the one below it.
StoredInv ==
    \A n \in Nodes : \A i \in DOMAIN chain[n] :
        /\ blocks[chain[n][i]].height = i
        /\ blocks[chain[n][i]].prev = At(chain[n], i - 1)

\* A node has drawn from a block that it stores, at its height.
DrawnInv ==
    \A n \in Nodes : vote[n].hash # NoHash =>
        /\ vote[n].height \in 0 .. Len(chain[n])
        /\ vote[n].hash = At(chain[n], vote[n].height)

\* A block was built on one that its maker stores, at the next height.
BuiltInv ==
    \A b \in Hashes :
        /\ blocks[b].height \in 1 .. Len(chain[blocks[b].maker]) + 1
        /\ blocks[b].prev = At(chain[blocks[b].maker], blocks[b].height - 1)

ChainInv == StoredInv /\ DrawnInv /\ BuiltInv

LEMMA BlockType ==
    ASSUME TypeOK, NEW b \in Hashes
    PROVE  /\ blocks[b] \in BlockRecords /\ blocks[b].maker \in Nodes
           /\ blocks[b].prev \in 0 .. MaxBlocks /\ blocks[b].height \in Nat
<1>1. blocks \in Seq(BlockRecords)
  BY TypeFacts
<1>2. blocks[b] \in BlockRecords
  BY <1>1 DEF Hashes
<1> QED BY <1>2 DEF BlockRecords

\* What is stored when a node stores a block.
LEMMA Stores ==
    ASSUME TypeOK, NEW n \in Nodes, Storager(n)
    PROVE  /\ \E b \in Hashes :
                 /\ Fits(n, b) /\ chain' = [chain EXCEPT ![n] = Append(@, b)]
                 /\ \/ \E m \in published : b = m.block
                    \/ \E m \in Nodes : \E i \in DOMAIN chain[m] : b = chain[m][i]
           /\ UNCHANGED <<blocks, vote, reset, blocker, collect, collector, asks, published,
                          signed, noise>>
<1>1. ASSUME NEW m \in published, ConfirmBlock(n, m)
      PROVE  /\ m.block \in Hashes /\ Fits(n, m.block)
             /\ chain' = [chain EXCEPT ![n] = Append(@, m.block)]
  BY <1>1, TypeFacts DEF ConfirmBlock, PublishedRecords
<1>2. ASSUME FetchBlock(n)
      PROVE  \E b \in Hashes :
                 /\ Fits(n, b) /\ chain' = [chain EXCEPT ![n] = Append(@, b)]
                 /\ \E m \in Nodes : \E i \in DOMAIN chain[m] : b = chain[m][i]
  <2>1. PICK m \in Nodes :
          /\ Height(m) > Height(n)
          /\ Fits(n, chain[m][Height(n) + 1])
          /\ chain' = [chain EXCEPT ![n] = Append(@, chain[m][Height(n) + 1])]
    BY <1>2 DEF FetchBlock
  <2>2. Height(n) + 1 \in DOMAIN chain[m] /\ chain[m][Height(n) + 1] \in Hashes
    BY <2>1, TypeFacts DEF Height
  <2> QED BY <2>1, <2>2
<1> QED BY <1>1, <1>2 DEF Storager, FetchBlock, ConfirmBlock

\* The chain of a node with one more block.
LEMMA Extends ==
    ASSUME TypeOK, NEW n \in Nodes, NEW b \in Hashes,
           chain' = [chain EXCEPT ![n] = Append(@, b)]
    PROVE  /\ Len(chain[n]) \in Nat /\ Len(chain'[n]) = Len(chain[n]) + 1
           /\ DOMAIN chain[n] = 1 .. Len(chain[n])
           /\ DOMAIN chain'[n] = 1 .. Len(chain[n]) + 1
           /\ chain'[n][Len(chain[n]) + 1] = b
           /\ \A i \in DOMAIN chain[n] : chain'[n][i] = chain[n][i]
           /\ \A m \in Nodes \ {n} : chain'[m] = chain[m]
BY TypeFacts

LEMMA TipIsLast ==
    ASSUME TypeOK, NEW n \in Nodes
    PROVE  Tip(n) = At(chain[n], Len(chain[n]))
BY TypeFacts DEF Tip, At, Height

LEMMA ChainBasics ==
    ASSUME TypeOK, NEW n \in Nodes
    PROVE  /\ chain[n] \in Seq(Hashes) /\ Len(chain[n]) \in Nat
           /\ DOMAIN chain[n] = 1 .. Len(chain[n])
           /\ \A i \in DOMAIN chain[n] : chain[n][i] \in Hashes /\ chain[n][i] # Genesis
<1>1. chain[n] \in Seq(Hashes)
  BY TypeFacts
<1>2. Genesis \notin Hashes
  BY DEF Hashes, Genesis
<1> QED BY <1>1, <1>2

\* Which steps change a variable.
LEMMA Footprint ==
    ASSUME [Next]_vars
    PROVE  /\ blocks' = blocks \/ \E n \in Nodes : BuildBlock(n)
           /\ chain' = chain \/ \E n \in Nodes : Storager(n)
           /\ vote' = vote \/ \E n \in Nodes : Voter(n) \/ Restart(n)
           /\ signed' = signed \/ \E a \in asks : Endorse(a)
           /\ published' = published \/ \E a \in asks : Answer(a)
           /\ restarted' = restarted \/ \E n \in Nodes : Restart(n)
           /\ schedule' = schedule
BY DEF vars, noise, Next, Step, Voter, Blocker, Collector, Storager, Request, DrawBlocker,
       BlockTimeout, ResetVote, CreateBlock, CollectAgain, BuildBlock, FinishBlock,
       GiveUpBlock, OneFailure, CollectEndorsement, DelayResend, FetchBlock, ConfirmBlock,
       Restart, SendRequest, Endorse, Answer, RequestTimeout

\* Nothing that was built, stored, published or signed is ever taken back.
LEMMA Grows ==
    ASSUME TypeInv, [Next]_vars
    PROVE  /\ Hashes \subseteq Hashes' /\ \A b \in Hashes : blocks'[b] = blocks[b]
           /\ \A n \in Nodes : /\ Len(chain[n]) <= Len(chain'[n])
                               /\ \A i \in DOMAIN chain[n] : chain'[n][i] = chain[n][i]
           /\ \A n \in Nodes : signed[n] \subseteq signed'[n]
           /\ published \subseteq published' /\ restarted \subseteq restarted'
<1>1. Hashes \subseteq Hashes' /\ \A b \in Hashes : blocks'[b] = blocks[b]
  <2>1. CASE blocks' = blocks
    BY <2>1 DEF Hashes
  <2>2. ASSUME NEW n \in Nodes, BuildBlock(n)
        PROVE  Hashes \subseteq Hashes' /\ \A b \in Hashes : blocks'[b] = blocks[b]
    BY <2>2, TypeFacts DEF TypeInv, BuildBlock, Hashes
  <2> QED BY <2>1, <2>2, Footprint
<1>2. \A n \in Nodes : /\ Len(chain[n]) <= Len(chain'[n])
                       /\ \A i \in DOMAIN chain[n] : chain'[n][i] = chain[n][i]
  <2>1. ASSUME NEW n \in Nodes, Storager(n)
        PROVE  \A m \in Nodes : /\ Len(chain[m]) <= Len(chain'[m])
                                /\ \A i \in DOMAIN chain[m] : chain'[m][i] = chain[m][i]
    BY <2>1, Stores, Extends, ChainBasics DEF TypeInv
  <2>2. \A n \in Nodes : Len(chain[n]) <= Len(chain[n])
    BY ChainBasics DEF TypeInv
  <2> QED BY <2>1, <2>2, Footprint
<1>3. \A n \in Nodes : signed[n] \subseteq signed'[n]
  <2>1. ASSUME NEW a \in asks, Endorse(a), NEW n \in Nodes
        PROVE  signed[n] \subseteq signed'[n]
    <3>1. signed \in [Nodes -> SUBSET Hashes]
      BY TypeFacts DEF TypeInv
    <3>2. signed' = signed \/ signed' = [signed EXCEPT ![a.to] = @ \cup {a.block}]
      BY <2>1 DEF Endorse
    <3> QED BY <3>1, <3>2
  <2> QED BY <2>1, Footprint
<1>4. published \subseteq published'
  BY Footprint DEF Answer, Endorsed
<1>5. restarted \subseteq restarted'
  BY Footprint DEF Restart
<1> QED BY <1>1, <1>2, <1>3, <1>4, <1>5

LEMMA ChainInvInit == Init => ChainInv
BY DEF Init, ChainInv, StoredInv, DrawnInv, BuiltInv, NoVote, Hashes

\* An entry of the chain stays what it is.
LEMMA AtGrows ==
    ASSUME TypeInv, [Next]_vars, NEW n \in Nodes, NEW i \in 0 .. Len(chain[n])
    PROVE  At(chain'[n], i) = At(chain[n], i) /\ i \in 0 .. Len(chain'[n])
<1>1. Len(chain[n]) \in Nat /\ Len(chain'[n]) \in Nat
  BY ChainBasics, TypeInvNext, TypeFacts DEF TypeInv
<1>2. Len(chain[n]) <= Len(chain'[n])
  BY Grows
<1>3. i # 0 => chain'[n][i] = chain[n][i]
  BY <1>1, Grows, ChainBasics DEF TypeInv
<1> QED BY <1>1, <1>2, <1>3 DEF At

LEMMA StoredInvNext ==
    ASSUME TypeInv, ChainInv, [Next]_vars
    PROVE  StoredInv'
<1>1. ASSUME NEW n \in Nodes, NEW i \in DOMAIN chain[n]
      PROVE  /\ blocks'[chain'[n][i]].height = i
             /\ blocks'[chain'[n][i]].prev = At(chain'[n], i - 1)
  <2>1. chain'[n][i] = chain[n][i] /\ chain[n][i] \in Hashes /\ i - 1 \in 0 .. Len(chain[n])
    BY <1>1, ChainBasics, Grows DEF TypeInv
  <2>2. blocks'[chain'[n][i]] = blocks[chain[n][i]]
    BY <2>1, Grows
  <2> QED BY <1>1, <2>1, <2>2, AtGrows DEF ChainInv, StoredInv
<1>2. CASE chain' = chain
  BY <1>1, <1>2 DEF StoredInv
<1>3. ASSUME NEW n \in Nodes, Storager(n)
      PROVE  StoredInv'
  <2>1. PICK b \in Hashes : Fits(n, b) /\ chain' = [chain EXCEPT ![n] = Append(@, b)]
    BY <1>3, Stores DEF TypeInv
  <2>2. /\ Len(chain[n]) \in Nat /\ DOMAIN chain[n] = 1 .. Len(chain[n])
        /\ DOMAIN chain'[n] = 1 .. Len(chain[n]) + 1
        /\ chain'[n][Len(chain[n]) + 1] = b
        /\ \A m \in Nodes \ {n} : chain'[m] = chain[m]
    BY <2>1, Extends DEF TypeInv
  <2>3. blocks'[b] = blocks[b] /\ blocks[b].height = Len(chain[n]) + 1
    BY <2>1, Grows DEF Fits, Height
  <2>4. blocks[b].prev = At(chain[n], Len(chain[n]))
    BY <2>1, TipIsLast DEF TypeInv, Fits, OnTip
  <2>5. At(chain'[n], Len(chain[n])) = At(chain[n], Len(chain[n]))
    BY <2>2, AtGrows
  <2>6. ASSUME NEW m \in Nodes, NEW i \in DOMAIN chain'[m]
        PROVE  /\ blocks'[chain'[m][i]].height = i
               /\ blocks'[chain'[m][i]].prev = At(chain'[m], i - 1)
    <3>1. CASE i \in DOMAIN chain[m]
      BY <1>1, <3>1
    <3>2. CASE i \notin DOMAIN chain[m]
      <4>1. m = n /\ i = Len(chain[n]) + 1 /\ i - 1 = Len(chain[n])
        BY <2>2, <2>6, <3>2
      <4> QED BY <2>2, <2>3, <2>4, <2>5, <4>1
    <3> QED BY <3>1, <3>2
  <2> QED BY <2>6 DEF StoredInv
<1> QED BY <1>2, <1>3, Footprint

LEMMA DrawnInvNext ==
    ASSUME TypeInv, ChainInv, [Next]_vars
    PROVE  DrawnInv'
<1>1. ASSUME NEW n \in Nodes, vote'[n] = vote[n], vote'[n].hash # NoHash
      PROVE  /\ vote'[n].height \in 0 .. Len(chain'[n])
             /\ vote'[n].hash = At(chain'[n], vote'[n].height)
  BY <1>1, AtGrows DEF ChainInv, DrawnInv
<1>2. CASE vote' = vote
  BY <1>1, <1>2 DEF DrawnInv
<1>3. ASSUME NEW n \in Nodes, Restart(n)
      PROVE  DrawnInv'
  <2>1. vote'[n].hash = NoHash /\ \A m \in Nodes \ {n} : vote'[m] = vote[m]
    BY <1>3, TypeFacts DEF TypeInv, Restart, NoVote
  <2> QED BY <1>1, <2>1 DEF DrawnInv
<1>4. ASSUME NEW n \in Nodes, Voter(n)
      PROVE  DrawnInv'
  <2>1. PICK i \in Nat : Elect(n, i)
    BY <1>4, VoterElects
  <2>2. /\ vote'[n].hash = Tip(n) /\ vote'[n].height = Height(n)
        /\ \A m \in Nodes \ {n} : vote'[m] = vote[m]
    <3>1. vote \in [Nodes -> VoteRecords] /\ vote' = [vote EXCEPT ![n] = vote'[n]]
      BY <2>1, ElectType, TypeFacts DEF TypeInv
    <3> QED BY <2>1, <3>1, ElectType DEF TypeInv
  <2>3. chain' = chain
    BY <1>4 DEF Voter, DrawBlocker, BlockTimeout, ResetVote
  <2>4. /\ vote'[n].height \in 0 .. Len(chain'[n])
        /\ vote'[n].hash = At(chain'[n], vote'[n].height)
    BY <2>2, <2>3, TipIsLast, ChainBasics DEF TypeInv, Height
  <2> QED BY <1>1, <2>2, <2>4 DEF DrawnInv
<1> QED BY <1>2, <1>3, <1>4, Footprint

LEMMA BuiltInvNext ==
    ASSUME TypeInv, ChainInv, [Next]_vars
    PROVE  BuiltInv'
<1>1. ASSUME NEW b \in Hashes
      PROVE  /\ blocks'[b].height \in 1 .. Len(chain'[blocks'[b].maker]) + 1
             /\ blocks'[b].prev = At(chain'[blocks'[b].maker], blocks'[b].height - 1)
  <2> DEFINE n == blocks[b].maker
             h == blocks[b].height
  <2>1. n \in Nodes /\ blocks'[b] = blocks[b]
    BY BlockType, Grows DEF TypeInv
  <2>2. h \in 1 .. Len(chain[n]) + 1 /\ blocks[b].prev = At(chain[n], h - 1)
    BY DEF ChainInv, BuiltInv
  <2>3. h - 1 \in 0 .. Len(chain[n]) /\ Len(chain[n]) \in Nat
    BY <2>1, <2>2, ChainBasics DEF TypeInv
  <2>4. At(chain'[n], h - 1) = At(chain[n], h - 1) /\ h - 1 \in 0 .. Len(chain'[n])
    BY <2>1, <2>3, AtGrows
  <2>5. h \in 1 .. Len(chain'[n]) + 1
    BY <2>2, <2>3, <2>4
  <2> QED BY <2>1, <2>2, <2>4, <2>5
<1>2. CASE blocks' = blocks
  BY <1>1, <1>2 DEF BuiltInv, Hashes
<1>3. ASSUME NEW n \in Nodes, BuildBlock(n)
      PROVE  BuiltInv'
  <2> DEFINE k == Len(blocks) + 1
             b == [prev |-> vote[n].hash, height |-> vote[n].height + 1, maker |-> n]
  <2>1. Hashes' = Hashes \cup {k} /\ blocks'[k] = b
    BY <1>3, TypeFacts DEF TypeInv, BuildBlock, Hashes
  <2>2. vote[n].hash # NoHash /\ chain' = chain
    BY <1>3 DEF TypeInv, StageInv, BuildBlock
  <2>3. /\ vote[n].height \in 0 .. Len(chain[n])
        /\ vote[n].hash = At(chain[n], vote[n].height)
    BY <2>2 DEF ChainInv, DrawnInv
  <2>4. Len(chain[n]) \in Nat
    BY ChainBasics DEF TypeInv
  <2>5. /\ b.height \in 1 .. Len(chain[n]) + 1
        /\ b.prev = At(chain[n], b.height - 1) /\ b.maker = n
    BY <2>3, <2>4
  <2> HIDE DEF b
  <2> QED BY <1>1, <2>1, <2>2, <2>5 DEF BuiltInv
<1> QED BY <1>2, <1>3, Footprint

LEMMA ChainInvNext == TypeInv /\ ChainInv /\ [Next]_vars => ChainInv'
BY StoredInvNext, DrawnInvNext, BuiltInvNext DEF ChainInv

-----------------------------------------------------------------------------
(* Blocks on their way.                                                     *)

\* The blocks node n has made.
Own(n) == {b \in Hashes : blocks[b].maker = n}

\* The blocks node n has endorsed, or will.
InFlight(n) ==
    {blocker[n].pre, collector[n].block} \cup {collect[n][i].block : i \in DOMAIN collect[n]}
        \cup {a.block : a \in {x \in asks : x.by = n}}

\* A node has only blocks of its own endorsed, and never asks itself.
OwnInv ==
    /\ \A n \in Nodes : /\ InFlight(n) \ {NoHash} \subseteq Own(n)
                        /\ blocker[n].block \in Own(n) \cup {NoHash}
    /\ \A a \in asks : a.by # a.to

\* The block that leaves the blocker in this step.
Finished(n) == IF FinishBlock(n) THEN {blocker[n].block} ELSE {}

LEMMA RequestFields ==
    ASSUME NEW n, NEW b, NEW i, NEW es, NEW x \in Requests(n, b, i, es)
    PROVE  x.by = n /\ x.to \in es \ {n} /\ x.block = b /\ x.stage = "routed"
BY DEF Requests

\* A request that goes on keeps whom it is from, whom it is for and its block.
LEMMA RequestMoves ==
    ASSUME TypeInv, NEW a \in asks, Request(a), NEW x \in asks'
    PROVE  x \in asks \/ (x.by = a.by /\ x.to = a.to /\ x.block = a.block)
<1>1. a \in AskRecords
  BY TypeFacts DEF TypeInv
<1>3. CASE SendRequest(a)
  <2>1. x \in asks \/ x = [a EXCEPT !.stage = "sent"]
    BY <1>3 DEF SendRequest
  <2> QED BY <1>1, <2>1 DEF AskRecords
<1>4. CASE Endorse(a)
  <2>1. x \in asks \/ x = [a EXCEPT !.stage = EndorseResult(a)]
    BY <1>4 DEF Endorse
  <2> QED BY <1>1, <2>1 DEF AskRecords
<1>5. CASE Answer(a) \/ RequestTimeout(a)
  BY <1>5 DEF Answer, RequestTimeout
<1> QED BY <1>3, <1>4, <1>5 DEF Request

LEMMA FlightBlocker ==
    ASSUME TypeInv, NEW m \in Nodes, Blocker(m), NEW n \in Nodes
    PROVE  InFlight(n)' \subseteq InFlight(n) \cup {NoHash} \cup Finished(n)
<1>1. /\ blocker \in [Nodes -> BlockerRecords] /\ collect \in [Nodes -> Seq(CollectMessages)]
  BY TypeFacts DEF TypeInv
<1>2. CASE CreateBlock(m) \/ BuildBlock(m) \/ GiveUpBlock(m)
  <2>1. UNCHANGED <<collect, collector, asks>>
    BY <1>2 DEF CreateBlock, BuildBlock, GiveUpBlock
  <2>2. blocker'[n].pre = blocker[n].pre
    <3>1. CASE CreateBlock(m)
      BY <1>1, <3>1 DEF CreateBlock, BlockerRecords
    <3>2. CASE BuildBlock(m)
      BY <1>1, <3>2 DEF BuildBlock, BlockerRecords
    <3>3. CASE GiveUpBlock(m)
      BY <1>1, <3>3 DEF GiveUpBlock, BlockerRecords
    <3> QED BY <1>2, <3>1, <3>2, <3>3
  <2> QED BY <2>1, <2>2 DEF InFlight
<1>3. ASSUME NEW b \in Hashes \cup {NoHash}, NEW i,
             collect' = [collect EXCEPT ![m] = Append(@, [block |-> b, index |-> i])],
             b \in InFlight(m) \cup Finished(m), m = n
      PROVE  {collect'[n][j].block : j \in DOMAIN collect'[n]} \subseteq
                 InFlight(n) \cup Finished(n)
  <2>1. collect'[n] = Append(collect[n], [block |-> b, index |-> i])
    BY <1>1, <1>3
  <2>2. \A j \in DOMAIN collect'[n] :
            \/ j \in DOMAIN collect[n] /\ collect'[n][j] = collect[n][j]
            \/ collect'[n][j] = [block |-> b, index |-> i]
    BY <1>1, <2>1
  <2> QED BY <1>3, <2>2 DEF InFlight
<1>4. CASE CollectAgain(m)
  <2>1. /\ blocker'[n].pre = blocker[n].pre /\ UNCHANGED <<collector, asks>>
        /\ blocker[m].pre \in Hashes \cup {NoHash}
    BY <1>1, <1>4 DEF CollectAgain, BlockerRecords
  <2>2. CASE n = m
    <3>1. {collect'[n][j].block : j \in DOMAIN collect'[n]} \subseteq InFlight(n) \cup Finished(n)
      BY <1>3, <1>4, <2>1, <2>2 DEF CollectAgain, InFlight
    <3> QED BY <2>1, <3>1 DEF InFlight
  <2>3. CASE n # m
    BY <1>1, <1>4, <2>1, <2>3 DEF CollectAgain, InFlight
  <2> QED BY <2>2, <2>3
<1>5. CASE FinishBlock(m)
  <2>1. /\ UNCHANGED <<collector, asks>> /\ blocker[m].block \in Hashes \cup {NoHash}
        /\ Finished(m) = {blocker[m].block}
    BY <1>1, <1>5 DEF FinishBlock, BlockerRecords, Finished
  <2>2. CASE n = m
    <3>1. {collect'[n][j].block : j \in DOMAIN collect'[n]} \subseteq InFlight(n) \cup Finished(n)
      BY <1>3, <1>5, <2>1, <2>2 DEF FinishBlock
    <3>2. blocker'[n].pre = blocker[n].block
      BY <1>1, <1>5, <2>2 DEF FinishBlock, IdleBlocker
    <3> QED BY <2>1, <2>2, <3>1, <3>2 DEF InFlight
  <2>3. CASE n # m
    BY <1>1, <1>5, <2>1, <2>3 DEF FinishBlock, InFlight
  <2> QED BY <2>2, <2>3
<1> QED BY <1>2, <1>4, <1>5 DEF Blocker

LEMMA FlightCollector ==
    ASSUME TypeInv, NEW m \in Nodes, Collector(m), NEW n \in Nodes
    PROVE  InFlight(n)' \subseteq InFlight(n) \cup {NoHash}
<1>1. /\ collector \in [Nodes -> CollectorRecords] /\ collect \in [Nodes -> Seq(CollectMessages)]
      /\ blocker' = blocker
  BY TypeFacts DEF TypeInv, Collector, CollectEndorsement, DelayResend
<1>2. CASE CollectEndorsement(m)
  <2> DEFINE c == Head(collect[m])
  <2>1. /\ collect[m] # <<>> /\ c = collect[m][1] /\ 1 \in DOMAIN collect[m]
        /\ collect' = [collect EXCEPT ![m] = Tail(@)]
    BY <1>1, <1>2 DEF CollectEndorsement
  <2>2. \/ UNCHANGED <<collector, asks>>
        \/ /\ collector' = [collector EXCEPT ![m] =
                              [IdleCollector EXCEPT !.block = c.block, !.index = c.index]]
           /\ asks' = asks \cup Requests(m, c.block, c.index, Nodes)
    BY <1>2 DEF CollectEndorsement
  <2>3. c.block \in InFlight(m)
    BY <2>1 DEF InFlight
  <2>4. \A j \in DOMAIN collect'[n] : \E i \in DOMAIN collect[n] : collect'[n][j] = collect[n][i]
    <3>1. CASE n = m
      <4>1. collect'[n] = Tail(collect[n]) /\ collect[n] # <<>>
        BY <1>1, <2>1, <3>1
      <4>2. \A j \in DOMAIN collect'[n] : j + 1 \in DOMAIN collect[n] /\
                 collect'[n][j] = collect[n][j + 1]
        BY <1>1, <4>1
      <4> QED BY <4>2
    <3>2. CASE n # m
      BY <1>1, <2>1, <3>2
    <3> QED BY <3>1, <3>2
  <2>5. collector'[n].block = collector[n].block \/ (n = m /\ collector'[n].block = c.block)
    <3> DEFINE d == [IdleCollector EXCEPT !.block = c.block, !.index = c.index]
    <3>1. d.block = c.block
      BY DEF IdleCollector
    <3>2. collector' = collector \/ collector' = [collector EXCEPT ![m] = d]
      BY <2>2
    <3> HIDE DEF d, c
    <3>3. CASE n = m
      BY <1>1, <3>1, <3>2, <3>3
    <3>4. CASE n # m
      BY <1>1, <3>2, <3>4
    <3> QED BY <3>3, <3>4
  <2>6. \A a \in asks' : a \in asks \/ (a.by = m /\ a.block = c.block)
    <3> HIDE DEF c
    <3>1. \A a \in Requests(m, c.block, c.index, Nodes) : a.by = m /\ a.block = c.block
      BY RequestFields
    <3> QED BY <2>2, <3>1
  <2> HIDE DEF c
  <2> QED BY <1>1, <2>3, <2>4, <2>5, <2>6 DEF InFlight
<1>3. CASE DelayResend(m)
  <2>1. collect' = collect /\ collector'[n].block = collector[n].block
    BY <1>1, <1>3 DEF DelayResend, CollectorRecords
  <2>2. \A a \in asks' : a \in asks \/ (a.by = m /\ a.block = collector[m].block)
    <3>1. \/ asks' = asks
          \/ asks' = asks \cup Requests(m, collector[m].block, collector[m].index,
                                       collector[m].late)
      BY <1>3 DEF DelayResend
    <3>2. \A a \in Requests(m, collector[m].block, collector[m].index, collector[m].late) :
              a.by = m /\ a.block = collector[m].block
      BY RequestFields
    <3> QED BY <3>1, <3>2
  <2> QED BY <1>1, <2>1, <2>2 DEF InFlight
<1> QED BY <1>2, <1>3 DEF Collector

LEMMA FlightRequest ==
    ASSUME TypeInv, NEW a \in asks, Request(a), NEW n \in Nodes
    PROVE  InFlight(n)' \subseteq InFlight(n) \cup {NoHash}
<1>1. /\ collector \in [Nodes -> CollectorRecords] /\ a \in AskRecords /\ a.by \in Nodes
      /\ UNCHANGED <<collect, blocker>>
  BY TypeFacts DEF TypeInv, AskRecords, Request, SendRequest, Endorse, Answer, RequestTimeout
<1>2. \A x \in asks' : x \in asks \/ (x.by = a.by /\ x.block = a.block)
  BY RequestMoves
<1>3. collector'[n].block \in {collector[n].block, NoHash}
  <2>1. \/ collector' = collector \/ collector' = NotedLate(a.by, a.to) \/ Endorsed(a)
    BY DEF Request, SendRequest, Endorse, Answer, RequestTimeout
  <2>2. NotedLate(a.by, a.to)[n].block = collector[n].block
    BY <1>1 DEF NotedLate, CollectorRecords
  <2>3. Endorsed(a) => collector'[n].block \in {collector[n].block, NoHash}
    BY <1>1 DEF Endorsed, IdleCollector, CollectorRecords
  <2> QED BY <2>1, <2>2, <2>3
<1> QED BY <1>1, <1>2, <1>3 DEF InFlight

\* Blocks come into flight by being finished, and else only move.
LEMMA FlightNext ==
    ASSUME TypeInv, [Next]_vars, NEW n \in Nodes
    PROVE  InFlight(n)' \subseteq InFlight(n) \cup {NoHash} \cup Finished(n)
<1>1. CASE UNCHANGED <<blocker, collect, collector, asks>>
  BY <1>1 DEF InFlight
<1>2. ASSUME NEW m \in Nodes, Restart(m)
      PROVE  InFlight(n)' \subseteq InFlight(n) \cup {NoHash}
  <2>1. asks' \subseteq asks
    BY <1>2 DEF Restart
  <2>2. CASE n = m
    <3>1. blocker'[n] = IdleBlocker /\ collect'[n] = <<>> /\ collector'[n] = IdleCollector
      BY <1>2, <2>2, TypeFacts DEF TypeInv, Restart
    <3> QED BY <2>1, <3>1 DEF InFlight, IdleBlocker, IdleCollector
  <2>3. CASE n # m
    <3>1. blocker'[n] = blocker[n] /\ collect'[n] = collect[n] /\ collector'[n] = collector[n]
      BY <1>2, <2>3, TypeFacts DEF TypeInv, Restart
    <3> QED BY <2>1, <3>1 DEF InFlight
  <2> QED BY <2>2, <2>3
<1>3. \/ UNCHANGED <<blocker, collect, collector, asks>>
      \/ \E m \in Nodes : Blocker(m) \/ Collector(m) \/ Restart(m)
      \/ \E a \in asks : Request(a)
  BY DEF Next, Step, vars, Voter, Storager, DrawBlocker, BlockTimeout, ResetVote, FetchBlock,
         ConfirmBlock
<1> QED BY <1>1, <1>2, <1>3, FlightBlocker, FlightCollector, FlightRequest

LEMMA OwnInvInit == Init => OwnInv
BY DEF Init, OwnInv, InFlight, IdleBlocker, IdleCollector

LEMMA OwnGrows ==
    ASSUME TypeInv, [Next]_vars, NEW n \in Nodes
    PROVE  Own(n) \subseteq Own(n)'
BY Grows DEF Own

LEMMA OwnInvNext ==
    ASSUME TypeInv, OwnInv, [Next]_vars
    PROVE  OwnInv'
<1>1. ASSUME NEW n \in Nodes
      PROVE  (InFlight(n) \ {NoHash})' \subseteq Own(n)'
  <2>1. Finished(n) \subseteq Own(n) \cup {NoHash}
    BY DEF Finished, OwnInv
  <2>2. NoHash' = NoHash
    BY DEF NoHash
  <2> QED BY <2>1, <2>2, FlightNext, OwnGrows DEF OwnInv
<1>2. ASSUME NEW n \in Nodes
      PROVE  blocker'[n].block \in Own(n)' \cup {NoHash}
  <2>1. blocker \in [Nodes -> BlockerRecords]
    BY TypeFacts DEF TypeInv
  <2>2. ASSUME NEW m \in Nodes, BuildBlock(m)
        PROVE  blocker'[n].block \in {blocker[n].block} \cup Own(n)'
    <3> DEFINE k == Len(blocks) + 1
    <3>1. k \in Hashes' /\ blocks'[k].maker = m
      BY <2>2, TypeFacts DEF TypeInv, BuildBlock, Hashes
    <3>2. blocker'[n].block = blocker[n].block \/ (n = m /\ blocker'[n].block = k)
      <4>1. blocker' = [blocker EXCEPT ![m] = [blocker[m] EXCEPT !.pc = "preloading", !.block = k]]
        BY <2>1, <2>2 DEF BuildBlock
      <4>2. [blocker[m] EXCEPT !.pc = "preloading", !.block = k].block = k
        BY <2>1 DEF BlockerRecords
      <4> QED BY <2>1, <4>1, <4>2
    <3> QED BY <3>1, <3>2 DEF Own
  <2>3. ASSUME NEW m \in Nodes, Restart(m)
        PROVE  blocker'[n].block \in {blocker[n].block, NoHash}
    BY <2>1, <2>3 DEF Restart, IdleBlocker
  <2>4. ASSUME NEW m \in Nodes,
               CreateBlock(m) \/ CollectAgain(m) \/ FinishBlock(m) \/ GiveUpBlock(m)
        PROVE  blocker'[n].block \in {blocker[n].block, NoHash}
    <3>1. CASE CreateBlock(m)
      BY <2>1, <3>1 DEF CreateBlock, BlockerRecords
    <3>2. CASE CollectAgain(m)
      BY <2>1, <3>2 DEF CollectAgain, BlockerRecords
    <3>3. CASE FinishBlock(m)
      BY <2>1, <3>3 DEF FinishBlock, IdleBlocker, BlockerRecords
    <3>4. CASE GiveUpBlock(m)
      BY <2>1, <3>4 DEF GiveUpBlock, BlockerRecords
    <3> QED BY <2>4, <3>1, <3>2, <3>3, <3>4
  <2>5. blocker' = blocker \/ \E m \in Nodes : Blocker(m) \/ Restart(m)
    BY DEF vars, Next, Step, Voter, Collector, Storager, Request, DrawBlocker,
           BlockTimeout, ResetVote, CollectEndorsement, DelayResend, FetchBlock, ConfirmBlock,
           SendRequest, Endorse, Answer, RequestTimeout
  <2>6. blocker'[n].block \in {blocker[n].block, NoHash} \cup Own(n)'
    BY <2>2, <2>3, <2>4, <2>5 DEF Blocker
  <2> QED BY <2>6, OwnGrows DEF OwnInv
<1>3. ASSUME NEW a \in asks'
      PROVE  a.by # a.to
  <2>1. ASSUME NEW x \in asks, Request(x)
        PROVE  a.by # a.to
    BY <2>1, RequestMoves DEF OwnInv
  <2>2. ASSUME NEW m \in Nodes, Collector(m)
        PROVE  a.by # a.to
    <3>1. a \in asks \/ \E b, i, es : a \in Requests(m, b, i, es)
      BY <2>2 DEF Collector, CollectEndorsement, DelayResend
    <3> QED BY <3>1, RequestFields DEF OwnInv
  <2>3. \/ asks' \subseteq asks \/ \E x \in asks : Request(x)
        \/ \E m \in Nodes : Collector(m)
    BY DEF vars, Next, Step, Voter, Blocker, Storager, DrawBlocker,
           BlockTimeout, ResetVote, CreateBlock, CollectAgain, BuildBlock, FinishBlock,
           GiveUpBlock, FetchBlock, ConfirmBlock, Restart
  <2> QED BY <2>1, <2>2, <2>3 DEF OwnInv
<1> QED BY <1>1, <1>2, <1>3 DEF OwnInv

-----------------------------------------------------------------------------
(* Certificates.                                                            *)

Vouchers(b) == {e \in Nodes : b \in Vouched(e)}

\* Enough nodes have put their signature to b, one of them as endorser.
Certified(b) ==
    /\ \E e \in Nodes : b \in signed[e]
    /\ EnoughNodes(Cardinality(Vouchers(b)))

\* Who answers has signed, who is counted has signed the block being collected, and
\* what is published or stored has signatures enough.
CertInv ==
    /\ \A a \in asks : a.stage = "success" => a.block \in signed[a.to]
    /\ \A n \in Nodes : /\ n \notin collector[n].from
                        /\ \A e \in collector[n].from : collector[n].block \in signed[e]
    /\ PublishedIsValid
    /\ \A m \in published : Certified(m.block)
    /\ \A n \in Nodes : \A i \in DOMAIN chain[n] : Certified(chain[n][i])

LEMMA NodesFinite ==
    ASSUME NEW S \in SUBSET Nodes
    PROVE  IsFiniteSet(S) /\ Cardinality(S) \in Nat
BY ConstantFacts, FS_Subset, FS_CardinalityType

\* In each mode, two sets of enough nodes have a node in common.
LEMMA EnoughIsMost ==
    ASSUME NEW S \in SUBSET Nodes, NEW T \in SUBSET Nodes,
           EnoughNodes(Cardinality(S)), EnoughNodes(Cardinality(T))
    PROVE  S \cap T # {}
<1>1. /\ IsFiniteSet(S) /\ IsFiniteSet(T) /\ IsFiniteSet(Nodes)
      /\ Cardinality(S) \in Nat /\ Cardinality(T) \in Nat /\ Cardinality(Nodes) \in Nat
  BY NodesFinite
<1>2. 2 * Cardinality(S) > Cardinality(Nodes) /\ 2 * Cardinality(T) > Cardinality(Nodes)
  BY <1>1, ConstantFacts DEF EnoughNodes
<1>3. Cardinality(S \cup T) <= Cardinality(Nodes) /\ Cardinality(S \cup T) \in Nat
  BY <1>1, FS_Subset, NodesFinite
<1>4. Cardinality(S \cup T) = Cardinality(S) + Cardinality(T) - Cardinality(S \cap T)
  BY <1>1, FS_Union
<1>5. Cardinality(S \cap T) # 0
  <2>1. Cardinality(S \cap T) \in Nat
    BY NodesFinite
  <2> QED BY <1>1, <1>2, <1>3, <1>4, <2>1
<1> QED BY <1>5, FS_EmptySet

LEMMA EnoughGrows ==
    ASSUME NEW S \in SUBSET Nodes, NEW T \in SUBSET Nodes, S \subseteq T,
           EnoughNodes(Cardinality(S))
    PROVE  EnoughNodes(Cardinality(T))
<1>1. /\ Cardinality(S) \in Nat /\ Cardinality(T) \in Nat /\ Cardinality(Nodes) \in Nat
      /\ Cardinality(S) <= Cardinality(T)
  BY NodesFinite, FS_Subset
<1> QED BY <1>1 DEF EnoughNodes

LEMMA CertifiedGrows ==
    ASSUME TypeInv, [Next]_vars, NEW b \in Hashes, Certified(b)
    PROVE  Certified(b)'
<1>1. Vouchers(b) \subseteq Vouchers(b)'
  BY Grows DEF Vouchers, Vouched
<1>2. EnoughNodes(Cardinality(Vouchers(b)'))
  BY <1>1, EnoughGrows DEF Certified, Vouchers
<1>3. \E e \in Nodes : b \in signed'[e]
  BY Grows DEF Certified
<1>4. (EnoughNodes(Cardinality(Vouchers(b))))' <=> EnoughNodes(Cardinality(Vouchers(b)'))
  BY DEF EnoughNodes
<1> QED BY <1>2, <1>3, <1>4 DEF Certified

LEMMA ValidGrows ==
    ASSUME TypeInv, [Next]_vars, NEW m \in published, Valid(m)
    PROVE  Valid(m)'
<1>1. m.block \in Hashes /\ m.from \subseteq Nodes
  BY TypeFacts DEF TypeInv, PublishedRecords
<1>2. (EnoughNodes(Cardinality(m.from)))' <=> EnoughNodes(Cardinality(m.from))
  BY DEF EnoughNodes
<1> QED BY <1>1, <1>2, Grows DEF Valid

\* Those who have signed a valid message vouch for its block.
LEMMA ValidIsCertified ==
    ASSUME TypeInv, NEW m \in PublishedRecords, Valid(m), NEW e \in Nodes, m.block \in signed[e]
    PROVE  Certified(m.block)
<1>1. m.from \subseteq Vouchers(m.block)
  BY DEF Valid, Vouchers, Vouched, PublishedRecords
<1>2. EnoughNodes(Cardinality(Vouchers(m.block)))
  BY <1>1, EnoughGrows DEF Valid, PublishedRecords, Vouchers
<1> QED BY <1>2 DEF Certified

\* The endorsement that completes a quorum.
LEMMA PublishesValid ==
    ASSUME TypeInv, OwnInv, CertInv, NEW a \in asks, a.stage = "success", Counts(a), Endorsed(a),
           NEW m \in published' \ published
    PROVE  m \in PublishedRecords /\ Valid(m) /\ m.block \in signed[a.to] /\ a.to \in Nodes
<1> DEFINE c == collector[a.by]
           from == c.from \cup {a.to}
<1>1. a.by \in Nodes /\ a.to \in Nodes /\ a.block \in Hashes /\ a.by # a.to
  BY TypeFacts DEF TypeInv, AskRecords, OwnInv
<1>2. m = [block |-> c.block, from |-> from \cup {a.by}] /\ EnoughNodes(Cardinality(from) + 1)
  BY DEF Endorsed
<1>3. c.block = a.block /\ c.block \in signed[a.to] /\ from \subseteq Nodes /\ a.by \notin from
  BY <1>1, TypeFacts DEF TypeInv, Counts, CertInv, CollectorRecords
<1>4. \A e \in from : c.block \in signed[e]
  BY <1>1, <1>3 DEF CertInv
<1>5. blocks[c.block].maker = a.by
  <2>1. a.block \in InFlight(a.by) /\ a.block # NoHash
    BY <1>1 DEF InFlight, Hashes, NoHash
  <2> QED BY <1>1, <1>3, <2>1 DEF OwnInv, Own
<1>6. Cardinality(from \cup {a.by}) = Cardinality(from) + 1
  BY <1>3, NodesFinite, FS_AddElement
<1> HIDE DEF c, from
<1>7. Valid(m)
  BY <1>2, <1>4, <1>5, <1>6 DEF Valid
<1> QED BY <1>1, <1>2, <1>3, <1>7 DEF PublishedRecords

LEMMA CertInvInit == Init => CertInv
BY DEF Init, CertInv, PublishedIsValid, IdleCollector

LEMMA AsksSigned ==
    ASSUME TypeInv, OwnInv, CertInv, [Next]_vars, NEW x \in asks', x.stage = "success"
    PROVE  x.block \in signed'[x.to]
<1>1. CASE x \in asks
  <2>1. x.to \in Nodes
    BY <1>1, TypeFacts DEF TypeInv, AskRecords
  <2> QED BY <1>1, <2>1, Grows DEF CertInv
<1>2. CASE x \notin asks
  <2>1. ASSUME NEW m \in Nodes, Collector(m)
        PROVE  FALSE
    <3>1. \E b, i, es : x \in Requests(m, b, i, es)
      BY <1>2, <2>1 DEF Collector, CollectEndorsement, DelayResend
    <3>2. x.stage = "routed"
      BY <3>1, RequestFields
    <3> QED BY <3>2
  <2>2. ASSUME NEW a \in asks, Request(a)
        PROVE  x.block \in signed'[x.to]
    <3>1. a \in AskRecords /\ a.to \in Nodes
      BY TypeFacts DEF TypeInv, AskRecords
    <3>2. CASE SendRequest(a)
      <4>1. x = [a EXCEPT !.stage = "sent"]
        BY <1>2, <3>2 DEF SendRequest
      <4> QED BY <3>1, <4>1 DEF AskRecords
    <3>3. CASE Endorse(a)
      <4>1. x = [a EXCEPT !.stage = EndorseResult(a)]
        BY <1>2, <3>3 DEF Endorse
      <4>2. EndorseResult(a) = "success" /\ x.block = a.block /\ x.to = a.to
        BY <3>1, <4>1 DEF AskRecords
      <4>3. signed' = [signed EXCEPT ![a.to] = @ \cup {a.block}]
        BY <3>3, <4>2 DEF Endorse
      <4> QED BY <3>1, <4>2, <4>3, TypeFacts DEF TypeInv
    <3>4. CASE Answer(a) \/ RequestTimeout(a)
      BY <1>2, <3>4 DEF Answer, RequestTimeout
    <3> QED BY <2>2, <3>2, <3>3, <3>4 DEF Request
  <2>3. asks' \subseteq asks \/ (\E a \in asks : Request(a)) \/ (\E m \in Nodes : Collector(m))
    BY DEF vars, Next, Step, Voter, Blocker, Storager, DrawBlocker,
           BlockTimeout, ResetVote, CreateBlock, CollectAgain, BuildBlock, FinishBlock,
           GiveUpBlock, FetchBlock, ConfirmBlock, Restart
  <2> QED BY <1>2, <2>1, <2>2, <2>3
<1> QED BY <1>1, <1>2

\* What a step does to the block and the endorsers of a collector.
LEMMA CollectorMoves ==
    ASSUME TypeInv, [Next]_vars, NEW n \in Nodes
    PROVE  \/ collector'[n].from = {}
           \/ /\ collector'[n].block = collector[n].block
              /\ \/ collector'[n].from = collector[n].from
                 \/ \E a \in asks : /\ a.stage = "success" /\ a.by = n /\ Counts(a)
                                    /\ collector'[n].from = collector[n].from \cup {a.to}
<1>1. collector \in [Nodes -> CollectorRecords]
  BY TypeFacts DEF TypeInv
<1>2. ASSUME NEW m \in Nodes, Restart(m)
      PROVE  collector'[n] = collector[n] \/ collector'[n].from = {}
  BY <1>1, <1>2 DEF Restart, IdleCollector
<1>3. ASSUME NEW m \in Nodes, CollectEndorsement(m)
      PROVE  collector'[n] = collector[n] \/ collector'[n].from = {}
  <2> DEFINE c == Head(collect[m])
             d == [IdleCollector EXCEPT !.block = c.block, !.index = c.index]
  <2>1. collector' = collector \/ collector' = [collector EXCEPT ![m] = d]
    BY <1>3 DEF CollectEndorsement
  <2>2. d.from = {}
    BY DEF IdleCollector
  <2> HIDE DEF d
  <2> QED BY <1>1, <2>1, <2>2
<1>4. ASSUME NEW m \in Nodes, DelayResend(m)
      PROVE  collector'[n].block = collector[n].block /\ collector'[n].from = collector[n].from
  BY <1>1, <1>4 DEF DelayResend, CollectorRecords
<1>5. ASSUME NEW a \in asks, collector' = NotedLate(a.by, a.to)
      PROVE  collector'[n].block = collector[n].block /\ collector'[n].from = collector[n].from
  BY <1>1, <1>5 DEF NotedLate, CollectorRecords
<1>6. ASSUME NEW a \in asks, a.stage = "success", Counts(a), Endorsed(a)
      PROVE  \/ collector'[n] = collector[n] \/ collector'[n].from = {}
             \/ /\ collector'[n].block = collector[n].block /\ a.by = n
                /\ collector'[n].from = collector[n].from \cup {a.to}
  <2> DEFINE d == [collector[a.by] EXCEPT !.from = @ \cup {a.to}]
  <2>1. a.by \in Nodes
    BY TypeFacts DEF TypeInv, AskRecords
  <2>2. \/ collector' = [collector EXCEPT ![a.by] = IdleCollector]
        \/ collector' = [collector EXCEPT ![a.by] = d]
    BY <1>6 DEF Endorsed
  <2>3. d.block = collector[a.by].block /\ d.from = collector[a.by].from \cup {a.to}
    BY <1>1, <2>1 DEF CollectorRecords
  <2>4. IdleCollector.from = {}
    BY DEF IdleCollector
  <2> HIDE DEF d
  <2> QED BY <1>1, <2>1, <2>2, <2>3, <2>4
<1>7. \/ collector' = collector
      \/ \E m \in Nodes : Restart(m) \/ CollectEndorsement(m) \/ DelayResend(m)
      \/ \E a \in asks : \/ collector' = NotedLate(a.by, a.to)
                         \/ a.stage = "success" /\ Counts(a) /\ Endorsed(a)
  BY DEF vars, Next, Step, Voter, Blocker, Collector, Storager, Request, DrawBlocker,
         BlockTimeout, ResetVote, CreateBlock, CollectAgain, BuildBlock, FinishBlock,
         GiveUpBlock, FetchBlock, ConfirmBlock, SendRequest, Endorse, Answer, RequestTimeout
<1> QED BY <1>2, <1>3, <1>4, <1>5, <1>6, <1>7

LEMMA CertInvNext ==
    ASSUME TypeInv, OwnInv, CertInv, [Next]_vars
    PROVE  CertInv'
<1>1. \A a \in asks' : a.stage = "success" => a.block \in signed'[a.to]
  BY AsksSigned
<1>2. ASSUME NEW n \in Nodes
      PROVE  /\ n \notin collector'[n].from
             /\ \A e \in collector'[n].from : collector'[n].block \in signed'[e]
  <2>1. CASE collector'[n].from = {}
    BY <2>1
  <2>2. collector[n].from \subseteq Nodes
    BY TypeFacts DEF TypeInv, CollectorRecords
  <2>3. /\ n \notin collector[n].from
        /\ \A e \in collector[n].from : collector[n].block \in signed'[e]
    BY <2>2, Grows DEF CertInv
  <2>4. CASE collector'[n].block = collector[n].block /\ collector'[n].from = collector[n].from
    BY <2>3, <2>4
  <2>5. ASSUME NEW a \in asks, a.stage = "success", a.by = n, Counts(a),
               collector'[n].from = collector[n].from \cup {a.to},
               collector'[n].block = collector[n].block
        PROVE  /\ n \notin collector'[n].from
               /\ \A e \in collector'[n].from : collector'[n].block \in signed'[e]
    <3>1. a.to # n /\ a.to \in Nodes
      BY <2>5, TypeFacts DEF OwnInv, TypeInv, AskRecords
    <3>2. collector[n].block \in signed'[a.to]
      BY <2>5, <3>1, Grows DEF Counts, CertInv
    <3> QED BY <2>3, <2>5, <3>1, <3>2
  <2> QED BY <2>1, <2>4, <2>5, CollectorMoves
<1>3. ASSUME NEW m \in published'
      PROVE  Valid(m)' /\ Certified(m.block)'
  <2>1. CASE m \in published
    <3>1. m.block \in Hashes
      BY <2>1, TypeFacts DEF TypeInv, PublishedRecords
    <3> QED BY <2>1, <3>1, ValidGrows, CertifiedGrows DEF CertInv, PublishedIsValid
  <2>2. CASE m \notin published
    <3>1. PICK a \in asks : /\ a.stage = "success" /\ Counts(a) /\ Endorsed(a)
                           /\ UNCHANGED <<blocks, signed>>
      BY <2>2, Footprint DEF Answer
    <3>2. m \in PublishedRecords /\ Valid(m) /\ m.block \in signed[a.to] /\ a.to \in Nodes
      BY <2>2, <3>1, PublishesValid
    <3>3. Certified(m.block) /\ m.block \in Hashes
      BY <3>2, ValidIsCertified DEF PublishedRecords
    <3>4. Valid(m)'
      <4>1. (EnoughNodes(Cardinality(m.from)))' <=> EnoughNodes(Cardinality(m.from))
        BY DEF EnoughNodes
      <4> QED BY <3>1, <3>2, <4>1 DEF Valid
    <3> QED BY <3>3, <3>4, CertifiedGrows
  <2> QED BY <2>1, <2>2
<1>4. ASSUME NEW n \in Nodes, NEW i \in DOMAIN chain'[n], NEW c, c = chain'[n][i]
      PROVE  Certified(c)'
  <2>1. ASSUME NEW m \in Nodes, NEW j \in DOMAIN chain[m], c = chain[m][j]
        PROVE  Certified(c)'
    <3>1. c \in Hashes /\ Certified(c)
      BY <2>1, ChainBasics DEF TypeInv, CertInv
    <3> QED BY <3>1, CertifiedGrows
  <2>2. CASE chain' = chain
    BY <1>4, <2>1, <2>2
  <2>3. ASSUME NEW k \in Nodes, Storager(k)
        PROVE  Certified(c)'
    <3>1. PICK b \in Hashes :
             /\ chain' = [chain EXCEPT ![k] = Append(@, b)]
             /\ \/ \E m \in published : b = m.block
                \/ \E m \in Nodes : \E j \in DOMAIN chain[m] : b = chain[m][j]
      BY <2>3, Stores DEF TypeInv
    <3>2. Certified(b)'
      BY <3>1, CertifiedGrows DEF CertInv
    <3>3. c = b \/ (i \in DOMAIN chain[n] /\ c = chain[n][i])
      BY <1>4, <3>1, Extends DEF TypeInv
    <3> QED BY <2>1, <3>2, <3>3
  <2> QED BY <2>2, <2>3, Footprint
<1> QED BY <1>1, <1>2, <1>3, <1>4 DEF CertInv, PublishedIsValid

-----------------------------------------------------------------------------
\* The blocks of node n that are on their way to endorsers or have been endorsed.
Sent(n) == (InFlight(n) \ {NoHash}) \cup {b \in Own(n) : \E e \in Nodes : b \in signed[e]}

\* A node that has not restarted has sent one block per height at most, and none
\* higher than the one it remembers, which is lower than the one it builds.
SentInv ==
    \A n \in Nodes \ restarted :
        /\ \A b, c \in Sent(n) : blocks[b].height = blocks[c].height => b = c
        /\ \A b \in Sent(n) : /\ blocker[n].pre # NoHash
                              /\ blocks[b].height <= blocks[blocker[n].pre].height
        /\ blocker[n].pre # NoHash =>
              /\ blocker[n].pc = "packing" => blocks[blocker[n].pre].height <= vote[n].height
              /\ blocker[n].pc = "preloading" =>
                    blocks[blocker[n].pre].height < blocks[blocker[n].block].height

\* No place of a chain is like another.
LEMMA AtInjective ==
    ASSUME TypeOK, StoredInv, NEW n \in Nodes, NEW i \in 0 .. Len(chain[n]),
           NEW j \in 0 .. Len(chain[n]), At(chain[n], i) = At(chain[n], j)
    PROVE  i = j
<1>1. \A k \in DOMAIN chain[n] : blocks[chain[n][k]].height = k /\ chain[n][k] # Genesis
  BY ChainBasics DEF StoredInv
<1>2. DOMAIN chain[n] = 1 .. Len(chain[n]) /\ Len(chain[n]) \in Nat
  BY ChainBasics
<1> QED BY <1>1, <1>2 DEF At

\* Two blocks of a node on the same parent are of the same height.
LEMMA SameParentSameHeight ==
    ASSUME TypeOK, ChainInv, NEW n \in Nodes, NEW b \in Own(n), NEW c \in Own(n),
           blocks[b].prev = blocks[c].prev
    PROVE  blocks[b].height = blocks[c].height
<1>1. /\ blocks[b].height \in Nat /\ blocks[c].height \in Nat /\ Len(chain[n]) \in Nat
  BY BlockType, ChainBasics DEF Own
<1>2. /\ blocks[b].height \in 1 .. Len(chain[n]) + 1
      /\ blocks[b].prev = At(chain[n], blocks[b].height - 1)
  BY DEF Own, ChainInv, BuiltInv
<1>3. /\ blocks[c].height \in 1 .. Len(chain[n]) + 1
      /\ blocks[c].prev = At(chain[n], blocks[c].height - 1)
  BY DEF Own, ChainInv, BuiltInv
<1>4. blocks[b].height - 1 \in 0 .. Len(chain[n]) /\ blocks[c].height - 1 \in 0 .. Len(chain[n])
  BY <1>1, <1>2, <1>3
<1>5. blocks[b].height - 1 = blocks[c].height - 1
  BY <1>2, <1>3, <1>4, AtInjective DEF ChainInv
<1> QED BY <1>1, <1>5

LEMMA SentNext ==
    ASSUME TypeInv, OwnInv, [Next]_vars, NEW n \in Nodes
    PROVE  /\ Sent(n)' \subseteq Sent(n) \cup (Finished(n) \ {NoHash})
           /\ Sent(n) \subseteq Own(n)
<1>1. ASSUME NEW b \in Own(n)', NEW e \in Nodes, b \in signed'[e]
      PROVE  b \in Sent(n)
  <2>1. signed \in [Nodes -> SUBSET Hashes]
    BY TypeFacts DEF TypeInv
  <2>2. CASE b \in signed[e]
    BY <1>1, <2>1, <2>2, Grows DEF Own, Sent
  <2>3. CASE b \notin signed[e]
    <3>1. PICK a \in asks : Endorse(a)
      BY <1>1, <2>3, Footprint
    <3>2. b = a.block /\ a.by \in Nodes /\ a.block \in Hashes /\ a.to \in Nodes
      BY <1>1, <2>1, <2>3, <3>1, TypeFacts DEF Endorse, TypeInv, AskRecords
    <3>3. b \in InFlight(a.by) /\ b # NoHash
      BY <3>2 DEF InFlight, Hashes, NoHash
    <3>4. blocks[b].maker = a.by
      BY <3>2, <3>3 DEF OwnInv, Own
    <3>5. a.by = n
      BY <1>1, <3>2, <3>4, Grows DEF Own
    <3> QED BY <3>3, <3>5 DEF Sent
  <2> QED BY <2>2, <2>3
<1>2. (InFlight(n) \ {NoHash})' \subseteq Sent(n) \cup (Finished(n) \ {NoHash})
  <2>1. NoHash' = NoHash
    BY DEF NoHash
  <2> QED BY <2>1, FlightNext DEF Sent
<1>3. Sent(n) \subseteq Own(n)
  BY DEF Sent, OwnInv
<1> QED BY <1>1, <1>2, <1>3 DEF Sent

LEMMA SentInvInit == Init => SentInv
BY DEF Init, SentInv, Sent, InFlight, Own, Hashes, IdleBlocker, IdleCollector

\* The last block a node has finished is below the one it builds.
\* The last part of SentInv.
PreInv(n) ==
    blocker[n].pre # NoHash =>
        /\ blocker[n].pc = "packing" => blocks[blocker[n].pre].height <= vote[n].height
        /\ blocker[n].pc = "preloading" =>
              blocks[blocker[n].pre].height < blocks[blocker[n].block].height

LEMMA PreCreate ==
    ASSUME TypeInv, OwnInv, ChainInv, NEW n \in Nodes, CreateBlock(n), blocker[n].pre # NoHash
    PROVE  blocks[blocker[n].pre].height <= vote[n].height
<1> DEFINE b == blocker[n].pre
<1>1. b \in Own(n)
  BY DEF OwnInv, InFlight
<1>2. /\ blocks[b].height \in 1 .. Len(chain[n]) + 1
      /\ blocks[b].prev = At(chain[n], blocks[b].height - 1)
  BY <1>1 DEF Own, ChainInv, BuiltInv
<1>3. vote[n].hash = Tip(n) /\ vote[n].hash # NoHash /\ blocks[b].prev # vote[n].hash
  BY TipType DEF TypeInv, CreateBlock, NeedsBlock
<1>4. /\ vote[n].height \in 0 .. Len(chain[n])
      /\ vote[n].hash = At(chain[n], vote[n].height) /\ vote[n].hash = At(chain[n], Len(chain[n]))
  BY <1>3, TipIsLast DEF TypeInv, ChainInv, DrawnInv
<1>5. Len(chain[n]) \in Nat /\ Len(chain[n]) \in 0 .. Len(chain[n])
  BY ChainBasics DEF TypeInv
<1>6. vote[n].height = Len(chain[n])
  BY <1>4, <1>5, AtInjective DEF TypeInv, ChainInv
<1>7. blocks[b].height - 1 # Len(chain[n])
  BY <1>2, <1>3, <1>4
<1> QED BY <1>2, <1>5, <1>6, <1>7

LEMMA PreNext ==
    ASSUME TypeInv, OwnInv, ChainInv, [Next]_vars, NEW n \in Nodes, PreInv(n)
    PROVE  PreInv(n)'
<1>1. blocker \in [Nodes -> BlockerRecords] /\ vote \in [Nodes -> VoteRecords]
  BY TypeFacts DEF TypeInv
<1>2. ASSUME blocker[n].pre # NoHash
      PROVE  blocker[n].pre \in Hashes /\ blocks'[blocker[n].pre] = blocks[blocker[n].pre]
  BY <1>1, <1>2, Grows DEF BlockerRecords
<1>3. ASSUME blocker[n].pc = "preloading"
      PROVE  blocker[n].block \in Hashes /\ blocks'[blocker[n].block] = blocks[blocker[n].block]
  BY <1>1, <1>3, Grows DEF TypeInv, StageInv, BlockerRecords
<1>4. CASE blocker'[n] = blocker[n] /\ vote'[n] = vote[n]
  BY <1>2, <1>3, <1>4 DEF PreInv
<1>5. ASSUME NEW m \in Nodes, Voter(m)
      PROVE  PreInv(n)'
  <2>1. PICK i \in Nat : Elect(m, i)
    BY <1>5, VoterElects
  <2>2. blocker' = blocker
    BY <1>5 DEF Voter, DrawBlocker, BlockTimeout, ResetVote
  <2>3. CASE n # m
    <3>1. vote'[n] = vote[n]
      BY <1>1, <2>1, <2>3 DEF Elect
    <3> QED BY <1>4, <2>2, <3>1
  <2>4. CASE n = m /\ blocker[n].pc = "packing" /\ blocker[n].pre # NoHash
    <3>1. vote'[n].height = Len(chain[n]) /\ vote[n].height \in 0 .. Len(chain[n])
      BY <2>1, <2>4, ElectType DEF TypeInv, StageInv, ChainInv, DrawnInv, Height
    <3>2. blocks[blocker[n].pre].height <= vote[n].height /\ blocks[blocker[n].pre].height \in Nat
      BY <1>2, <2>4, BlockType DEF TypeInv, PreInv
    <3>3. blocks[blocker[n].pre].height <= vote'[n].height
      BY <3>1, <3>2, ChainBasics DEF TypeInv
    <3> QED BY <1>2, <2>2, <2>4, <3>3 DEF PreInv
  <2>5. CASE n = m /\ blocker[n].pc # "packing"
    BY <1>2, <1>3, <2>2, <2>5 DEF PreInv
  <2>6. CASE blocker[n].pre = NoHash
    BY <2>2, <2>6 DEF PreInv
  <2> QED BY <2>3, <2>4, <2>5, <2>6
<1>6. ASSUME NEW m \in Nodes, Restart(m)
      PROVE  PreInv(n)'
  <2>1. n = m => blocker'[n] = IdleBlocker
    BY <1>1, <1>6 DEF Restart
  <2>2. n # m => blocker'[n] = blocker[n] /\ vote'[n] = vote[n]
    BY <1>1, <1>6 DEF Restart
  <2> QED BY <1>4, <2>1, <2>2 DEF PreInv, IdleBlocker
<1>7. ASSUME NEW m \in Nodes, Blocker(m)
      PROVE  PreInv(n)'
  <2>1. vote' = vote
    BY <1>7 DEF Blocker, CreateBlock, CollectAgain, BuildBlock, FinishBlock, GiveUpBlock
  <2>2. CASE n # m
    <3>1. blocker'[n] = blocker[n]
      BY <1>1, <1>7, <2>2
         DEF Blocker, CreateBlock, CollectAgain, BuildBlock, FinishBlock, GiveUpBlock
    <3> QED BY <1>4, <2>1, <3>1
  <2>3. CASE n = m /\ CreateBlock(n)
    <3>1. blocker'[n].pre = blocker[n].pre /\ blocker'[n].pc = "packing"
      BY <1>1, <2>3 DEF CreateBlock, BlockerRecords
    <3> QED BY <1>2, <2>1, <2>3, <3>1, PreCreate DEF PreInv
  <2>4. CASE n = m /\ (CollectAgain(n) \/ FinishBlock(n) \/ GiveUpBlock(n))
    <3>1. blocker'[n].pc = "idle"
      <4>1. CASE CollectAgain(n)
        BY <1>1, <4>1 DEF CollectAgain, BlockerRecords
      <4>2. CASE FinishBlock(n)
        BY <1>1, <4>2 DEF FinishBlock, IdleBlocker
      <4>3. CASE GiveUpBlock(n)
        BY <1>1, <4>3 DEF GiveUpBlock, BlockerRecords
      <4> QED BY <2>4, <4>1, <4>2, <4>3
    <3> QED BY <3>1 DEF PreInv
  <2>5. CASE n = m /\ BuildBlock(n)
    <3> DEFINE k == Len(blocks) + 1
    <3>1. blocks'[k].height = vote[n].height + 1
      BY <2>5, TypeFacts DEF TypeInv, BuildBlock
    <3>2. blocker' = [blocker EXCEPT ![n] = [blocker[n] EXCEPT !.pc = "preloading", !.block = k]]
      BY <1>1, <2>5 DEF BuildBlock
    <3>3. /\ blocker'[n].pre = blocker[n].pre /\ blocker'[n].pc = "preloading"
          /\ blocker'[n].block = k
      BY <1>1, <3>2 DEF BlockerRecords
    <3>4. ASSUME blocker[n].pre # NoHash
          PROVE  blocks'[blocker[n].pre].height < blocks'[k].height
      <4>1. /\ blocks[blocker[n].pre].height <= vote[n].height
            /\ blocks[blocker[n].pre].height \in Nat
        BY <1>2, <2>5, <3>4, BlockType DEF TypeInv, PreInv, BuildBlock
      <4>2. vote[n].height \in Nat \cup {-1}
        BY <1>1 DEF VoteRecords
      <4> QED BY <1>2, <3>1, <3>4, <4>1, <4>2
    <3> HIDE DEF k
    <3> QED BY <3>3, <3>4 DEF PreInv
  <2> QED BY <1>7, <2>2, <2>3, <2>4, <2>5 DEF Blocker
<1>8. \/ UNCHANGED <<blocker, vote>> \/ \E m \in Nodes : Voter(m) \/ Restart(m) \/ Blocker(m)
  BY DEF vars, Next, Step, Collector, Storager, Request, CollectEndorsement, DelayResend,
         FetchBlock, ConfirmBlock, SendRequest, Endorse, Answer, RequestTimeout
<1> QED BY <1>4, <1>5, <1>6, <1>7, <1>8

LEMMA SentInvNext ==
    ASSUME TypeInv, OwnInv, ChainInv, SentInv, [Next]_vars
    PROVE  SentInv'
<1> SUFFICES ASSUME NEW n \in Nodes, n \notin restarted'
             PROVE  /\ \A b, c \in Sent(n)' : blocks'[b].height = blocks'[c].height => b = c
                    /\ \A b \in Sent(n)' :
                          /\ blocker'[n].pre # NoHash
                          /\ blocks'[b].height <= blocks'[blocker'[n].pre].height
                    /\ PreInv(n)'
  BY DEF SentInv, PreInv, NoHash
<1>1. n \notin restarted /\ PreInv(n)
  BY Grows DEF SentInv, PreInv
<1>2. blocker \in [Nodes -> BlockerRecords]
  BY TypeFacts DEF TypeInv
<1>3. \A b \in Sent(n) : /\ b \in Hashes /\ blocks'[b] = blocks[b] /\ blocks[b].height \in Nat
                         /\ blocker[n].pre # NoHash
                         /\ blocks[b].height <= blocks[blocker[n].pre].height
  BY <1>1, SentNext, Grows, BlockType DEF Own, SentInv, TypeInv
<1>4. \A b, c \in Sent(n) : blocks[b].height = blocks[c].height => b = c
  BY <1>1 DEF SentInv
<1>5. CASE ~FinishBlock(n)
  <2>1. Sent(n)' \subseteq Sent(n)
    BY <1>5, SentNext DEF Finished
  <2>2. blocker'[n].pre = blocker[n].pre
    <3>1. ASSUME NEW m \in Nodes, Blocker(m)
          PROVE  blocker'[n].pre = blocker[n].pre
      <4>1. CASE n # m
        BY <1>2, <3>1, <4>1
           DEF Blocker, CreateBlock, CollectAgain, BuildBlock, FinishBlock, GiveUpBlock
      <4>2. CASE CreateBlock(m)
        BY <1>2, <4>2 DEF CreateBlock, BlockerRecords
      <4>3. CASE CollectAgain(m)
        BY <1>2, <4>3 DEF CollectAgain, BlockerRecords
      <4>4. CASE BuildBlock(m)
        BY <1>2, <4>4 DEF BuildBlock, BlockerRecords
      <4>5. CASE GiveUpBlock(m)
        BY <1>2, <4>5 DEF GiveUpBlock, BlockerRecords
      <4> QED BY <1>5, <3>1, <4>1, <4>2, <4>3, <4>4, <4>5 DEF Blocker
    <3>2. ASSUME NEW m \in Nodes, Restart(m)
          PROVE  blocker'[n].pre = blocker[n].pre
      <4>1. m # n
        BY <3>2 DEF Restart
      <4> QED BY <1>2, <3>2, <4>1 DEF Restart
    <3>3. blocker' = blocker \/ \E m \in Nodes : Blocker(m) \/ Restart(m)
      BY DEF vars, Next, Step, Voter, Collector, Storager, Request, DrawBlocker,
             BlockTimeout, ResetVote, CollectEndorsement, DelayResend, FetchBlock, ConfirmBlock,
             SendRequest, Endorse, Answer, RequestTimeout
    <3> QED BY <3>1, <3>2, <3>3
  <2>3. blocker[n].pre # NoHash => blocks'[blocker[n].pre] = blocks[blocker[n].pre]
    BY <1>2, Grows DEF BlockerRecords
  <2>4. PreInv(n)'
    BY <1>1, PreNext
  <2> QED BY <1>3, <1>4, <2>1, <2>2, <2>3, <2>4
<1>6. CASE FinishBlock(n)
  <2> DEFINE k == blocker[n].block
  <2>1. /\ k \in Hashes /\ blocks'[k] = blocks[k] /\ blocks[k].height \in Nat
    BY <1>2, <1>6, Grows, BlockType DEF TypeInv, StageInv, FinishBlock, BlockerRecords
  <2>2. blocker'[n].pre = k /\ k # NoHash /\ blocker'[n].pc = "idle"
    BY <1>2, <1>6 DEF TypeInv, StageInv, FinishBlock, IdleBlocker
  <2>3. Sent(n)' \subseteq Sent(n) \cup {k}
    BY <1>6, SentNext DEF Finished
  <2>4. ASSUME NEW b \in Sent(n)
        PROVE  blocks[b].height < blocks[k].height
    <3>1. blocks[blocker[n].pre].height < blocks[k].height
      BY <1>1, <1>3, <1>6 DEF PreInv, FinishBlock
    <3>2. blocks[blocker[n].pre].height \in Nat
      BY <1>2, <1>3, BlockType DEF TypeInv, BlockerRecords
    <3> QED BY <1>3, <2>1, <3>1, <3>2
  <2>5. PreInv(n)'
    BY <2>2 DEF PreInv
  <2> HIDE DEF k
  <2>6. ASSUME NEW b \in Sent(n)', NEW c \in Sent(n)', blocks'[b].height = blocks'[c].height
        PROVE  b = c
    <3>1. b \in Sent(n) \cup {k} /\ c \in Sent(n) \cup {k}
      BY <2>3
    <3>2. CASE b \in Sent(n) /\ c \in Sent(n)
      BY <1>3, <1>4, <2>6, <3>2
    <3>3. CASE b \in Sent(n) /\ c = k
      BY <1>3, <2>1, <2>4, <2>6, <3>3
    <3>4. CASE b = k /\ c \in Sent(n)
      BY <1>3, <2>1, <2>4, <2>6, <3>4
    <3> QED BY <3>1, <3>2, <3>3, <3>4
  <2>7. ASSUME NEW b \in Sent(n)'
        PROVE  blocks'[b].height <= blocks'[k].height
    <3>1. CASE b = k
      BY <2>1, <3>1
    <3>2. CASE b \in Sent(n)
      BY <1>3, <2>1, <2>4, <3>2
    <3> QED BY <2>3, <3>1, <3>2
  <2> QED BY <2>2, <2>5, <2>6, <2>7
<1> QED BY <1>5, <1>6

-----------------------------------------------------------------------------
\* The inductive invariant.
Invariant == TypeInv /\ OwnInv /\ ChainInv /\ CertInv /\ SentInv

LEMMA InvariantInit == Init => Invariant
BY TypeInvInit, OwnInvInit, ChainInvInit, CertInvInit, SentInvInit DEF Invariant

LEMMA InvariantNext == Invariant /\ [Next]_vars => Invariant'
BY TypeInvNext, OwnInvNext, ChainInvNext, CertInvNext, SentInvNext DEF Invariant

LEMMA InvariantCorrect == Spec => []Invariant
BY InvariantInit, InvariantNext, PTL DEF Spec

LEMMA OneBlockInvariant == Invariant => OneBlockPerParent
<1> SUFFICES ASSUME Invariant, NEW b \in UNION {signed[n] : n \in Nodes},
                    NEW c \in UNION {signed[n] : n \in Nodes},
                    blocks[b].maker = blocks[c].maker, blocks[b].prev = blocks[c].prev,
                    blocks[b].maker \notin restarted
             PROVE  b = c
  BY DEF OneBlockPerParent
<1> DEFINE n == blocks[b].maker
<1>1. b \in Hashes /\ c \in Hashes
  BY TypeFacts DEF Invariant, TypeInv
<1>2. n \in Nodes /\ b \in Own(n) /\ c \in Own(n)
  BY <1>1, BlockType DEF Own, Invariant, TypeInv
<1>3. b \in Sent(n) /\ c \in Sent(n)
  BY <1>2 DEF Sent
<1>4. blocks[b].height = blocks[c].height
  BY <1>2, SameParentSameHeight DEF Invariant, TypeInv
<1> QED BY <1>2, <1>3, <1>4 DEF Invariant, SentInv

LEMMA ForksInvariant == Invariant => ForksAreEquivocation
<1> SUFFICES ASSUME Invariant, NEW m \in Nodes, NEW n \in Nodes, NEW h \in 1 .. Height(m),
                    h <= Height(n)
             PROVE  \E e \in Nodes : {chain[m][h], chain[n][h]} \subseteq Vouched(e)
  BY DEF ForksAreEquivocation
<1>1. h \in DOMAIN chain[m] /\ h \in DOMAIN chain[n]
  BY ChainBasics DEF Height, Invariant, TypeInv
<1>2. Certified(chain[m][h]) /\ Certified(chain[n][h])
  BY <1>1 DEF Invariant, CertInv
<1>3. Vouchers(chain[m][h]) \cap Vouchers(chain[n][h]) # {}
  BY <1>2, EnoughIsMost DEF Certified, Vouchers
<1> QED BY <1>3 DEF Vouchers

-----------------------------------------------------------------------------
(* Agreement.                                                               *)

\* The schedule lets no voter move to another index.
NobodyTimesOut == \A n \in Nodes : schedule.index[n] = 0

\* As long as nobody times out, only the first candidate of a parent is drawn, and only
\* its blocks are endorsed.
ElectedInv ==
    NobodyTimesOut =>
        /\ \A n \in Nodes : vote[n].hash # NoHash =>
              vote[n].blocker = CandidateAt(vote[n].hash, 0) /\ vote[n].index = 0
        /\ \A n \in Nodes : \A b \in signed[n] :
              blocks[b].maker = CandidateAt(blocks[b].prev, 0)

LEMMA ElectedInvInit == Init => ElectedInv
BY DEF Init, ElectedInv, NoVote

LEMMA ElectedInvNext ==
    ASSUME TypeInv, OwnInv, ElectedInv, [Next]_vars
    PROVE  ElectedInv'
<1> SUFFICES ASSUME NobodyTimesOut'
             PROVE  /\ \A n \in Nodes : vote'[n].hash # NoHash =>
                          /\ vote'[n].blocker = CandidateAt(vote'[n].hash, 0)
                          /\ vote'[n].index = 0
                    /\ \A n \in Nodes : \A b \in signed'[n] :
                          blocks'[b].maker = CandidateAt(blocks'[b].prev, 0)
  BY DEF ElectedInv, NoHash, CandidateAt
<1>1. NobodyTimesOut
  BY Footprint DEF NobodyTimesOut
<1>2. vote \in [Nodes -> VoteRecords] /\ signed \in [Nodes -> SUBSET Hashes]
  BY TypeFacts DEF TypeInv
<1>3. ASSUME NEW n \in Nodes, vote'[n].hash # NoHash
      PROVE  vote'[n].blocker = CandidateAt(vote'[n].hash, 0) /\ vote'[n].index = 0
  <2>1. CASE vote'[n] = vote[n]
    BY <1>1, <1>3, <2>1 DEF ElectedInv
  <2>2. ASSUME NEW m \in Nodes, Restart(m)
        PROVE  vote'[n] = vote[n]
    BY <1>2, <1>3, <2>2 DEF Restart, NoVote
  <2>3. ASSUME NEW m \in Nodes, Voter(m), vote'[n] # vote[n]
        PROVE  vote'[n].blocker = CandidateAt(vote'[n].hash, 0) /\ vote'[n].index = 0
    <3>1. n = m /\ Elect(n, 0)
      <4>1. ~BlockTimeout(m)
        <5>1. vote[m].hash = Tip(m) => vote[m].index = 0
          BY <1>1, TipType DEF ElectedInv, TypeInv
        <5>2. schedule.index[m] = 0
          BY <1>1 DEF NobodyTimesOut
        <5> QED BY <5>1, <5>2 DEF BlockTimeout
      <4>2. Elect(m, 0)
        BY <2>3, <4>1 DEF Voter, DrawBlocker, ResetVote
      <4>3. n = m
        BY <1>2, <2>3, <4>2 DEF Elect
      <4> QED BY <4>2, <4>3
    <3> QED BY <3>1, ElectType DEF TypeInv
  <2> QED BY <2>1, <2>2, <2>3, Footprint
<1>4. ASSUME NEW n \in Nodes, NEW b \in signed'[n]
      PROVE  blocks'[b].maker = CandidateAt(blocks'[b].prev, 0)
  <2>1. CASE b \in signed[n]
    BY <1>1, <1>2, <2>1, Grows DEF ElectedInv
  <2>2. CASE b \notin signed[n]
    <3>1. PICK a \in asks : Endorse(a)
      BY <1>4, <2>2, Footprint
    <3>2. a \in AskRecords /\ a.to \in Nodes /\ a.by \in Nodes /\ a.block \in Hashes
      BY TypeFacts DEF TypeInv, AskRecords
    <3>3. b = a.block /\ MayEndorse(a)
      BY <1>2, <1>4, <2>2, <3>1, <3>2 DEF Endorse, EndorseResult
    <3>4. /\ blocks[b].prev = vote[a.to].hash /\ vote[a.to].blocker = a.by
      BY <3>3 DEF MayEndorse
    <3>5. blocks[b].prev # NoHash /\ blocks'[b] = blocks[b]
      BY <3>2, <3>3, BlockType, Grows, ConstantFacts DEF TypeInv, NoHash
    <3>6. blocks[b].maker = a.by
      <4>1. b \in InFlight(a.by) /\ b # NoHash
        BY <3>2, <3>3 DEF InFlight, Hashes, NoHash
      <4> QED BY <3>2, <4>1 DEF OwnInv, Own
    <3> QED BY <1>1, <3>2, <3>4, <3>5, <3>6 DEF ElectedInv
  <2> QED BY <2>1, <2>2
<1> QED BY <1>3, <1>4

LEMMA AgreementNext ==
    ASSUME Invariant, Invariant', ElectedInv', AgreementUnlessTimedOut, [Next]_vars
    PROVE  AgreementUnlessTimedOut'
<1> SUFFICES ASSUME NobodyTimesOut', restarted' = {}
             PROVE  Agreement'
  BY DEF AgreementUnlessTimedOut, NobodyTimesOut
<1>1. Agreement
  BY Footprint, Grows DEF AgreementUnlessTimedOut, NobodyTimesOut, Invariant
<1>2. CASE chain' = chain
  BY <1>1, <1>2 DEF Agreement, Height
<1>3. ASSUME NEW k \in Nodes, Storager(k)
      PROVE  Agreement'
  <2>1. PICK s \in Hashes : Fits(k, s) /\ chain' = [chain EXCEPT ![k] = Append(@, s)]
    BY <1>3, Stores DEF Invariant, TypeInv
  <2>2. /\ Len(chain[k]) \in Nat /\ Len(chain'[k]) = Len(chain[k]) + 1
        /\ \A i \in DOMAIN chain[k] : chain'[k][i] = chain[k][i]
        /\ DOMAIN chain[k] = 1 .. Len(chain[k])
        /\ \A m \in Nodes \ {k} : chain'[m] = chain[m]
    BY <2>1, Extends DEF Invariant, TypeInv
  <2>3. ASSUME NEW m \in Nodes, NEW n \in Nodes, NEW h \in 1 .. Len(chain'[m]),
               h <= Len(chain'[n])
        PROVE  chain'[m][h] = chain'[n][h]
    <3>1. CASE h <= Len(chain[m]) /\ h <= Len(chain[n])
      <4>1. chain[m][h] = chain[n][h]
        BY <1>1, <2>3, <3>1, ChainBasics DEF Agreement, Height, Invariant, TypeInv
      <4>2. chain'[m][h] = chain[m][h] /\ chain'[n][h] = chain[n][h]
        BY <2>2, <2>3, <3>1
      <4> QED BY <4>1, <4>2
    <3>2. CASE m = n
      BY <3>2
    <3>3. CASE m # n /\ ~(h <= Len(chain[m]) /\ h <= Len(chain[n]))
      <4>1. /\ Len(chain[m]) \in Nat /\ Len(chain[n]) \in Nat
            /\ Len(chain'[m]) \in Nat /\ Len(chain'[n]) \in Nat
        BY ChainBasics, <2>2 DEF Invariant, TypeInv
      <4>2. \/ m = k /\ h = Len(chain[k]) + 1 /\ h <= Len(chain[n])
            \/ n = k /\ h = Len(chain[k]) + 1 /\ h <= Len(chain[m])
        BY <2>2, <2>3, <3>3, <4>1
      <4>3. h - 1 \in 0 .. Len(chain[m]) /\ h - 1 \in 0 .. Len(chain[n])
        BY <2>2, <4>1, <4>2
      <4>4. At(chain'[m], h - 1) = At(chain'[n], h - 1)
        <5>1. At(chain[m], h - 1) = At(chain[n], h - 1)
          BY <1>1, <4>1, <4>3 DEF Agreement, Height, At
        <5> QED BY <4>3, <5>1, AtGrows DEF Invariant
      <4>5. h \in DOMAIN chain'[m] /\ h \in DOMAIN chain'[n]
        <5>1. chain' \in [Nodes -> Seq(Hashes')]
          BY TypeFacts DEF Invariant, TypeInv, TypeOK
        <5> QED BY <2>3, <5>1
      <4>6. \A x \in Nodes : h \in DOMAIN chain'[x] =>
               blocks'[chain'[x][h]].prev = At(chain'[x], h - 1)
        BY DEF Invariant, ChainInv, StoredInv
      <4>7. ASSUME NEW b, NEW c, b = chain'[m][h], c = chain'[n][h]
            PROVE  b = c
        <5>1. b \in Hashes' /\ c \in Hashes'
          <6>1. chain' \in [Nodes -> Seq(Hashes')]
            BY DEF Invariant, TypeInv, TypeOK
          <6> QED BY <4>5, <4>7, <6>1
        <5>2. Certified(b)' /\ Certified(c)'
          BY <4>5, <4>7 DEF Invariant, CertInv
        <5>3. blocks'[b].prev = blocks'[c].prev
          BY <4>4, <4>5, <4>6, <4>7
        <5>4. OneBlockPerParent'
          BY OneBlockInvariant, PTL
        <5>5. b \in UNION {signed'[x] : x \in Nodes} /\ c \in UNION {signed'[x] : x \in Nodes}
          BY <5>2 DEF Certified
        <5>6. /\ blocks'[b].maker = CandidateAt(blocks'[b].prev, 0)
              /\ blocks'[c].maker = CandidateAt(blocks'[c].prev, 0)
          BY <5>5 DEF ElectedInv, CandidateAt
        <5>7. blocks'[b].maker = blocks'[c].maker /\ blocks'[b].maker \notin restarted'
          BY <5>3, <5>6
        <5> QED BY <5>3, <5>4, <5>5, <5>7 DEF OneBlockPerParent
      <4> QED BY <4>7
    <3> QED BY <3>1, <3>2, <3>3
  <2> QED BY <2>3 DEF Agreement, Height
<1> QED BY <1>2, <1>3, Footprint

-----------------------------------------------------------------------------
(* The theorems.                                                            *)

\* What a collector publishes is accepted by every confirmer: it counts an answer for
\* the block it collects only, and clears the count with the block.
THEOREM PublishedIsValidCorrect == Spec => []PublishedIsValid
<1>1. Invariant => PublishedIsValid
  BY DEF Invariant, CertInv
<1> QED BY <1>1, InvariantCorrect, PTL

\* A blocker that does not restart has one block endorsed on a parent: preblock is
\* never lower than what it has sent.
THEOREM OneBlockCorrect == Spec => []OneBlockPerParent
BY InvariantCorrect, OneBlockInvariant, PTL

\* Whenever two nodes store different blocks at a height, some node has signed both.
THEOREM ForksCorrect == Spec => []ForksAreEquivocation
BY InvariantCorrect, ForksInvariant, PTL

LEMMA AgreementInit == Init => AgreementUnlessTimedOut
BY DEF Init, AgreementUnlessTimedOut, Agreement, Height

\* Without a time-out of a voter and a restart all nodes store the same blocks, whatever
\* is lost, late or repeated: two certificates share an endorser, which signed for the
\* candidate of the parent only, and that node has sent one block.
THEOREM AgreementCorrect == Spec => []AgreementUnlessTimedOut
<1> DEFINE Agrees == Invariant /\ ElectedInv /\ AgreementUnlessTimedOut
<1>1. Init => Agrees
  BY InvariantInit, ElectedInvInit, AgreementInit
<1>2. Agrees /\ [Next]_vars => Agrees'
  <2> SUFFICES ASSUME Agrees, [Next]_vars PROVE Agrees'
    OBVIOUS
  <2>1. Invariant'
    BY InvariantNext
  <2>2. ElectedInv'
    BY ElectedInvNext DEF Invariant
  <2> QED BY <2>1, <2>2, AgreementNext
<1>3. Agrees => AgreementUnlessTimedOut
  OBVIOUS
<1> HIDE DEF Agrees
<1> QED BY <1>1, <1>2, <1>3, PTL DEF Spec

\* No node takes back a block that it has stored, or an endorsement.
TakesNothingBack ==
    \A n \in Nodes : /\ Len(chain[n]) <= Len(chain'[n])
                     /\ \A i \in DOMAIN chain[n] : chain'[n][i] = chain[n][i]
                     /\ signed[n] \subseteq signed'[n]

\* Stored blocks and endorsements outlive every step, a restart included.
THEOREM NothingTakenBack == Spec => [][TakesNothingBack]_vars
<1>1. TypeInv /\ [Next]_vars => TakesNothingBack
  BY Grows DEF TakesNothingBack
<1> QED BY <1>1, TypeInvCorrect, PTL DEF Spec
=============================================================================
