------------------------------ MODULE NodeSync ------------------------------
(***************************************************************************)
(* How one node follows the chain of the others: the storager with its     *)
(* block cache (network/persistence) and the requester of synchronisation  *)
(* with its analyzer (network/sync), against peers that answer it.         *)
(*                                                                         *)
(* Storager and requester are two actors.  They share the block cache, the *)
(* chain status in memory (PeerExtension) and the blocks on disk, and they *)
(* run concurrently: the storager reads the status, saves a block and only *)
(* then renews the status; the requester rolls back and fetches meanwhile. *)
(*                                                                         *)
(* A block hash commits to all blocks beneath, so a block is written as    *)
(* the chain that ends in it: its height is the length, its parent all but *)
(* the last element, the empty chain is the empty hash.                    *)
(***************************************************************************)
EXTENDS Integers, Sequences, FiniteSets

CONSTANTS Nodes,       \* the nodes of the vote list
          Me,          \* the node that is modelled in detail
          Maker(_),    \* the node that builds the block of a height
          Starts,      \* [net, rest, disk]: where the network and Me start, and
                       \* the height at which the network rests
          MaxHeight,   \* bound: blocks of the network
          MaxMail,     \* bound: messages in a mailbox
          MaxFaults    \* bound: answers lost or late, and restarts of Me

Chains == UNION {[1 .. h -> {"main", "fork"}] : h \in 0 .. MaxHeight}

ASSUME SyncAssumption ==
    /\ IsFiniteSet(Nodes) /\ Me \in Nodes
    /\ \A h \in 1 .. MaxHeight : Maker(h) \in Nodes \ {Me}
    /\ Starts \subseteq [net : 0 .. MaxHeight, rest : 1 .. MaxHeight, disk : Chains]
    /\ \A s \in Starts : s.net <= s.rest
    /\ MaxHeight \in Nat /\ MaxMail \in Nat \ {0}
    /\ MaxFaults \in Nat

VARIABLES net,        \* height of the network: blocks endorsed so far
          rest,       \* the height it does not grow beyond
          disk,       \* the chain each node has stored
          tip,        \* Me: the chain status in memory
          cache,      \* Me: the block cache by height: [block, from]
          inbox,      \* the storager's mailbox
          storager,   \* what the storager is doing
          mail,       \* the requester's mailbox
          requester,  \* what the requester is doing
          timer,      \* StartSync to come in a second: its argument, or nothing
          delivered,  \* heights whose published block has reached Me
          joined,     \* has the synchronisation at start-up been asked for?
          split,      \* history: a rollback has left tip and disk apart
          faults      \* answers lost and restarts so far

network == <<net, rest, delivered>>
mine == <<tip, cache, inbox, storager, mail, requester, timer, joined, split>>
vars == <<net, rest, disk, tip, cache, inbox, storager, mail, requester, timer,
          delivered, joined, split, faults>>

-----------------------------------------------------------------------------
(* Data.                                                                    *)

\* The seed node builds the genesis block.
Seed == Maker(1)

Main(h) == [i \in 1 .. h |-> "main"]
Prev(c) == SubSeq(c, 1, Len(c) - 1)
IsPart(b, c) == Len(b) <= Len(c) /\ SubSeq(c, 1, Len(b)) = b

\* ConsensusConditionChecked, number_of_endorsement = 2.
IsQuorum(S) == Cardinality(S) >= Cardinality(Nodes) \div 2 + 1

Holders(b) == {n \in Nodes : IsPart(b, disk[n])}

Batch == [type |-> "batch"]
Restore(b, p) == [type |-> "restore", block |-> b, from |-> p]
StartSync(startup) == [type |-> "start", startup |-> startup]
SyncRequest(p, h) == [type |-> "blocks", from |-> p, max |-> h]

IdleStorager == [pc |-> "idle", loop |-> 0, max |-> 0, local |-> 0]
IdleRequester == [pc |-> "idle"]
NoTimer == {}
NoBlocks == [h \in {} |-> 0]

\* pe.isSynching: the requester sets it for as long as it works on a message.
Synching == requester.pc # "idle"

Cached(b, p) == [h \in DOMAIN cache \cup {Len(b)} |->
                    IF h = Len(b) THEN [block |-> b, from |-> p] ELSE cache[h]]
Uncached(h) == [g \in DOMAIN cache \ {h} |-> cache[g]]

LowestOf(S) == CHOOSE h \in S : \A g \in S : h <= g
HighestOf(S) == CHOOSE h \in S : \A g \in S : g <= h

Sent(box, m) == IF Len(box) < MaxMail THEN Append(box, m) ELSE box

-----------------------------------------------------------------------------
(* The network.                                                             *)

\* A block is endorsed on top of the last one; the seed node builds the first.
NewBlock ==
    /\ net < rest
    /\ net > 0 => IsQuorum(Holders(Main(net)))
    /\ net' = net + 1
    /\ disk' = IF net = 0 THEN [disk EXCEPT ![Seed] = Main(1)] ELSE disk
    /\ UNCHANGED <<rest, mine, delivered, faults>>

\* Another node stores the next block.
PeerStores(p) ==
    /\ p # Me /\ Len(disk[p]) < net
    /\ disk' = [disk EXCEPT ![p] = Append(@, "main")]
    /\ UNCHANGED <<network, mine, faults>>

\* ConfirmOfBlock: the published block of height h reaches Me, once or never, and
\* is put into the cache; the storager is told.
Confirm(h) ==
    /\ h \in 1 .. net \ delivered
    /\ Len(inbox) < MaxMail
    /\ delivered' = delivered \cup {h}
    /\ cache' = Cached(Main(h), Maker(h))
    /\ inbox' = Append(inbox, Batch)
    /\ UNCHANGED <<net, rest, disk, tip, storager, mail, requester, timer, joined, split,
                   faults>>

\* Enough nodes are stable: MemberListener asks once to synchronise.
Join ==
    /\ ~joined /\ Len(mail) < MaxMail
    /\ joined' = TRUE
    /\ mail' = Append(mail, StartSync(TRUE))
    /\ UNCHANGED <<network, disk, tip, cache, inbox, storager, requester, timer, split,
                   faults>>

\* Endorser4Future: Me is asked to endorse the next block of the network, which
\* is too high for it.
AskedTooHigh ==
    /\ Len(tip) < net /\ ~Synching
    /\ StartSync(FALSE) \notin {mail[i] : i \in DOMAIN mail}
    /\ Len(mail) < MaxMail
    /\ mail' = Append(mail, StartSync(FALSE))
    /\ UNCHANGED <<network, disk, tip, cache, inbox, storager, requester, timer, joined,
                   split, faults>>

-----------------------------------------------------------------------------
(* The storager.                                                            *)

\* Handler: a status of height 0 is loaded, and the loop over the heights in
\* the cache begins at the lowest.
BeginHandler ==
    /\ storager.pc = "idle" /\ inbox # <<>>
    /\ inbox' = Tail(inbox)
    /\ LET m == Head(inbox)
       IN  cache' = IF m.type = "restore" THEN Cached(m.block, m.from) ELSE cache
    /\ tip' = IF tip = <<>> THEN disk[Me] ELSE tip
    /\ storager' = IF cache' = NoBlocks THEN IdleStorager
                   ELSE [pc |-> "loop", loop |-> LowestOf(DOMAIN cache'),
                         max |-> HighestOf(DOMAIN cache'), local |-> Len(tip')]
    /\ UNCHANGED <<network, disk, mail, requester, timer, joined, split, faults>>

InLoop == storager.pc = "loop" /\ storager.loop <= storager.max
Entry == cache[storager.loop]

\* The loop is over, or it meets a height that is not in the cache, which throws.
EndHandler ==
    /\ storager.pc = "loop"
    /\ storager.loop > storager.max \/ storager.loop \notin DOMAIN cache
    /\ storager' = IdleStorager
    /\ UNCHANGED <<network, disk, tip, cache, inbox, mail, requester, timer, joined, split,
                   faults>>

\* A block too high: the blocks between are asked for, unless a synchronisation
\* is running, and the loop is left.
MeetGap ==
    /\ InLoop /\ storager.loop \in DOMAIN cache
    /\ storager.loop > storager.local + 1
    /\ mail' = IF Synching THEN mail
               ELSE Sent(mail, SyncRequest(Entry.from, HighestOf(DOMAIN cache)))
    /\ storager' = IdleStorager
    /\ UNCHANGED <<network, disk, tip, cache, inbox, requester, timer, joined, split, faults>>

\* A handler that would end with the first block it saves.
MutOneBlock(local) == IdleStorager

NextHeight(local) ==
    [pc |-> "loop", loop |-> storager.loop + 1, max |-> storager.max, local |-> local]

\* RestoreBlock compares with the status in memory.
Due == InLoop /\ storager.loop \in DOMAIN cache /\ storager.loop <= storager.local + 1
Fits == Len(Entry.block) = Len(tip) + 1 /\ Prev(Entry.block) = tip

\* SaveBlock, up to the database: it compares with the last block on disk, and
\* a block that is the last one already counts as saved.
SaveBlock ==
    /\ Due /\ Fits
    /\ disk[Me] \in {Entry.block, Prev(Entry.block)}
    /\ disk' = [disk EXCEPT ![Me] = Entry.block]
    /\ storager' = [pc |-> "saved", loop |-> storager.loop, max |-> storager.max,
                    block |-> Entry.block]
    /\ UNCHANGED <<network, tip, cache, inbox, mail, requester, timer, joined, split, faults>>

\* A save that would leave the status in memory alone.
MutKeepStatus ==
    /\ storager.pc = "saved"
    /\ cache' = Uncached(storager.loop)
    /\ storager' = NextHeight(storager.loop)
    /\ UNCHANGED <<network, disk, tip, inbox, mail, requester, timer, joined, split, faults>>

\* SaveBlock, what follows: the status in memory, then the cache.
RenewStatus ==
    /\ storager.pc = "saved"
    /\ tip' = storager.block
    /\ cache' = Uncached(storager.loop)
    /\ storager' = NextHeight(storager.loop)
    /\ UNCHANGED <<network, disk, inbox, mail, requester, timer, joined, split, faults>>

\* The save fails, the block is not on top of the status in memory, or it is not
\* higher: it is dropped; the second of these starts a synchronisation.
DropBlock ==
    /\ Due /\ storager.loop <= Len(tip) + 1
    /\ Fits => disk[Me] \notin {Entry.block, Prev(Entry.block)}
    /\ cache' = Uncached(storager.loop)
    /\ mail' = IF storager.loop = Len(tip) + 1 /\ Prev(Entry.block) # tip
               THEN Sent(mail, StartSync(FALSE)) ELSE mail
    /\ storager' = NextHeight(storager.local)
    /\ UNCHANGED <<network, disk, tip, inbox, requester, timer, joined, split, faults>>

\* The status in memory was rolled back since the loop began: nothing is done.
PassBlock ==
    /\ Due /\ storager.loop > Len(tip) + 1
    /\ storager' = NextHeight(storager.local)
    /\ UNCHANGED <<network, disk, tip, cache, inbox, mail, requester, timer, joined, split,
                   faults>>

-----------------------------------------------------------------------------
(* The requester.                                                           *)

\* StartSync: a status of height 0 is loaded; every stable node, Me included, is
\* asked for its chain info and its block at the height of Me.
AskChainInfos ==
    /\ ~Synching /\ mail # <<>> /\ Head(mail).type = "start"
    /\ mail' = Tail(mail)
    /\ timer' = NoTimer
    /\ tip' = IF tip = <<>> THEN disk[Me] ELSE tip
    /\ requester' = [pc |-> "asking", startup |-> Head(mail).startup, height |-> Len(tip'),
                     wait |-> Nodes, answers |-> [p \in {} |-> <<>>]]
    /\ UNCHANGED <<network, disk, cache, inbox, storager, joined, split, faults>>

\* SynchronizeResponser answers with its last block and the one asked for: both
\* are part of its chain.
AnswerChainInfo(p) ==
    /\ requester.pc = "asking" /\ p \in requester.wait
    /\ requester' = [requester EXCEPT
          !.wait = @ \ {p},
          !.answers = [q \in DOMAIN @ \cup {p} |-> IF q = p THEN disk[p] ELSE @[q]]]
    /\ UNCHANGED <<network, disk, tip, cache, inbox, storager, mail, timer, joined, split,
                   faults>>

\* No answer in time.
LoseChainInfo(p) ==
    /\ requester.pc = "asking" /\ p \in requester.wait
    /\ faults < MaxFaults
    /\ faults' = faults + 1
    /\ requester' = [requester EXCEPT !.wait = @ \ {p}]
    /\ UNCHANGED <<network, disk, tip, cache, inbox, storager, mail, timer, joined, split>>

\* What the analysis decides: a height to roll back to, and blocks to fetch.
Plan(to, start, end, p) ==
    [pc |-> "acting", startup |-> requester.startup, to |-> to, start |-> start,
     end |-> end, server |-> p]
Keep == -1
Fetch(start, end, servers) == {Plan(Keep, start, end, p) : p \in servers}
RollBackAndFetch(to, start, end, servers) == {Plan(to, start, end, p) : p \in servers}
RollBack(to) == {Plan(to, 0, 0, Me)}
Nothing == {IdleRequester}

Answers == requester.answers
AtHeight(h) == {p \in DOMAIN Answers : Len(Answers[p]) = h}

\* ChainInfoOfSpecifiedHeight: the block at the height asked for, if it is below
\* the last block of p.
Specified(p) ==
    IF 0 < requester.height /\ requester.height < Len(Answers[p])
    THEN SubSeq(Answers[p], 1, requester.height) ELSE <<>>

\* greaterThanLocalHeight: a quorum ends in block b, which is higher than Me.
GreaterPlans(b) ==
    LET at(c) == {p \in AtHeight(Len(b)) : Specified(p) = c}
        agreed == {c \in {Specified(p) : p \in AtHeight(Len(b))} : IsQuorum(at(c))}
        servers(c) == {p \in at(c) : Answers[p] = b}
    IN  IF tip = <<>> THEN Fetch(0, Len(b), AtHeight(Len(b)))
        ELSE IF agreed = {} THEN Nothing
        ELSE UNION {IF c = tip THEN Fetch(Len(tip), Len(b), servers(c))
                    ELSE IF Prev(c) = Prev(tip)
                    THEN RollBackAndFetch(Len(tip) - 1, Len(tip), Len(b), servers(c))
                    ELSE Nothing : c \in agreed}

\* An equalLocalHeight that would not look at its own last block.
MutEqualPlans(b) ==
    LET servers == {p \in DOMAIN Answers : Answers[p] = b}
    IN  IF b = <<>>
        THEN IF Seed \in AtHeight(1) THEN Fetch(0, 1, {Seed}) ELSE Nothing
        ELSE IF Prev(b) = Prev(tip)
        THEN RollBackAndFetch(Len(tip) - 1, Len(tip) - 1, Len(b), servers)
        ELSE Nothing

\* equalLocalHeight: if nobody has a block, the genesis block of the seed node.
EqualPlans(b) ==
    LET servers == {p \in DOMAIN Answers : Answers[p] = b}
    IN  IF b = <<>>
        THEN IF Seed \in AtHeight(1) THEN Fetch(0, 1, {Seed}) ELSE Nothing
        ELSE IF b = tip THEN Nothing
        ELSE IF Prev(b) = Prev(tip)
        THEN RollBackAndFetch(Len(tip) - 1, Len(tip) - 1, Len(b), servers)
        ELSE Nothing

\* lessThanLocalHeight, at start-up only.  The test that Me has the block of the
\* quorum compares an Option with null and always succeeds.
LessPlans(b) ==
    IF requester.startup /\ b # <<>> THEN RollBack(Len(b)) ELSE Nothing

\* The heights, and the last blocks at a height, that a quorum agrees on.
AgreedHeights == {h \in 0 .. MaxHeight : IsQuorum(AtHeight(h))}
AgreedBlocks ==
    {b \in {Answers[p] : p \in DOMAIN Answers} :
        IsQuorum({p \in DOMAIN Answers : Answers[p] = b})}

Plans ==
    IF AgreedBlocks = {} THEN Nothing
    ELSE UNION {IF Len(b) > Len(tip) THEN GreaterPlans(b)
                ELSE IF Len(b) = Len(tip) THEN EqualPlans(b)
                ELSE LessPlans(b) : b \in AgreedBlocks}

AllAnswered == requester.pc = "asking" /\ requester.wait = {}

\* Parser: enough answers, and a quorum at one height.
Analyse ==
    /\ AllAnswered
    /\ ~IsQuorum(DOMAIN Answers) \/ AgreedHeights # {}
    /\ requester' \in Plans
    /\ UNCHANGED <<network, disk, tip, cache, inbox, storager, mail, timer, joined, split,
                   faults>>

\* Enough answers but no quorum at one height: again in a second.
AnalyseAgain ==
    /\ AllAnswered
    /\ IsQuorum(DOMAIN Answers) /\ AgreedHeights = {}
    /\ requester' = IdleRequester
    /\ timer' = {requester.startup}
    /\ UNCHANGED <<network, disk, tip, cache, inbox, storager, mail, joined, split, faults>>

TimerFires ==
    /\ Len(mail) < MaxMail
    /\ \E startup \in timer : mail' = Append(mail, StartSync(startup))
    /\ timer' = NoTimer
    /\ UNCHANGED <<network, disk, tip, cache, inbox, storager, requester, joined, split,
                   faults>>

\* A getBlockDatas that would stop one block early.
MutFetching(start, end, p) ==
    IF end > start + 1
    THEN [pc |-> "fetching", next |-> start + 1, end |-> end - 1, server |-> p,
          retried |-> FALSE]
    ELSE IdleRequester

\* getBlockDatas begins.
Fetching(start, end, p) ==
    IF end > start THEN [pc |-> "fetching", next |-> start + 1, end |-> end, server |-> p,
                         retried |-> FALSE]
    ELSE IdleRequester

\* Nothing to roll back: blocks are fetched at once.
ActFetch ==
    /\ requester.pc = "acting" /\ requester.to = Keep
    /\ requester' = Fetching(requester.start, requester.end, requester.server)
    /\ UNCHANGED <<network, disk, tip, cache, inbox, storager, mail, timer, joined, split,
                   faults>>

\* rollbackToHeight, which cannot take off the genesis block.  The status in
\* memory is renewed only if nothing is fetched afterwards.
ActRollBack ==
    /\ requester.pc = "acting" /\ requester.to # Keep
    /\ LET fetches == requester.end > 0
           fails == requester.to = 0 /\ disk[Me] # <<>>
           left == IF requester.to < Len(disk[Me])
                   THEN SubSeq(disk[Me], 1, IF requester.to = 0 THEN 1 ELSE requester.to)
                   ELSE disk[Me]
       IN  /\ disk' = [disk EXCEPT ![Me] = left]
           /\ tip' = IF fails \/ fetches THEN tip ELSE left
           /\ split' = (split \/ tip' # left \/ storager.pc = "saved")
           /\ requester' = IF fetches /\ ~fails
                           THEN Fetching(requester.start, requester.end, requester.server)
                           ELSE IdleRequester
    /\ UNCHANGED <<network, cache, inbox, storager, mail, timer, joined, faults>>

\* SyncRequestOfStorager.
AskBlocks ==
    /\ ~Synching /\ mail # <<>> /\ Head(mail).type = "blocks"
    /\ mail' = Tail(mail)
    /\ requester' = Fetching(Len(tip), Head(mail).max, Head(mail).from)
    /\ UNCHANGED <<network, disk, tip, cache, inbox, storager, timer, joined, split, faults>>

\* A loop that would go one height too far.
MutNextFetch ==
    IF requester.next <= requester.end
    THEN [requester EXCEPT !.next = @ + 1, !.retried = FALSE] ELSE IdleRequester

\* getBlockDatas goes on to the next height.
NextFetch ==
    IF requester.next < requester.end
    THEN [requester EXCEPT !.next = @ + 1, !.retried = FALSE] ELSE IdleRequester

\* A block in the cache is not fetched.
SkipBlock ==
    /\ requester.pc = "fetching"
    /\ requester.next \in DOMAIN cache /\ ~requester.retried
    /\ requester' = NextFetch
    /\ UNCHANGED <<network, disk, tip, cache, inbox, storager, mail, timer, joined, split,
                   faults>>

\* The server has the block, and the storager gets it.
FetchBlock ==
    /\ requester.pc = "fetching"
    /\ requester.next \notin DOMAIN cache \/ requester.retried
    /\ requester.next <= Len(disk[requester.server])
    /\ Len(inbox) < MaxMail
    /\ inbox' = Append(inbox, Restore(SubSeq(disk[requester.server], 1, requester.next),
                                      requester.server))
    /\ requester' = NextFetch
    /\ UNCHANGED <<network, disk, tip, cache, storager, mail, timer, joined, split, faults>>

\* No answer, for the server has no such block or the answer is lost: the block
\* is asked for a second time, and then passed over.
FetchTimeout ==
    /\ requester.pc = "fetching"
    /\ requester.next \notin DOMAIN cache \/ requester.retried
    /\ \/ requester.next > Len(disk[requester.server]) /\ UNCHANGED faults
       \/ faults < MaxFaults /\ faults' = faults + 1
    /\ requester' = IF requester.retried THEN NextFetch
                    ELSE [requester EXCEPT !.retried = TRUE]
    /\ UNCHANGED <<network, disk, tip, cache, inbox, storager, mail, timer, joined, split>>

\* The process dies and starts again: only the disk is left.
Restart ==
    /\ joined /\ faults < MaxFaults
    /\ faults' = faults + 1
    /\ tip' = <<>> /\ cache' = NoBlocks /\ inbox' = <<>> /\ storager' = IdleStorager
    /\ mail' = <<>> /\ requester' = IdleRequester /\ timer' = NoTimer
    /\ joined' = FALSE /\ split' = FALSE
    /\ UNCHANGED <<network, disk>>

-----------------------------------------------------------------------------
Init ==
    /\ \E s \in Starts :
          /\ net = s.net /\ rest = s.rest
          /\ disk = [n \in Nodes |-> IF n = Me THEN s.disk ELSE Main(s.net)]
          /\ delivered = 1 .. s.net
    /\ tip = <<>> /\ cache = NoBlocks /\ inbox = <<>> /\ storager = IdleStorager
    /\ mail = <<>> /\ requester = IdleRequester /\ timer = NoTimer
    /\ joined = FALSE /\ split = FALSE
    /\ faults = 0

Storager == BeginHandler \/ EndHandler \/ MeetGap \/ SaveBlock \/ RenewStatus
            \/ DropBlock \/ PassBlock

\* The requester when nothing is lost.
Requester ==
    \/ AskChainInfos \/ AskBlocks
    \/ \E p \in Nodes : AnswerChainInfo(p)
    \/ Analyse \/ AnalyseAgain \/ ActFetch \/ ActRollBack
    \/ SkipBlock \/ FetchBlock \/ FetchTimeout

Peers == NewBlock \/ \E p \in Nodes : PeerStores(p)

Next ==
    \/ Peers \/ \E h \in 1 .. MaxHeight : Confirm(h)
    \/ Join \/ AskedTooHigh \/ TimerFires
    \/ Storager \/ Requester \/ \E p \in Nodes : LoseChainInfo(p)
    \/ Restart

\* The actors' mailboxes are served, the network goes on, and a node that is
\* behind is asked to endorse again.
Fairness ==
    /\ WF_vars(Storager) /\ WF_vars(Requester) /\ WF_vars(Peers)
    /\ WF_vars(Join) /\ WF_vars(AskedTooHigh) /\ WF_vars(TimerFires)

Spec == Init /\ [][Next]_vars /\ Fairness

-----------------------------------------------------------------------------
(* Properties.                                                              *)

Messages == [type : {"batch"}] \cup [type : {"restore"}, block : Chains, from : Nodes]
Orders == [type : {"start"}, startup : BOOLEAN]
          \cup [type : {"blocks"}, from : Nodes, max : 1 .. MaxHeight]

\* Types of the variables; a cached block is cached at its height.
TypeOK ==
    /\ net \in 0 .. rest /\ rest \in 1 .. MaxHeight /\ delivered \subseteq 1 .. net
    /\ disk \in [Nodes -> Chains] /\ tip \in Chains
    /\ \A h \in DOMAIN cache : /\ cache[h] \in [block : Chains, from : Nodes]
                              /\ Len(cache[h].block) = h
    /\ inbox \in Seq(Messages) /\ mail \in Seq(Orders)
    /\ Len(inbox) <= MaxMail /\ Len(mail) <= MaxMail
    /\ storager.pc \in {"idle", "loop", "saved"}
    /\ requester.pc \in {"idle", "asking", "acting", "fetching"}
    /\ requester.pc = "fetching" => requester.next \in 1 .. MaxHeight
    /\ timer \subseteq BOOLEAN
    /\ joined \in BOOLEAN /\ split \in BOOLEAN
    /\ faults \in 0 .. MaxFaults

\* The status in memory, which voter, endorsers and storager go by, is the last
\* block on disk, but before it is loaded and between the two steps of a save,
\* and until a rollback splits them: storager and requester change both without
\* a lock, and either may load the status while the other is at work.
StatusIsDisk ==
    \/ split \/ tip = <<>> \/ tip = disk[Me]
    \/ storager.pc = "saved" /\ tip = Prev(disk[Me])

\* No wake-up is lost between the cache, which confirmer and requester fill, and
\* the storager, which they send a message afterwards: when the storager rests,
\* no block is in the cache that fits on the status in memory.
NoFittingBlockForgotten ==
    storager.pc = "idle" /\ inbox = <<>> =>
        \A h \in DOMAIN cache : h = Len(tip) + 1 => Prev(cache[h].block) # tip

\* A synchronisation after start-up never takes a block off Me that a quorum of
\* nodes has stored, whatever is saved on Me or on the others while the answers
\* come in and the rollback waits.  (At start-up it may: the quorum that stood
\* lower when it answered may have stored the block since.)
RollsBackForksOnly ==
    [][requester.pc = "acting" /\ ~requester.startup /\ requester.to # 0 =>
          \A h \in Len(disk'[Me]) + 1 .. Len(disk[Me]) :
              ~IsQuorum(Holders(SubSeq(disk[Me], 1, h)))]_vars

\* Me ends up with the chain of the network, whether it starts without a block,
\* behind, ahead of the others or on a fork, unless a rollback has left its
\* status in memory apart from its disk.
CatchesUpUnlessSplit == <>[](split \/ disk[Me] = Main(rest))

\* Me ends up with the chain of the network ("in the end it agrees with the other
\* nodes", docs/docs/RepChain-2.0.md, on a node that has blocks to catch up with).
CatchesUp == <>[](disk[Me] = Main(rest))

=============================================================================
