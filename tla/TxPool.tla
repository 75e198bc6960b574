------------------------------- MODULE TxPool -------------------------------
(***************************************************************************)
(* The transaction pool of a node (network/tools/transpool) and the actors *)
(* that share it: adders (REST and the checkers of broadcast transactions),*)
(* the blocker that packs a block, the storager that saves a block and then *)
(* takes its transactions out, and a rollback of the last block.           *)
(*                                                                         *)
(* The pool is a concurrent map, a counter and two concurrent queues, each *)
(* changed by a call of its own, and a saved copy in the database.  Only   *)
(* the saved copy is changed under a lock, one transaction at a time.      *)
(***************************************************************************)
EXTENDS Integers, Sequences, FiniteSets

CONSTANTS Txs,           \* transactions, by their id
          Adders,        \* actors that add transactions
          CacheMaxSize,  \* system.transaction.max_cache_num
          MaxOfBlock,    \* limit_transaction_number of a block
          MaxAdds,       \* bound: transactions handed to an adder
          MaxBlocks,     \* bound: blocks saved
          MaxRollbacks,  \* bound: blocks rolled back
          MaxPackages,   \* bound: times a block is packed
          MaxRestarts    \* bound: crashes of the node

ASSUME PoolAssumption ==
    /\ IsFiniteSet(Txs) /\ IsFiniteSet(Adders)
    /\ CacheMaxSize \in Nat \ {0} /\ MaxOfBlock \in Nat \ {0}
    /\ MaxAdds \in Nat /\ MaxBlocks \in Nat /\ MaxRollbacks \in Nat
    /\ MaxPackages \in Nat /\ MaxRestarts \in Nat

VARIABLES caches,         \* transactionCaches: the ids in the map
          count,          \* transactionCount
          order,          \* transactionOrder
          packagedOrder,  \* packagedTransactionOrder
          saved,          \* the saved copy: [last, bySerial, byTx]
          adder,          \* what each adder is doing: [pc, tx]
          packer,         \* what the blocker is doing: [pc, taken, seen, block]
          storager,       \* transactions of the saved block yet to be removed
          removals,       \* [by, tx, counted]: out of the map, saved copy and
                          \* counter to follow
          chain,          \* the blocks saved, as sets of transactions
          arrived,        \* history: ids in the order they were queued
          undone,         \* history: transactions ever rolled back
          loaded,         \* history: transactions the last start has loaded
          done            \* what has been used of the bounds

pool == <<caches, count, order, packagedOrder>>
vars == <<caches, count, order, packagedOrder, saved, adder, packer, storager,
          removals, chain, arrived, undone, loaded, done>>

-----------------------------------------------------------------------------
(* Data.                                                                    *)

Idle == [pc |-> "idle"]
Resting == [pc |-> "idle", taken |-> <<>>, seen |-> 0, block |-> <<>>]
Removers == {"storager", "packer"}

Elements(q) == {q[i] : i \in DOMAIN q}
OnChain == UNION Elements(chain)

NothingSaved == [last |-> 0, bySerial |-> [s \in {} |-> 0], byTx |-> [t \in {} |-> 0]]

MutStored(t) ==
    LET s == saved.last + 1
    IN  [last |-> saved.last,
         bySerial |-> [n \in DOMAIN saved.bySerial \cup {s} |->
                          IF n = s THEN t ELSE saved.bySerial[n]],
         byTx |-> [u \in DOMAIN saved.byTx \cup {t} |->
                          IF u = t THEN s ELSE saved.byTx[u]]]

\* toLocalStore: the next serial number, and the transaction under it.
Stored(t) ==
    LET s == saved.last + 1
    IN  [last |-> s,
         bySerial |-> [n \in DOMAIN saved.bySerial \cup {s} |->
                          IF n = s THEN t ELSE saved.bySerial[n]],
         byTx |-> [u \in DOMAIN saved.byTx \cup {t} |->
                          IF u = t THEN s ELSE saved.byTx[u]]]

\* deleteLocalStore of some transactions: what is stored under the number that is
\* noted for each, and the note.
Deleted(S) ==
    LET gone == {saved.byTx[t] : t \in S \cap DOMAIN saved.byTx}
    IN  [saved EXCEPT !.bySerial = [n \in DOMAIN @ \ gone |-> @[n]],
                      !.byTx = [t \in DOMAIN @ \ S |-> @[t]]]

Used(k) == [done EXCEPT ![k] = @ + 1]

-----------------------------------------------------------------------------
(* Adders: RestActor, TransactionChecker.                                   *)

\* The transaction is neither in the pool nor on the chain.
Check(a, t) ==
    /\ adder[a].pc = "idle" /\ done.adds < MaxAdds
    /\ t \notin caches /\ t \notin OnChain
    /\ adder' = [adder EXCEPT ![a] = [pc |-> "checked", tx |-> t]]
    /\ done' = Used("adds")
    /\ UNCHANGED <<pool, saved, packer, storager, removals, chain, arrived, undone, loaded>>

MutAdmit(a) ==
    /\ adder[a].pc = "checked"
    /\ adder' = [adder EXCEPT ![a].pc = "admitted"]
    /\ UNCHANGED <<pool, saved, packer, storager, removals, chain, arrived, undone, loaded, done>>

\* hasOverflowed, after the signature has been verified and the transaction
\* executed once on trial.
Admit(a) ==
    /\ adder[a].pc = "checked"
    /\ adder' = [adder EXCEPT ![a] = IF count < CacheMaxSize
                                     THEN [@ EXCEPT !.pc = "admitted"] ELSE Idle]
    /\ UNCHANGED <<pool, saved, packer, storager, removals, chain, arrived, undone, loaded, done>>

MutPut(a) ==
    /\ adder[a].pc = "admitted"
    /\ adder' = [adder EXCEPT ![a].pc = "put"]
    /\ caches' = caches \cup {adder[a].tx}
    /\ UNCHANGED <<count, order, packagedOrder, saved, packer, storager, removals, chain,
                   arrived, undone, loaded, done>>

\* addTransactionToCache: put if absent ...
Put(a) ==
    /\ adder[a].pc = "admitted"
    /\ IF adder[a].tx \in caches
       THEN /\ adder' = [adder EXCEPT ![a] = Idle]
            /\ UNCHANGED caches
       ELSE /\ adder' = [adder EXCEPT ![a].pc = "put"]
            /\ caches' = caches \cup {adder[a].tx}
    /\ UNCHANGED <<count, order, packagedOrder, saved, packer, storager, removals, chain,
                   arrived, undone, loaded, done>>

\* ... count and queue it ...
Enqueue(a) ==
    LET t == adder[a].tx
    IN  /\ adder[a].pc = "put"
        /\ count' = count + 1
        /\ order' = Append(order, t)
        /\ arrived' = Append(arrived, t)
        /\ adder' = [adder EXCEPT ![a].pc = "queued"]
        /\ UNCHANGED <<caches, packagedOrder, saved, packer, storager, removals, chain,
                       undone, loaded, done>>

\* ... and save it.
Store(a) ==
    /\ adder[a].pc = "queued"
    /\ saved' = Stored(adder[a].tx)
    /\ adder' = [adder EXCEPT ![a] = Idle]
    /\ UNCHANGED <<pool, packer, storager, removals, chain, arrived, undone, loaded, done>>

-----------------------------------------------------------------------------
(* Removal.                                                                 *)

\* removeTransactionFromCache: out of the map; the rest follows.
Removed(by, t) ==
    /\ caches' = caches \ {t}
    /\ removals' = removals \cup {[by |-> by, tx |-> t, counted |-> t \in caches]}

Removing(by) == \E r \in removals : r.by = by

MutEndRemoval(r) ==
    /\ r \in removals
    /\ saved' = Deleted({r.tx})
    /\ count' = count - 1
    /\ removals' = removals \ {r}
    /\ UNCHANGED <<caches, order, packagedOrder, adder, packer, storager, chain, arrived,
                   undone, loaded, done>>

\* The saved copy is deleted, and the counter lowered if the map had it.
EndRemoval(r) ==
    /\ r \in removals
    /\ saved' = Deleted({r.tx})
    /\ count' = IF r.counted THEN count - 1 ELSE count
    /\ removals' = removals \ {r}
    /\ UNCHANGED <<caches, order, packagedOrder, adder, packer, storager, chain, arrived,
                   undone, loaded, done>>

-----------------------------------------------------------------------------
(* The storager, and a rollback by the synchronisation.                     *)

\* saveBlock: a block of this node or of another, with what is not on the chain.
SaveBlock(b) ==
    /\ storager = {} /\ ~Removing("storager") /\ done.blocks < MaxBlocks
    /\ b \in SUBSET (Txs \ OnChain) /\ b # {} /\ Cardinality(b) <= MaxOfBlock
    /\ chain' = Append(chain, b)
    /\ storager' = b
    /\ done' = Used("blocks")
    /\ UNCHANGED <<pool, saved, adder, packer, removals, arrived, undone, loaded>>

\* removeTransactionsFromCache, one by one.
RemoveSaved(t) ==
    /\ t \in storager /\ ~Removing("storager")
    /\ Removed("storager", t)
    /\ storager' = storager \ {t}
    /\ UNCHANGED <<count, order, packagedOrder, saved, adder, packer, chain, arrived,
                   undone, loaded, done>>

\* A rollback does not put the transactions of the block back into the pool.
RollBack ==
    /\ chain # <<>> /\ done.rollbacks < MaxRollbacks
    /\ chain' = SubSeq(chain, 1, Len(chain) - 1)
    /\ undone' = undone \cup chain[Len(chain)]
    /\ done' = Used("rollbacks")
    /\ UNCHANGED <<pool, saved, adder, packer, storager, removals, arrived, loaded>>

-----------------------------------------------------------------------------
(* The blocker: packageTransactionToBlock.                                  *)

\* The queue that is being read, and how many entries are read of it at most.
Queue == IF packer.pc = "packaged" THEN packagedOrder ELSE order
Limit == IF packer.pc = "packaged" THEN MaxOfBlock ELSE MaxOfBlock - Len(packer.block)
Reads == packer.pc # "idle" /\ Queue # <<>> /\ packer.seen < Limit

\* What was packed before comes first.
Package ==
    /\ packer.pc = "idle" /\ ~Removing("packer") /\ done.packages < MaxPackages
    /\ packer' = [Resting EXCEPT !.pc = "packaged"]
    /\ done' = Used("packages")
    /\ UNCHANGED <<pool, saved, adder, storager, removals, chain, arrived, undone, loaded>>

\* The next id leaves the queue.  If the pool no longer has it nothing happens;
\* if it is on the chain it is removed, else taken.
Poll ==
    LET t == Head(Queue)
    IN  /\ Reads /\ ~Removing("packer")
        /\ IF packer.pc = "packaged"
           THEN packagedOrder' = Tail(packagedOrder) /\ UNCHANGED order
           ELSE order' = Tail(order) /\ UNCHANGED packagedOrder
        /\ CASE t \notin caches -> UNCHANGED <<packer, caches, removals>>
             [] t \in caches /\ t \in OnChain ->
                   /\ Removed("packer", t)
                   /\ packer' = [packer EXCEPT !.seen = @ + 1]
             [] OTHER ->
                   /\ packer' = [packer EXCEPT !.seen = @ + 1, !.taken = Append(@, t)]
                   /\ UNCHANGED <<caches, removals>>
        /\ UNCHANGED <<count, saved, adder, storager, chain, arrived, undone, loaded, done>>

MutEndQueueDrop ==
    LET b == packer.block \o packer.taken
    IN  /\ packer.pc # "idle" /\ ~Reads /\ ~Removing("packer")
        /\ packer' = [pc |-> IF packer.pc = "packaged" /\ Len(b) < MaxOfBlock
                             THEN "order" ELSE "idle",
                      taken |-> <<>>, seen |-> 0, block |-> b]
        /\ UNCHANGED <<pool, saved, adder, storager, removals, chain,
                       arrived, undone, loaded, done>>

MutEndQueueFront ==
    LET b == packer.taken \o packer.block
    IN  /\ packer.pc # "idle" /\ ~Reads /\ ~Removing("packer")
        /\ packagedOrder' = packagedOrder \o packer.taken
        /\ packer' = [pc |-> IF packer.pc = "packaged" /\ Len(b) < MaxOfBlock
                             THEN "order" ELSE "idle",
                      taken |-> <<>>, seen |-> 0, block |-> b]
        /\ UNCHANGED <<caches, count, order, saved, adder, storager, removals, chain,
                       arrived, undone, loaded, done>>

\* The end of a queue: what was taken of it goes to the end of the packaged queue.
EndQueue ==
    LET b == packer.block \o packer.taken
    IN  /\ packer.pc # "idle" /\ ~Reads /\ ~Removing("packer")
        /\ packagedOrder' = packagedOrder \o packer.taken
        /\ packer' = [pc |-> IF packer.pc = "packaged" /\ Len(b) < MaxOfBlock
                             THEN "order" ELSE "idle",
                      taken |-> <<>>, seen |-> 0, block |-> b]
        /\ UNCHANGED <<caches, count, order, saved, adder, storager, removals, chain,
                       arrived, undone, loaded, done>>

-----------------------------------------------------------------------------
(* Restart.                                                                 *)

MutFirstLoaded ==
    CHOOSE n \in 2 .. saved.last + 2 :
        /\ n .. saved.last \subseteq DOMAIN saved.bySerial
        /\ n = 2 \/ n - 1 \notin DOMAIN saved.bySerial

\* loadTransactionFromLevelDB reads from the last number down to the first gap.
FirstLoaded ==
    CHOOSE n \in 1 .. saved.last + 1 :
        /\ n .. saved.last \subseteq DOMAIN saved.bySerial
        /\ n = 1 \/ n - 1 \notin DOMAIN saved.bySerial

Walked == [i \in 1 .. saved.last + 1 - FirstLoaded |-> saved.bySerial[saved.last + 1 - i]]

\* What is not on the chain, each id at its first place: the map refuses the others.
Firsts == {i \in DOMAIN Walked : /\ Walked[i] \notin OnChain
                                /\ \A j \in 1 .. i - 1 : Walked[j] # Walked[i]}
Nth(k) == CHOOSE i \in Firsts : Cardinality({j \in Firsts : j <= i}) = k

ToLoad == [k \in 1 .. Cardinality(Firsts) |-> Walked[Nth(k)]]

MutRestart ==
    /\ done.restarts < MaxRestarts
    /\ caches' = Elements(ToLoad)
    /\ count' = Len(ToLoad)
    /\ order' = ToLoad
    /\ packagedOrder' = <<>>
    /\ saved' = Deleted(Elements(Walked))
    /\ adder' = [a \in Adders |-> Idle]
    /\ packer' = Resting
    /\ storager' = {} /\ removals' = {}
    /\ loaded' = Elements(ToLoad)
    /\ done' = Used("restarts")
    /\ UNCHANGED <<chain, arrived, undone>>

\* A crash at any point, and the start after it.
Restart ==
    /\ done.restarts < MaxRestarts
    /\ caches' = Elements(ToLoad)
    /\ count' = Len(ToLoad)
    /\ order' = ToLoad
    /\ packagedOrder' = <<>>
    /\ saved' = Deleted(Elements(Walked) \cap OnChain)
    /\ adder' = [a \in Adders |-> Idle]
    /\ packer' = Resting
    /\ storager' = {} /\ removals' = {}
    /\ loaded' = Elements(ToLoad)
    /\ done' = Used("restarts")
    /\ UNCHANGED <<chain, arrived, undone>>

-----------------------------------------------------------------------------

Init ==
    /\ caches = {} /\ count = 0 /\ order = <<>> /\ packagedOrder = <<>>
    /\ saved = NothingSaved
    /\ adder = [a \in Adders |-> Idle]
    /\ packer = Resting
    /\ storager = {} /\ removals = {} /\ chain = <<>>
    /\ arrived = <<>> /\ undone = {} /\ loaded = {}
    /\ done = [adds |-> 0, blocks |-> 0, rollbacks |-> 0, packages |-> 0, restarts |-> 0]

Adding(a) == (\E t \in Txs : Check(a, t)) \/ Admit(a) \/ Put(a) \/ Enqueue(a) \/ Store(a)
Storing == (\E b \in SUBSET Txs : SaveBlock(b)) \/ \E t \in storager : RemoveSaved(t)
Packing == Package \/ Poll \/ EndQueue

Next ==
    \/ \E a \in Adders : Adding(a)
    \/ Storing
    \/ Packing
    \/ \E r \in removals : EndRemoval(r)
    \/ RollBack
    \/ Restart

Spec == Init /\ [][Next]_vars

-----------------------------------------------------------------------------
(* Properties.                                                              *)

AdderPcs == {"checked", "admitted", "put", "queued"}
AddersAt(pcs) == {a \in Adders : adder[a].pc \in pcs}
Settled == OnChain \cup undone
Larger(m, n) == IF m > n THEN m ELSE n

TypeOK ==
    /\ caches \subseteq Txs /\ count \in Int
    /\ order \in Seq(Txs) /\ packagedOrder \in Seq(Txs)
    /\ saved.last \in Nat
    /\ DOMAIN saved.bySerial \subseteq 1 .. saved.last
    /\ \A n \in DOMAIN saved.bySerial : saved.bySerial[n] \in Txs
    /\ DOMAIN saved.byTx \subseteq Txs
    /\ \A t \in DOMAIN saved.byTx : saved.byTx[t] \in 1 .. saved.last
    /\ adder \in [Adders -> {Idle} \cup [pc : AdderPcs, tx : Txs]]
    /\ packer \in [pc : {"idle", "packaged", "order"}, taken : Seq(Txs), seen : Nat,
                   block : Seq(Txs)]
    /\ storager \subseteq Txs
    /\ removals \subseteq [by : Removers, tx : Txs, counted : BOOLEAN]
    /\ chain \in Seq(SUBSET Txs)
    /\ arrived \in Seq(Txs) /\ undone \subseteq Txs /\ loaded \subseteq Txs

\* The counter, which decides whether the pool is full and whether to vote, differs
\* from the map by the adds and removals that are half done, and by nothing else.
CountInStep ==
    count = Cardinality(caches) + Cardinality({r \in removals : r.counted})
                                - Cardinality(AddersAt({"put"}))

\* The limit is checked before the transaction is put: it is overrun by no more than
\* the adders at work, or by what a start has loaded without a check.
OverrunBounded ==
    Cardinality(caches) <= Larger(Cardinality(loaded),
                                  CacheMaxSize + Cardinality(Adders) - 1)

\* No transaction stays in the map with no queue to be packed from: ids leave a
\* queue, and go to another one, while transactions come and go.
NothingStranded ==
    \A t \in caches : \/ t \in Elements(order) \cup Elements(packagedOrder)
                      \/ t \in Elements(packer.taken)
                      \/ \E a \in AddersAt({"put"}) : adder[a].tx = t

\* A transaction of the pool that was never on the chain is in the saved copy, under
\* the number noted for it, unless its adder is about to save it.
PoolIsSaved ==
    \A t \in caches \ Settled :
        \/ \E a \in AddersAt({"put", "queued"}) : adder[a].tx = t
        \/ t \in DOMAIN saved.byTx /\ saved.byTx[t] \in DOMAIN saved.bySerial
                                   /\ saved.bySerial[saved.byTx[t]] = t

\* A block is packed within its limit, and has no transaction twice unless it was
\* rolled back and sent again (its old id may still be in the packaged queue).
PackedOnce ==
    LET b == packer.block \o packer.taken
    IN  /\ Len(b) <= MaxOfBlock
        /\ \A i, j \in DOMAIN b : b[i] = b[j] => i = j \/ b[i] \in undone

\* t was queued for the last time before u was.
Before(t, u) ==
    \E i, j \in DOMAIN arrived :
        /\ arrived[i] = t /\ arrived[j] = u /\ i < j
        /\ \A k \in DOMAIN arrived : k > i => arrived[k] # t

\* Transactions are packed in the order in which they entered the pool, those of an
\* earlier attempt at a block included, but for what was on the chain meanwhile, and
\* but for two transactions that a start has loaded: it loads the saved pool backwards.
PackedInOrderUnlessLoaded ==
    LET b == packer.block
    IN  \A i, j \in DOMAIN b :
            i < j /\ {b[i], b[j]} \cap Settled = {} /\ ~({b[i], b[j]} \subseteq loaded)
                => Before(b[i], b[j])

\* A start brings back every transaction that was saved and not yet on the chain, if
\* no number is missing between it and the last one: that is, unless a
\* transaction that came later has left the pool before it.
RestartKeepsPoolUnlessGap ==
    [][done'.restarts # done.restarts =>
         \A t \in DOMAIN saved.byTx \ Settled :
             saved.byTx[t] .. saved.last \subseteq DOMAIN saved.bySerial => t \in caches']_vars

=============================================================================
