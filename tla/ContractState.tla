---------------------------- MODULE ContractState ----------------------------
(***************************************************************************)
(* How the transactions of a block reach the world state of a node: the    *)
(* contract API (sc/Shim.scala) over the overlay of the transaction        *)
(* (TransactionPreload) over the overlay of the block (BlockPreload) over  *)
(* the database; the end of a transaction in SandboxScala.doTransaction;   *)
(* and the save and the rollback of the executed block (StateLog).         *)
(*                                                                         *)
(* The transactions of a block run one after the other on one preload      *)
(* instance.  The variable "serial" is the reference: the state that the   *)
(* transactions that succeeded, applied in order, would have made.         *)
(***************************************************************************)
EXTENDS StateLog, FiniteSets

CONSTANTS MaxOps,     \* bound: API calls of a transaction
          MaxTxs,     \* bound: transactions of a block
          MaxBlocks   \* bound: blocks in the chain

ASSUME ContractAssumption == MaxOps \in Nat /\ MaxTxs \in Nat /\ MaxBlocks \in Nat

VARIABLES db,         \* the world state in the database
          block,      \* the BlockPreload: [update, delete, read]
          tx,         \* the TransactionPreload: [update, delete]
          log,        \* the Shim's log of the running transaction: [get, set, del]
          results,    \* the results of the block's transactions so far
          ops,        \* API calls of the running transaction
          chain,      \* the saved blocks: [results, before]
          serial,     \* history: the state in transaction order
          own,        \* history: the running transaction's view of serial
          leaked,     \* history: keys written by a transaction of the block that
                      \* returned an error
          stale       \* history: keys read again after they were written

vars == <<db, block, tx, log, results, ops, chain, serial, own, leaked,
          stale>>

-----------------------------------------------------------------------------
(* The overlays: a map of updates and a set of deleted keys.                *)

Put(m, k, v) == [x \in DOMAIN m \cup {k} |-> IF x = k THEN v ELSE m[x]]
Remove(m, k) == [x \in DOMAIN m \ {k} |-> m[x]]

NoOverlay == [update |-> NoMap, delete |-> {}]
NoPreload == [update |-> NoMap, delete |-> {}, read |-> NoMap]
NoLog == FailedResult

\* A put that leaves the key among the deleted ones.
MutPutKeepsDelete(o, k, v) == [o EXCEPT !.update = Put(@, k, v)]

PutIn(o, k, v) == [o EXCEPT !.update = Put(@, k, v), !.delete = @ \ {k}]
DelIn(o, k) == [o EXCEPT !.update = Remove(@, k), !.delete = @ \cup {k}]

\* BlockPreload.get; a value that came from the database is kept in "read".
BlockValue(k) ==
    IF k \in block.delete THEN NoVal
    ELSE IF k \in DOMAIN block.update THEN block.update[k]
    ELSE IF k \in DOMAIN block.read THEN block.read[k]
    ELSE db[k]

\* A read cache without the null check.
MutCacheAbsent(k) ==
    IF \/ k \in tx.delete \cup DOMAIN tx.update
       \/ k \in block.delete \cup DOMAIN block.update
    THEN block
    ELSE [block EXCEPT !.read = IF k \in DOMAIN @ THEN @ ELSE Put(@, k, db[k])]

ReadCached(k) ==
    IF \/ k \in tx.delete \cup DOMAIN tx.update
       \/ k \in block.delete \cup DOMAIN block.update
       \/ db[k] = NoVal
    THEN block
    ELSE [block EXCEPT !.read = IF k \in DOMAIN @ THEN @ ELSE Put(@, k, db[k])]

\* TransactionPreload.get.
TxValue(k) ==
    IF k \in tx.delete THEN NoVal
    ELSE IF k \in DOMAIN tx.update THEN tx.update[k]
    ELSE BlockValue(k)

\* TransactionPreload.commit: the updates, then the deletes.
Committed(b, t) ==
    [b EXCEPT !.update = [k \in (DOMAIN @ \cup DOMAIN t.update) \ t.delete |->
                              IF k \in DOMAIN t.update THEN t.update[k] ELSE @[k]],
              !.delete = (@ \ DOMAIN t.update) \cup t.delete]

-----------------------------------------------------------------------------
(* The contract API.                                                        *)

\* checkStateGet: the old value is read, and logged, on the first access.
OldLogged(k) == IF k \in DOMAIN log.get THEN log.get ELSE Put(log.get, k, TxValue(k))

MayCall == Len(results) < MaxTxs /\ ops < MaxOps

\* getVal: every read is logged, over what was logged for the key before.
GetVal(k) ==
    /\ MayCall
    /\ log' = [log EXCEPT !.get = Put(@, k, TxValue(k))]
    /\ block' = ReadCached(k)
    /\ ops' = ops + 1
    /\ stale' = stale \cup (IF Touches(log, k) THEN {k} ELSE {})
    /\ UNCHANGED <<db, tx, results, chain, serial, own, leaked>>

\* setVal.
SetVal(k, v) ==
    /\ MayCall
    /\ log' = [get |-> OldLogged(k), set |-> Put(log.set, k, v), del |-> Remove(log.del, k)]
    /\ block' = IF k \in DOMAIN log.get THEN block ELSE ReadCached(k)
    /\ tx' = PutIn(tx, k, v)
    /\ own' = [own EXCEPT ![k] = v]
    /\ ops' = ops + 1
    /\ UNCHANGED <<db, results, chain, serial, leaked, stale>>

\* delVal: an update of this transaction is taken out of the log of updates,
\* otherwise the old value is read first; the delete logs the old value.
DelVal(k) ==
    /\ MayCall
    /\ LET fresh == k \notin DOMAIN log.set /\ k \notin DOMAIN log.get
           get == IF k \in DOMAIN log.set THEN log.get ELSE OldLogged(k)
       IN  /\ log' = [get |-> get, set |-> Remove(log.set, k),
                      del |-> Put(log.del, k, get[k])]
           /\ block' = IF fresh THEN ReadCached(k) ELSE block
    /\ tx' = DelIn(tx, k)
    /\ own' = [own EXCEPT ![k] = NoVal]
    /\ ops' = ops + 1
    /\ UNCHANGED <<db, results, chain, serial, leaked, stale>>

-----------------------------------------------------------------------------
(* The end of a transaction: SandboxScala.doTransaction.                    *)

EndTx(result, b, s, leak) ==
    /\ Len(results) < MaxTxs
    /\ results' = Append(results, result)
    /\ block' = b
    /\ serial' = s
    /\ own' = s
    /\ leaked' = leaked \cup leak
    /\ tx' = NoOverlay
    /\ log' = NoLog
    /\ ops' = 0
    /\ UNCHANGED <<db, chain, stale>>

\* The contract returns code 0: commit, and the log becomes the result.
Succeed == EndTx(log, Committed(block, tx), own, {})

\* The contract throws: rollback of the overlay, an empty result.
Throw == EndTx(FailedResult, block, serial, {})

\* The contract returns another code.  The overlay has been committed before
\* the code is looked at, and the rollback finds it empty.
ReturnError ==
    EndTx(FailedResult, Committed(block, tx), serial, DOMAIN tx.update \cup tx.delete)

-----------------------------------------------------------------------------
(* The block.                                                               *)

\* saveBlock, after the preload instance of the block has been freed.
SaveBlock ==
    /\ results # <<>> /\ ops = 0
    /\ Len(chain) < MaxBlocks
    /\ db' = SavedState(db, results)
    /\ chain' = Append(chain, [results |-> results, before |-> db,
                              unsure |-> stale \cup leaked])
    /\ results' = <<>>
    /\ block' = NoPreload
    /\ serial' = db' /\ own' = db' /\ stale' = {} /\ leaked' = {}
    /\ UNCHANGED <<tx, log, ops>>

\* rollback of the last block; no block is being executed.
RollbackBlock ==
    /\ results = <<>> /\ ops = 0 /\ chain # <<>>
    /\ db' = RolledBackState(db, chain[Len(chain)].results)
    /\ chain' = SubSeq(chain, 1, Len(chain) - 1)
    /\ block' = NoPreload
    /\ serial' = db' /\ own' = db'
    /\ UNCHANGED <<tx, log, results, ops, leaked, stale>>

Init ==
    /\ db \in States
    /\ block = NoPreload /\ tx = NoOverlay /\ log = NoLog
    /\ results = <<>> /\ ops = 0 /\ chain = <<>>
    /\ serial = db /\ own = db /\ leaked = {} /\ stale = {}

Next ==
    \/ \E k \in Keys : GetVal(k) \/ DelVal(k) \/ \E v \in Values : SetVal(k, v)
    \/ Succeed \/ Throw \/ ReturnError
    \/ SaveBlock \/ RollbackBlock

Spec == Init /\ [][Next]_vars

-----------------------------------------------------------------------------
(* Properties.                                                              *)

\* Types of the variables.
TypeOK ==
    /\ db \in States /\ serial \in States /\ own \in States
    /\ tx \in [update : MapsOf(Values), delete : SUBSET Keys]
    /\ block \in [update : MapsOf(Values), delete : SUBSET Keys, read : MapsOf(Values)]
    /\ log \in Results
    /\ results \in Seq(Results) /\ Len(results) <= MaxTxs
    /\ ops \in 0 .. MaxOps
    /\ \A i \in DOMAIN chain :
          chain[i] \in [results : Seq(Results), before : States, unsure : SUBSET Keys]
    /\ leaked \subseteq Keys /\ stale \subseteq Keys

\* What a contract reads through the two overlays, the read cache and the
\* database is the state left by the transactions before it that succeeded,
\* changed by its own writes.  TransactionPreload.rollback is there to keep the
\* writes of a failed transaction out of the overlay of the block.
SeesSerialState == \A k \in Keys : TxValue(k) = own[k]

\* It is so for every key, whichever transactions fail, except those written by a
\* transaction that returned an error instead of throwing.
SeesSerialUnlessLeaked == \A k \in Keys \ leaked : TxValue(k) = own[k]

\* Keys that one transaction of the block deletes and a later one writes.
Recreated(rs) ==
    {k \in Keys : \E i, j \in DOMAIN rs :
        i < j /\ k \in DOMAIN rs[i].del /\ k \in DOMAIN rs[j].set}

\* The results of the block, saved now, leave in the database the state that
\* applying the transactions in order makes, failed transactions or not, except
\* for a key that a transaction deletes and a later one writes again: that write
\* is lost.
SavesUnlessRecreated ==
    \A k \in Keys \ Recreated(results) : SavedState(db, results)[k] = serial[k]

\* Rolling the last block back ("roll back the world state of the block",
\* rollbackOperateLog) gives a key the value the block found, if one transaction
\* of the block wrote it, unless that transaction read the key again after
\* writing it, or an earlier transaction wrote it and then returned an error.
RollbackRestoresWrittenOnce ==
    [][RollbackBlock =>
        LET b == chain[Len(chain)]
        IN  \A k \in Keys \ b.unsure :
                Cardinality(Writers(b.results, k)) = 1 => db'[k] = b.before[k]]_vars

=============================================================================
