----------------------------- MODULE BlockStore -----------------------------
(***************************************************************************)
(* The durable chain of one node: storage/chain/block/BlockStorager.scala  *)
(* over the key/value database (IDBAccess, ImpLevelDBAccess) and the block *)
(* files (ImpFileWriter, ImpFileReader).                                   *)
(*                                                                         *)
(* A save or a rollback runs under the database lock in transactionOperate *)
(* and writes to a batch; the block file is written, or truncated, before  *)
(* the batch is committed.  A node can crash, and the file write or the    *)
(* commit can throw, at every point in between.                            *)
(*                                                                         *)
(* The file is modelled by its length and the set of block images whose    *)
(* bytes are all there; truncation removes the images it cuts into.        *)
(***************************************************************************)
EXTENDS StateLog, FiniteSets

CONSTANTS Hashes,              \* block hashes
          NoHash,              \* the empty hash: the parent of the genesis block
          TxIds,               \* transaction ids
          Lengths,             \* lengths of a serialised block
          HeaderLength,        \* bytes before each block, 8 in the code
          MaxFileLength,       \* blockFileMaxLength
          SaveDuringRollback,  \* may the storager save while a rollback loops?
          MaxHeight,           \* bound: blocks in the chain
          MaxFaults            \* bound: crashes and failed writes

ASSUME StoreAssumption ==
    /\ NoHash \notin Hashes
    /\ IsFiniteSet(TxIds)
    /\ Lengths \subseteq Nat \ {0}
    /\ HeaderLength \in Nat \ {0}
    /\ MaxFileLength \in Nat
    /\ SaveDuringRollback \in BOOLEAN
    /\ MaxHeight \in Nat
    /\ MaxFaults \in Nat

VARIABLES db,      \* the committed key/value database
          files,   \* block files by number: [size, images]
          txn,     \* the running database transaction and its batch
          roller,  \* the loop of rollbackToHeight
          faults,  \* number of faults so far
          cut,     \* history: indexed heights whose image a truncation removed
          before   \* history: the world state each block of the chain found

vars == <<db, files, txn, roller, faults, cut, before>>

-----------------------------------------------------------------------------
(* Data.                                                                    *)

Blocks == [hash : Hashes, txs : SUBSET TxIds, length : Lengths, log : Seq(Results)]

Images == [pos : Nat, length : Nat, hash : Hashes, log : Seq(Results)]

BlockFiles == [size : Nat, images : SUBSET Images]

EmptyFile == [size |-> 0, images |-> {}]

\* A file comes into being when its writer is first asked for.
FileAt(fs, f) == IF f \in DOMAIN fs THEN fs[f] ELSE EmptyFile

PutFile(fs, f, c) ==
    [g \in DOMAIN fs \cup {f} |-> IF g = f THEN c ELSE fs[g]]

\* Adding and removing keys of a finite map.
PutAll(m, D, v) == [x \in DOMAIN m \cup D |-> IF x \in D THEN v ELSE m[x]]
Without(m, D) == [x \in DOMAIN m \ D |-> m[x]]

NoTxn == [op |-> "none"]
NoRoll == [to |-> -1, from |-> -1, loop |-> -1]

\* The ChainInfo of a database without blocks.
GenesisInfo == [height |-> 0, hash |-> NoHash, prev |-> NoHash, txCount |-> 0,
                fileNo |-> 0, filePos |-> 0, length |-> 0]

EmptyMap == [x \in {} |-> 0]

\* The image that the index entry idx points to, if its bytes are all there.
IsImageOf(x, idx) ==
    x.pos = idx.filePos /\ x.length = idx.length /\ x.hash = idx.hash

Readable(d, fs, h) ==
    \E x \in FileAt(fs, d.index[h].fileNo).images : IsImageOf(x, d.index[h])

\* getBlockByHeight: the block comes out of the file, not out of the index.
ReadImage(d, fs, h) ==
    CHOOSE x \in FileAt(fs, d.index[h].fileNo).images : IsImageOf(x, d.index[h])

-----------------------------------------------------------------------------
(* Saving a block.                                                          *)

\* getFileNo: the next file once this one cannot take n more bytes.
FileNoFor(fs, f, n) ==
    IF FileAt(fs, f).size + n > MaxFileLength THEN f + 1 ELSE f

\* A block written without room for its header.
MutPosNoHeader(fs, f) == FileAt(fs, f).size

\* Where the next block of file f goes: behind everything the file holds.
PosFor(fs, f) == FileAt(fs, f).size + HeaderLength

\* A write at a position: header and block replace what was there.
WriteAt(c, img) ==
    LET first == img.pos - HeaderLength
        end == img.pos + img.length
    IN  [size |-> IF c.size > end THEN c.size ELSE end,
         images |-> {x \in c.images : \/ x.pos + x.length <= first
                                      \/ x.pos - HeaderLength >= end} \cup {img}]

\* A first-height key written for empty files only.
MutFirstOnlyIfEmpty(d, fs, f, h) == FileAt(fs, f).size = 0

\* Is the block at height h the first block of file f?
StartsFile(d, fs, f, h) ==
    \/ FileAt(fs, f).size = 0
    \/ h = 1
    \/ f > d.index[h - 1].fileNo

IndexEntry(d, b, f, p) ==
    [height |-> d.info.height + 1, hash |-> b.hash, prev |-> d.info.hash,
     txs |-> b.txs, fileNo |-> f, filePos |-> p, length |-> b.length]

\* A save that does not move on to the file it wrote.
MutStayInFile(d, b, f, p) ==
    [height |-> d.info.height + 1, hash |-> b.hash, prev |-> d.info.hash,
     txCount |-> d.info.txCount + Cardinality(b.txs),
     fileNo |-> d.info.fileNo, filePos |-> p, length |-> b.length]

SavedInfo(d, b, f, p) ==
    [height |-> d.info.height + 1, hash |-> b.hash, prev |-> d.info.hash,
     txCount |-> d.info.txCount + Cardinality(b.txs),
     fileNo |-> f, filePos |-> p, length |-> b.length]

\* The database after the batch of saveBlock, for block b in file f at p.
SavedDb(d, fs, b, f, p) ==
    LET h == d.info.height + 1
    IN  [info |-> SavedInfo(d, b, f, p),
         index |-> PutAll(d.index, {h}, IndexEntry(d, b, f, p)),
         heightOfHash |-> PutAll(d.heightOfHash, {b.hash}, h),
         heightOfTx |-> PutAll(d.heightOfTx, b.txs, h),
         firstHeight |-> IF StartsFile(d, fs, f, h)
                         THEN PutAll(d.firstHeight, {f}, h) ELSE d.firstHeight,
         state |-> SavedState(d.state, b.log)]

\* The result of a transaction that writes k, or deletes k, and logs s[k].
SetResult(s, k, v) ==
    [get |-> [x \in {k} |-> s[k]], set |-> [x \in {k} |-> v], del |-> NoMap]
DelResult(s, k) ==
    [get |-> [x \in {k} |-> s[k]], set |-> NoMap, del |-> [x \in {k} |-> s[k]]]

\* The results of a block: at most one transaction of it changes the state.
LogsAt(s) ==
    {<<>>} \cup {<<SetResult(s, k, v)>> : k \in Keys, v \in Values}
           \cup {<<DelResult(s, k)>> : k \in Keys}

\* The storager compares a block with the chain status it keeps in memory, and
\* a rollback does not refresh that status: once the first block of a rollback
\* is off, no block passes.  Before that, nothing keeps the two apart.
StoragerMaySave ==
    roller = NoRoll \/ (SaveDuringRollback /\ roller.loop = roller.from)

\* saveBlock of a child of the last block, up to the file write.
BeginSave ==
    /\ txn = NoTxn
    /\ StoragerMaySave
    /\ db.info.height < MaxHeight
    /\ \E hash \in Hashes \ DOMAIN db.heightOfHash,
          txs \in SUBSET (TxIds \ DOMAIN db.heightOfTx),
          len \in Lengths, log \in LogsAt(db.state) :
          LET b == [hash |-> hash, txs |-> txs, length |-> len, log |-> log]
              f == FileNoFor(files, db.info.fileNo, len + HeaderLength)
              p == PosFor(files, f)
          IN  txn' = [op |-> "save", written |-> FALSE, block |-> b, file |-> f,
                      pos |-> p, db |-> SavedDb(db, files, b, f, p)]
    /\ UNCHANGED <<db, files, roller, faults, cut, before>>

\* writer.writeData: the length, then the block.
WriteBlock ==
    /\ txn.op = "save" /\ ~txn.written
    /\ files' = PutFile(files, txn.file,
           WriteAt(FileAt(files, txn.file),
                   [pos |-> txn.pos, length |-> txn.block.length,
                    hash |-> txn.block.hash, log |-> txn.block.log]))
    /\ txn' = [txn EXCEPT !.written = TRUE]
    /\ UNCHANGED <<db, roller, faults, cut, before>>

\* writeData throws, or the process dies, after n of the bytes are out.
TornWrite ==
    /\ txn.op = "save" /\ ~txn.written
    /\ faults < MaxFaults
    /\ \E n \in 0 .. HeaderLength + txn.block.length - 1 :
          files' = PutFile(files, txn.file,
              [FileAt(files, txn.file) EXCEPT !.size = @ + n])
    /\ txn' = NoTxn
    /\ faults' = faults + 1
    /\ UNCHANGED <<db, roller, cut, before>>

CommitSave ==
    /\ txn.op = "save" /\ txn.written
    /\ db' = txn.db
    /\ before' = Append(before, db.state)
    /\ txn' = NoTxn
    /\ UNCHANGED <<files, roller, faults, cut>>

-----------------------------------------------------------------------------
(* Rolling back.                                                            *)

\* A rollback that would count the block's transactions twice.
MutCountAgain(d, h) ==
    LET tip == d.index[h - 1]
    IN  [height |-> tip.height, hash |-> tip.hash, prev |-> tip.prev,
         txCount |-> d.info.txCount,
         fileNo |-> tip.fileNo, filePos |-> tip.filePos, length |-> tip.length]

\* The chain info is rebuilt from the index of the block before.
RolledBackInfo(d, h) ==
    LET tip == d.index[h - 1]
    IN  [height |-> tip.height, hash |-> tip.hash, prev |-> tip.prev,
         txCount |-> d.info.txCount - Cardinality(d.index[h].txs),
         fileNo |-> tip.fileNo, filePos |-> tip.filePos, length |-> tip.length]

FirstHeightWithout(d, h) ==
    LET f == d.index[h].fileNo
    IN  IF d.firstHeight[f] = h THEN Without(d.firstHeight, {f}) ELSE d.firstHeight

\* The database after the batch of rollback(h), log being the block's results.
RolledBackDb(d, h, log) ==
    [info |-> RolledBackInfo(d, h),
     index |-> Without(d.index, {h}),
     heightOfHash |-> Without(d.heightOfHash, {d.index[h].hash}),
     heightOfTx |-> Without(d.heightOfTx, d.index[h].txs),
     firstHeight |-> FirstHeightWithout(d, h),
     state |-> RolledBackState(d.state, log)]

\* rollbackToHeight reads the chain info once, without the database lock.
CallRollback ==
    /\ roller = NoRoll
    /\ txn = NoTxn \/ SaveDuringRollback
    /\ \E to \in 0 .. db.info.height - 1 :
          roller' = [to |-> to, from |-> db.info.height, loop |-> db.info.height]
    /\ UNCHANGED <<db, files, txn, faults, cut, before>>

\* What rollback(h) needs: each of these gets throws on an absent entry.
CanRollback(h) ==
    /\ {h, h - 1} \subseteq DOMAIN db.index
    /\ Readable(db, files, h)
    /\ db.index[h].fileNo \in DOMAIN db.firstHeight

\* One transaction of the loop, up to the truncation of the file.
BeginRollback ==
    /\ txn = NoTxn
    /\ roller # NoRoll /\ roller.loop > roller.to
    /\ CanRollback(roller.loop)
    /\ txn' = [op |-> "rollback", written |-> FALSE, height |-> roller.loop,
               db |-> RolledBackDb(db, roller.loop,
                                   ReadImage(db, files, roller.loop).log)]
    /\ UNCHANGED <<db, files, roller, faults, cut, before>>

\* Something rollback(h) needs is missing: false is returned, the loop ends.
RefuseRollback ==
    /\ txn = NoTxn
    /\ roller # NoRoll /\ roller.loop > roller.to
    /\ ~CanRollback(roller.loop)
    /\ roller' = NoRoll
    /\ UNCHANGED <<db, files, txn, faults, cut, before>>

\* A truncation that takes the header off a length that already includes it,
\* and the block with it once more.
MutTruncateTwice(c, len) ==
    LET size == c.size - 2 * (len + HeaderLength)
    IN  [size |-> size, images |-> {x \in c.images : x.pos + x.length <= size}]

\* deleteBytesFromFileTail: len and the header go from the end of the file.
Truncated(c, len) ==
    LET size == c.size - (len + HeaderLength)
    IN  [size |-> size, images |-> {x \in c.images : x.pos + x.length <= size}]

TruncateFile ==
    /\ txn.op = "rollback" /\ ~txn.written
    /\ LET idx == db.index[txn.height]
       IN  files' = PutFile(files, idx.fileNo,
                            Truncated(FileAt(files, idx.fileNo), idx.length))
    /\ txn' = [txn EXCEPT !.written = TRUE]
    /\ cut' = cut \cup {txn.height}
    /\ UNCHANGED <<db, roller, faults, before>>

CommitRollback ==
    /\ txn.op = "rollback" /\ txn.written
    /\ db' = txn.db
    /\ cut' = cut \ {txn.height}
    /\ before' = SubSeq(before, 1, Len(before) - 1)
    /\ roller' = [roller EXCEPT !.loop = @ - 1]
    /\ txn' = NoTxn
    /\ UNCHANGED <<files, faults>>

\* The loop has come down to the height asked for: true is returned.
EndRollback ==
    /\ txn = NoTxn \/ txn.op = "save"
    /\ roller # NoRoll /\ roller.loop <= roller.to
    /\ roller' = NoRoll
    /\ UNCHANGED <<db, files, txn, faults, cut, before>>

-----------------------------------------------------------------------------
(* Faults.                                                                  *)

\* A rollback loop that would go on whatever transactionOperate returned.
MutIgnoreFailure ==
    /\ txn.op # "none" /\ txn.written
    /\ faults < MaxFaults
    /\ txn' = NoTxn
    /\ roller' = IF txn.op = "rollback" THEN [roller EXCEPT !.loop = @ - 1] ELSE roller
    /\ faults' = faults + 1
    /\ UNCHANGED <<db, files, cut, before>>

\* The commit throws: the batch is dropped, the file stays as it is.  A
\* rollback then returns false.
CommitFails ==
    /\ txn.op # "none" /\ txn.written
    /\ faults < MaxFaults
    /\ txn' = NoTxn
    /\ roller' = IF txn.op = "rollback" THEN NoRoll ELSE roller
    /\ faults' = faults + 1
    /\ UNCHANGED <<db, files, cut, before>>

\* The process dies: the batch and the loop are gone, database and files stay.
Crash ==
    /\ txn.op # "none" \/ roller # NoRoll
    /\ faults < MaxFaults
    /\ txn' = NoTxn
    /\ roller' = NoRoll
    /\ faults' = faults + 1
    /\ UNCHANGED <<db, files, cut, before>>

-----------------------------------------------------------------------------
Init ==
    /\ db = [info |-> GenesisInfo, index |-> EmptyMap, heightOfHash |-> EmptyMap,
             heightOfTx |-> EmptyMap, firstHeight |-> EmptyMap,
             state |-> [k \in Keys |-> NoVal]]
    /\ files = EmptyMap
    /\ txn = NoTxn
    /\ roller = NoRoll
    /\ faults = 0
    /\ cut = {}
    /\ before = <<>>

Next ==
    \/ BeginSave \/ WriteBlock \/ TornWrite \/ CommitSave
    \/ CallRollback \/ BeginRollback \/ RefuseRollback \/ TruncateFile
    \/ CommitRollback \/ EndRollback
    \/ CommitFails \/ Crash

Spec == Init /\ [][Next]_vars

-----------------------------------------------------------------------------
(* Properties.                                                              *)

InfoRecords == [height : Nat, hash : Hashes \cup {NoHash}, prev : Hashes \cup {NoHash},
                txCount : Int, fileNo : Nat, filePos : Nat, length : Nat]

IndexRecords == [height : Nat, hash : Hashes, prev : Hashes \cup {NoHash},
                 txs : SUBSET TxIds, fileNo : Nat, filePos : Nat, length : Nat]

DbTypeOK(d) ==
    /\ d.info \in InfoRecords
    /\ DOMAIN d.index \subseteq Nat
    /\ \A h \in DOMAIN d.index : d.index[h] \in IndexRecords
    /\ DOMAIN d.heightOfHash \subseteq Hashes
    /\ DOMAIN d.heightOfTx \subseteq TxIds
    /\ DOMAIN d.firstHeight \subseteq Nat
    /\ d.state \in States

\* Types of the variables: db, batch, files, the rollback loop.
TypeOK ==
    /\ DbTypeOK(db)
    /\ DOMAIN files \subseteq Nat
    /\ \A f \in DOMAIN files : files[f] \in BlockFiles
    /\ txn.op \in {"none", "save", "rollback"}
    /\ txn.op # "none" => txn.written \in BOOLEAN /\ DbTypeOK(txn.db)
    /\ txn.op = "save" => /\ txn.block \in Blocks
                          /\ txn.file \in Nat /\ txn.pos \in Nat
    /\ txn.op = "rollback" => txn.height \in Nat
    /\ roller \in [to : Int, from : Int, loop : Int]
    /\ faults \in 0 .. MaxFaults
    /\ cut \subseteq Nat
    /\ before \in Seq(States)

\* Every indexed block can be read back from its file: neither a torn write
\* left at the end of a file, nor the truncation of a later block, nor the
\* choice of position after a crash ever damages it.  Only the block whose own
\* rollback truncated the file and then did not commit may be damaged.
BlocksIntact == \A h \in DOMAIN db.index \ cut : Readable(db, files, h)

\* The chain info names the last indexed block, the index holds the heights 1
\* to the last without a gap, and every block names the hash of the one before.
ChainInfoIsTip ==
    LET n == db.info.height
    IN  /\ DOMAIN db.index = 1 .. n
        /\ IF n = 0 THEN db.info = GenesisInfo
           ELSE \A f \in {"height", "hash", "prev", "fileNo", "filePos", "length"} :
                    db.info[f] = db.index[n][f]
        /\ \A h \in 1 .. n :
              db.index[h].prev = IF h = 1 THEN NoHash ELSE db.index[h - 1].hash

\* The lookups by block hash and by transaction id find exactly the indexed
\* blocks and their transactions, and the chain info counts the latter.
LookupsExact ==
    LET hs == DOMAIN db.index
    IN  /\ DOMAIN db.heightOfHash = {db.index[h].hash : h \in hs}
        /\ DOMAIN db.heightOfTx = UNION {db.index[h].txs : h \in hs}
        /\ \A h \in hs : /\ db.heightOfHash[db.index[h].hash] = h
                         /\ \A t \in db.index[h].txs : db.heightOfTx[t] = h
        /\ db.info.txCount = Cardinality(DOMAIN db.heightOfTx)

\* The start-up check (verify4Storage.getFileInfo) asks for the first height of
\* every file up to the last and throws if one is missing.  Unless an unfinished
\* rollback has damaged a block, each file from the one of the genesis block on
\* has one, whatever torn writes left in the files, and it is the lowest height
\* in the file.
FirstHeightsComplete ==
    LET inFile(f) == {h \in DOMAIN db.index : db.index[h].fileNo = f}
    IN  cut = {} =>
          /\ db.info.height > 0 =>
                DOMAIN db.firstHeight = db.index[1].fileNo .. db.info.fileNo
          /\ \A f \in DOMAIN db.firstHeight :
                /\ db.firstHeight[f] \in inFile(f)
                /\ \A h \in inFile(f) : db.firstHeight[f] <= h

\* Saves, rollbacks, faults and restarts together implement the ledger: the
\* chain grows by whole blocks, shrinks from its end, and a rollback gives back
\* the world state the block found.
ledger == INSTANCE Ledger WITH
    LedgerStates <- States, state <- db.state,
    chain <- [h \in 1 .. db.info.height |->
                [hash |-> db.index[h].hash, before |-> before[h]]]

ImplementsLedger == ledger!LedgerSpec

\* rollback(h) is meant for the last block ("by default the last block").
RollsBackLastBlock == txn.op = "rollback" => txn.height = db.info.height

-----------------------------------------------------------------------------
(* The inductive invariant behind TypeOK and BlocksIntact.                  *)

\* The bytes of every image lie inside its file, behind a header.
FilesInv ==
    \A f \in DOMAIN files : \A x \in files[f].images :
        HeaderLength <= x.pos /\ x.pos + x.length <= files[f].size

\* The fields of the running transaction.
TxnShape ==
    /\ txn.op = "none" => txn = NoTxn
    /\ txn.op = "save" =>
          /\ txn = [op |-> "save", written |-> txn.written, block |-> txn.block,
                    file |-> txn.file, pos |-> txn.pos, db |-> txn.db]
          /\ HeaderLength <= txn.pos
    /\ txn.op = "rollback" =>
          /\ txn = [op |-> "rollback", written |-> txn.written,
                    height |-> txn.height, db |-> txn.db]
          /\ txn.height \in DOMAIN db.index
          /\ ~txn.written => Readable(db, files, txn.height)

TypeInv == TypeOK /\ FilesInv /\ TxnShape

\* Block h lies behind block g of the same file, and behind all of its bytes
\* unless a truncation has removed them.
Behind(g, file, pos) ==
    db.index[g].fileNo = file =>
        /\ db.index[g].filePos <= pos
        /\ g \notin cut => db.index[g].filePos + db.index[g].length <= pos - HeaderLength

\* The index holds the heights 1 to n, in files of ascending number.
IndexInv ==
    LET n == db.info.height
    IN  /\ DOMAIN db.index = 1 .. n
        /\ \A h \in 1 .. n : db.index[h].height = h
        /\ n > 0 => db.info.fileNo = db.index[n].fileNo
        /\ \A g, h \in 1 .. n : g <= h => db.index[g].fileNo <= db.index[h].fileNo

\* Indexed blocks follow each other in their file, and start inside it.
PlacedInv ==
    \A h \in DOMAIN db.index :
        LET i == db.index[h]
        IN  /\ HeaderLength <= i.filePos
            /\ i.filePos - HeaderLength <= FileAt(files, i.fileNo).size
            /\ \A g \in 1 .. h - 1 : Behind(g, i.fileNo, i.filePos)

\* The batch of a save adds the next height, behind every block of its file.
SaveInv ==
    LET n == db.info.height
        i == txn.db.index[n + 1]
    IN  txn.op = "save" =>
          /\ roller = NoRoll
          /\ txn.db.info.height = n + 1 /\ txn.db.info.fileNo = txn.file
          /\ DOMAIN txn.db.index = 1 .. n + 1
          /\ \A h \in 1 .. n : txn.db.index[h] = db.index[h]
          /\ i.height = n + 1 /\ i.hash = txn.block.hash
          /\ i.fileNo = txn.file /\ i.filePos = txn.pos /\ i.length = txn.block.length
          /\ \A g \in 1 .. n : db.index[g].fileNo <= txn.file
          /\ \A g \in 1 .. n : Behind(g, txn.file, txn.pos)
          /\ txn.pos - HeaderLength <= FileAt(files, txn.file).size
          /\ ~txn.written => txn.pos - HeaderLength = FileAt(files, txn.file).size
          /\ txn.written => \E x \in FileAt(files, txn.file).images : IsImageOf(x, i)

\* The rollback loop is at the last block, and so is its transaction, whose
\* batch takes the last height off.
RollbackInv ==
    LET n == db.info.height
    IN  /\ roller # NoRoll => roller.loop = n
        /\ txn.op = "rollback" =>
              /\ roller # NoRoll
              /\ txn.height = n
              /\ txn.db.info.height = n - 1
              /\ DOMAIN txn.db.index = 1 .. n - 1
              /\ \A h \in 1 .. n - 1 : txn.db.index[h] = db.index[h]
              /\ n > 1 /\ txn.db.info.fileNo = db.index[n - 1].fileNo
              /\ txn.written => n \in cut

\* The strengthening of BlocksIntact that every step preserves as long as no
\* block is saved while a rollback loops.
StoreInv ==
    /\ cut \subseteq DOMAIN db.index
    /\ IndexInv /\ PlacedInv /\ SaveInv /\ RollbackInv /\ BlocksIntact

=============================================================================
