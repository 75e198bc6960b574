-------------------------- MODULE BlockStoreProofs --------------------------
(***************************************************************************)
(* Type correctness of BlockStore, and the integrity of its block files.   *)
(*                                                                         *)
(* Then that BlockStore implements Ledger, as long as no block is saved    *)
(* while a rollback loops: the index and the lookups name the blocks of    *)
(* the chain, the files keep the logs that undo them, and a rollback gives *)
(* back the world state a block found.                                     *)
(***************************************************************************)
EXTENDS BlockStore, StateLogProofs, FiniteSetTheorems, SequenceTheorems

USE StoreAssumption DEF StoreAssumption, BlockFiles

-----------------------------------------------------------------------------
(* Types of the operators that compute files and batches.                   *)

FileOK(c) ==
    /\ c \in BlockFiles
    /\ \A x \in c.images : HeaderLength <= x.pos /\ x.pos + x.length <= c.size

LEMMA FileAtOK ==
    ASSUME TypeOK, FilesInv, NEW f
    PROVE  FileOK(FileAt(files, f))
BY DEF TypeOK, FilesInv, FileOK, FileAt, EmptyFile

\* Replacing one well-formed file by another keeps all files well-formed.
LEMMA PutFileOK ==
    ASSUME TypeOK, FilesInv, NEW f \in Nat, NEW c, FileOK(c),
           files' = PutFile(files, f, c)
    PROVE  /\ DOMAIN files' \subseteq Nat
           /\ \A g \in DOMAIN files' : files'[g] \in BlockFiles
           /\ FilesInv'
BY DEF TypeOK, FilesInv, FileOK, PutFile

LEMMA FileNoForType ==
    ASSUME NEW fs, NEW f \in Nat, NEW n
    PROVE  FileNoFor(fs, f, n) \in {f, f + 1}
BY DEF FileNoFor

\* The write of a block keeps its file well-formed.
LEMMA WriteAtOK ==
    ASSUME NEW c, FileOK(c), NEW img \in Images, HeaderLength <= img.pos
    PROVE  FileOK(WriteAt(c, img))
<1> DEFINE end == img.pos + img.length
<1>1. img.pos \in Nat /\ img.length \in Nat /\ end \in Nat /\ c.size \in Nat
  BY DEF Images, FileOK
<1>2. WriteAt(c, img).size \in Nat /\ end <= WriteAt(c, img).size
      /\ c.size <= WriteAt(c, img).size
  BY <1>1 DEF WriteAt
<1>3. WriteAt(c, img).images \subseteq c.images \cup {img}
  BY DEF WriteAt
<1>4. ASSUME NEW x \in c.images
      PROVE  HeaderLength <= x.pos /\ x.pos + x.length <= WriteAt(c, img).size
  <2>1. HeaderLength <= x.pos /\ x.pos + x.length <= c.size /\ x \in Images
    BY DEF FileOK
  <2> HIDE DEF end
  <2> QED BY <2>1, <1>1, <1>2 DEF Images
<1>5. WriteAt(c, img).images \subseteq Images
  BY <1>3 DEF FileOK
<1>6. WriteAt(c, img) \in BlockFiles
  BY <1>2, <1>5 DEF WriteAt
<1>7. HeaderLength <= img.pos /\ img.pos + img.length <= WriteAt(c, img).size
  BY <1>2
<1> QED BY <1>3, <1>4, <1>6, <1>7 DEF FileOK

\* The truncation by a block of the file and its header keeps it well-formed.
LEMMA TruncatedOK ==
    ASSUME NEW c, FileOK(c), NEW x \in c.images
    PROVE  FileOK(Truncated(c, x.length))
<1>1. x.pos \in Nat /\ x.length \in Nat /\ c.size \in Nat
      /\ HeaderLength <= x.pos /\ x.pos + x.length <= c.size
  BY DEF FileOK, Images
<1>2. c.size - (x.length + HeaderLength) \in Nat
  BY <1>1
<1> QED BY <1>2 DEF FileOK, Truncated

\* Keys and values of a map to which keys are added, or from which some go.
LEMMA PutAllType ==
    ASSUME NEW mp, NEW D, NEW v, NEW A, NEW B,
           DOMAIN mp \subseteq A, \A x \in DOMAIN mp : mp[x] \in B, D \subseteq A, v \in B
    PROVE  /\ DOMAIN PutAll(mp, D, v) \subseteq A
           /\ \A x \in DOMAIN PutAll(mp, D, v) : PutAll(mp, D, v)[x] \in B
BY DEF PutAll

LEMMA WithoutDomain ==
    ASSUME NEW mp, NEW D
    PROVE  DOMAIN Without(mp, D) = DOMAIN mp \ D
BY DEF Without

\* The batch of saveBlock is a database.
LEMMA SavedDbType ==
    ASSUME NEW d, DbTypeOK(d), NEW fs, NEW b \in Blocks, NEW f \in Nat, NEW p \in Nat
    PROVE  DbTypeOK(SavedDb(d, fs, b, f, p))
<1> DEFINE h == d.info.height + 1
           e == IndexEntry(d, b, f, p)
           s == SavedDb(d, fs, b, f, p)
<1>1. h \in Nat /\ d.info.hash \in Hashes \cup {NoHash} /\ d.info.txCount \in Int
  BY DEF DbTypeOK, InfoRecords
<1>2. b.hash \in Hashes /\ b.txs \subseteq TxIds /\ b.length \in Nat /\ b.log \in Seq(Results)
  BY DEF Blocks
<1>3. Cardinality(b.txs) \in Nat
  BY <1>2, FS_Subset, FS_CardinalityType
<1>4. e \in IndexRecords
  BY <1>1, <1>2 DEF IndexEntry, IndexRecords
<1>5. s.info \in InfoRecords
  BY <1>1, <1>2, <1>3 DEF SavedDb, SavedInfo, InfoRecords
<1>6. DOMAIN s.index \subseteq Nat /\ \A g \in DOMAIN s.index : s.index[g] \in IndexRecords
  <2>1. s.index = PutAll(d.index, {h}, e)
    BY DEF SavedDb
  <2>2. DOMAIN d.index \subseteq Nat /\ \A g \in DOMAIN d.index : d.index[g] \in IndexRecords
    BY DEF DbTypeOK
  <2>3. {h} \subseteq Nat
    BY <1>1
  <2> HIDE DEF e, h
  <2>4. /\ DOMAIN PutAll(d.index, {h}, e) \subseteq Nat
        /\ \A g \in DOMAIN PutAll(d.index, {h}, e) :
              PutAll(d.index, {h}, e)[g] \in IndexRecords
    BY <2>2, <2>3, <1>4, PutAllType
  <2> HIDE DEF s
  <2> QED BY <2>1, <2>4
<1>7. DOMAIN s.heightOfHash \subseteq Hashes
  <2>1. s.heightOfHash = PutAll(d.heightOfHash, {b.hash}, h)
    BY DEF SavedDb
  <2> HIDE DEF s, h
  <2> QED BY <2>1, <1>2 DEF DbTypeOK, PutAll
<1>8. DOMAIN s.heightOfTx \subseteq TxIds
  <2>1. s.heightOfTx = PutAll(d.heightOfTx, b.txs, h)
    BY DEF SavedDb
  <2> HIDE DEF s, h
  <2> QED BY <2>1, <1>2 DEF DbTypeOK, PutAll
<1>9. DOMAIN s.firstHeight \subseteq Nat
  <2>1. s.firstHeight \in {PutAll(d.firstHeight, {f}, h), d.firstHeight}
    BY DEF SavedDb
  <2> HIDE DEF s, h
  <2> QED BY <2>1 DEF DbTypeOK, PutAll
<1>10. s.state \in States
  BY <1>2, SavedStateType DEF SavedDb, DbTypeOK
<1> QED BY <1>5, <1>6, <1>7, <1>8, <1>9, <1>10 DEF DbTypeOK

\* The batch of rollback is a database.
LEMMA RolledBackDbType ==
    ASSUME NEW d, DbTypeOK(d), NEW h, {h, h - 1} \subseteq DOMAIN d.index,
           NEW log \in Seq(Results)
    PROVE  DbTypeOK(RolledBackDb(d, h, log))
<1> DEFINE s == RolledBackDb(d, h, log)
<1>1. d.index[h - 1] \in IndexRecords /\ d.index[h] \in IndexRecords
  BY DEF DbTypeOK
<1>2. Cardinality(d.index[h].txs) \in Nat
  BY <1>1, FS_Subset, FS_CardinalityType DEF IndexRecords
<1>3. s.info \in InfoRecords
  <2>1. d.info.txCount - Cardinality(d.index[h].txs) \in Int
    BY <1>2 DEF DbTypeOK, InfoRecords
  <2>2. s.info = RolledBackInfo(d, h)
    BY DEF RolledBackDb
  <2> HIDE DEF s
  <2> QED BY <1>1, <2>1, <2>2 DEF RolledBackInfo, InfoRecords, IndexRecords
<1>4. DOMAIN s.index \subseteq Nat /\ \A g \in DOMAIN s.index : s.index[g] \in IndexRecords
  <2>1. s.index = Without(d.index, {h})
    BY DEF RolledBackDb
  <2> HIDE DEF s
  <2> QED BY <2>1 DEF DbTypeOK, Without
<1>5. DOMAIN s.heightOfHash \subseteq Hashes
  <2>1. s.heightOfHash = Without(d.heightOfHash, {d.index[h].hash})
    BY DEF RolledBackDb
  <2> HIDE DEF s
  <2> QED BY <2>1, WithoutDomain DEF DbTypeOK
<1>6. DOMAIN s.heightOfTx \subseteq TxIds
  <2>1. s.heightOfTx = Without(d.heightOfTx, d.index[h].txs)
    BY DEF RolledBackDb
  <2> HIDE DEF s
  <2> QED BY <2>1, WithoutDomain DEF DbTypeOK
<1>7. DOMAIN s.firstHeight \subseteq Nat
  <2>1. s.firstHeight \in {d.firstHeight, Without(d.firstHeight, {d.index[h].fileNo})}
    BY DEF RolledBackDb, FirstHeightWithout
  <2> HIDE DEF s
  <2> QED BY <2>1, WithoutDomain DEF DbTypeOK
<1>8. s.state \in States
  BY RolledBackStateType DEF RolledBackDb, DbTypeOK
<1> QED BY <1>3, <1>4, <1>5, <1>6, <1>7, <1>8 DEF DbTypeOK

-----------------------------------------------------------------------------
(* TypeInv is inductive, whatever the storager does during a rollback.      *)

LEMMA TypeInvInit == Init => TypeInv
<1> SUFFICES ASSUME Init PROVE TypeInv
  OBVIOUS
<1>1. DbTypeOK(db)
  BY DEF Init, DbTypeOK, InfoRecords, GenesisInfo, EmptyMap, States
<1>2. TypeOK
  BY <1>1 DEF Init, TypeOK, NoTxn, NoRoll, EmptyMap
<1> QED BY <1>2 DEF Init, TypeInv, FilesInv, TxnShape, NoTxn, EmptyMap

LEMMA OneElement == ASSUME NEW S, NEW x \in S PROVE <<x>> \in Seq(S)
OBVIOUS

\* The results a block can carry.
LEMMA LogsType ==
    ASSUME NEW s \in States
    PROVE  LogsAt(s) \subseteq Seq(Results)
<1>1. NoMap \in [{} -> Values] /\ NoMap \in [{} -> Values \cup {NoVal}]
  BY DEF NoMap
<1>2. NoMap \in MapsOf(Values) /\ NoMap \in MapsOf(Values \cup {NoVal})
  BY <1>1, MapsOfMember
<1>3. ASSUME NEW k \in Keys
      PROVE  [x \in {k} |-> s[k]] \in MapsOf(Values \cup {NoVal})
  <2>1. [x \in {k} |-> s[k]] \in [{k} -> Values \cup {NoVal}]
    BY DEF States
  <2> QED BY <2>1, MapsOfMember
<1>4. ASSUME NEW k \in Keys, NEW v \in Values
      PROVE  [x \in {k} |-> v] \in MapsOf(Values)
  <2>1. [x \in {k} |-> v] \in [{k} -> Values]
    OBVIOUS
  <2> QED BY <2>1, MapsOfMember
<1>5. ASSUME NEW k \in Keys, NEW v \in Values
      PROVE  SetResult(s, k, v) \in Results
  BY <1>2, <1>3, <1>4 DEF Results, SetResult
<1>6. ASSUME NEW k \in Keys
      PROVE  DelResult(s, k) \in Results
  BY <1>2, <1>3 DEF Results, DelResult
<1>7. \A k \in Keys, v \in Values : <<SetResult(s, k, v)>> \in Seq(Results)
  BY <1>5, OneElement
<1>8. \A k \in Keys : <<DelResult(s, k)>> \in Seq(Results)
  BY <1>6, OneElement
<1>9. <<>> \in Seq(Results)
  OBVIOUS
<1>10. ASSUME NEW log \in {<<SetResult(s, k, v)>> : k \in Keys, v \in Values}
       PROVE  log \in Seq(Results)
  <2>1. PICK k \in Keys, v \in Values : log = <<SetResult(s, k, v)>>
    OBVIOUS
  <2> QED BY <2>1, <1>7
<1>11. ASSUME NEW log \in {<<DelResult(s, k)>> : k \in Keys}
       PROVE  log \in Seq(Results)
  <2>1. PICK k \in Keys : log = <<DelResult(s, k)>>
    OBVIOUS
  <2> QED BY <2>1, <1>8
<1> DEFINE A == {<<SetResult(s, k, v)>> : k \in Keys, v \in Values}
           B == {<<DelResult(s, k)>> : k \in Keys}
<1>12. LogsAt(s) = {<<>>} \cup A \cup B
  BY DEF LogsAt
<1>13. (\A log \in A : log \in Seq(Results)) /\ (\A log \in B : log \in Seq(Results))
  BY <1>10, <1>11
<1> HIDE DEF A, B
<1> QED BY <1>9, <1>12, <1>13

LEMMA TypeBeginSave == TypeInv /\ BeginSave => TypeInv'
<1> SUFFICES ASSUME TypeInv, BeginSave PROVE TypeInv'
  OBVIOUS
<1> USE DEF TypeInv
<1>1. PICK hash \in Hashes \ DOMAIN db.heightOfHash,
           txs \in SUBSET (TxIds \ DOMAIN db.heightOfTx),
           len \in Lengths, log \in LogsAt(db.state) :
        LET b == [hash |-> hash, txs |-> txs, length |-> len, log |-> log]
            f == FileNoFor(files, db.info.fileNo, len + HeaderLength)
            p == PosFor(files, f)
        IN  txn' = [op |-> "save", written |-> FALSE, block |-> b, file |-> f,
                    pos |-> p, db |-> SavedDb(db, files, b, f, p)]
  BY DEF BeginSave
<1> DEFINE b == [hash |-> hash, txs |-> txs, length |-> len, log |-> log]
           f == FileNoFor(files, db.info.fileNo, len + HeaderLength)
           p == PosFor(files, f)
<1>2. DbTypeOK(db) /\ db.state \in States /\ db.info.fileNo \in Nat
  BY DEF TypeOK, DbTypeOK, InfoRecords
<1>3. b \in Blocks
  BY <1>2, LogsType DEF Blocks
<1>4. f \in Nat
  BY <1>2, FileNoForType
<1>5. FileAt(files, f).size \in Nat
  BY FileAtOK DEF FileOK
<1>6. p \in Nat /\ HeaderLength <= p
  BY <1>5 DEF PosFor
<1>7. DbTypeOK(SavedDb(db, files, b, f, p))
  <2> HIDE DEF b, f, p
  <2> QED BY <1>2, <1>3, <1>4, <1>6, SavedDbType
<1>8. txn' = [op |-> "save", written |-> FALSE, block |-> b, file |-> f,
              pos |-> p, db |-> SavedDb(db, files, b, f, p)]
  BY <1>1
<1> HIDE DEF b, f, p
<1>9. UNCHANGED <<db, files, roller, faults, cut, before>>
  BY DEF BeginSave
<1>10. TypeOK'
  BY <1>3, <1>4, <1>6, <1>7, <1>8, <1>9 DEF TypeOK
<1>11. FilesInv'
  BY <1>9 DEF FilesInv
<1> QED BY <1>6, <1>8, <1>10, <1>11 DEF TxnShape

LEMMA TypeWriteBlock == TypeInv /\ WriteBlock => TypeInv'
<1> SUFFICES ASSUME TypeInv, WriteBlock PROVE TypeInv'
  OBVIOUS
<1> USE DEF TypeInv
<1> DEFINE img == [pos |-> txn.pos, length |-> txn.block.length,
                   hash |-> txn.block.hash, log |-> txn.block.log]
           c == WriteAt(FileAt(files, txn.file), img)
<1>1. txn.op = "save" /\ txn.block \in Blocks /\ txn.file \in Nat /\ txn.pos \in Nat
      /\ HeaderLength <= txn.pos
  BY DEF WriteBlock, TypeOK, TxnShape
<1>2. img \in Images
  BY <1>1 DEF Blocks, Images
<1>3. FileOK(c)
  <2>1. FileOK(FileAt(files, txn.file))
    BY FileAtOK
  <2>2. HeaderLength <= img.pos
    BY <1>1
  <2> HIDE DEF img
  <2> QED BY <2>1, <2>2, <1>2, WriteAtOK
<1>4. files' = PutFile(files, txn.file, c)
  BY DEF WriteBlock
<1>5. /\ DOMAIN files' \subseteq Nat
      /\ \A g \in DOMAIN files' : files'[g] \in BlockFiles
      /\ FilesInv'
  <2> HIDE DEF c
  <2> QED BY <1>1, <1>3, <1>4, PutFileOK
<1>6. /\ txn' = [txn EXCEPT !.written = TRUE]
      /\ UNCHANGED <<db, roller, faults, cut, before>>
  BY DEF WriteBlock
<1>7. txn' = [op |-> "save", written |-> TRUE, block |-> txn.block,
              file |-> txn.file, pos |-> txn.pos, db |-> txn.db]
  BY <1>1, <1>6 DEF TxnShape
<1>8. TypeOK'
  BY <1>1, <1>5, <1>6, <1>7 DEF TypeOK
<1>9. TxnShape'
  BY <1>1, <1>7 DEF TxnShape
<1> QED BY <1>5, <1>8, <1>9

LEMMA TypeTornWrite == TypeInv /\ TornWrite => TypeInv'
<1> SUFFICES ASSUME TypeInv, TornWrite PROVE TypeInv'
  OBVIOUS
<1> USE DEF TypeInv
<1>1. txn.op = "save" /\ txn.file \in Nat /\ txn.block \in Blocks /\ faults < MaxFaults
  BY DEF TornWrite, TypeOK
<1>2. PICK n \in 0 .. HeaderLength + txn.block.length - 1 :
        files' = PutFile(files, txn.file, [FileAt(files, txn.file) EXCEPT !.size = @ + n])
  BY DEF TornWrite
<1>3. n \in Nat
  BY <1>1 DEF Blocks
<1> DEFINE c == [FileAt(files, txn.file) EXCEPT !.size = @ + n]
<1>4. FileOK(c)
  <2> DEFINE o == FileAt(files, txn.file)
  <2>1. FileOK(o)
    BY FileAtOK
  <2>2. c.size = o.size + n /\ c.images = o.images
    BY <2>1 DEF FileOK
  <2>3. c \in BlockFiles
    BY <2>1, <1>3 DEF FileOK
  <2> HIDE DEF c, o
  <2> QED BY <2>1, <2>2, <2>3, <1>3 DEF FileOK, Images
<1>5. /\ DOMAIN files' \subseteq Nat
      /\ \A g \in DOMAIN files' : files'[g] \in BlockFiles
      /\ FilesInv'
  <2>1. files' = PutFile(files, txn.file, c)
    BY <1>2
  <2> HIDE DEF c
  <2> QED BY <2>1, <1>1, <1>4, PutFileOK
<1>6. /\ txn' = NoTxn /\ faults' = faults + 1
      /\ UNCHANGED <<db, roller, cut, before>>
  BY DEF TornWrite
<1>7. TypeOK'
  BY <1>1, <1>5, <1>6 DEF TypeOK, NoTxn
<1>8. TxnShape'
  BY <1>6 DEF TxnShape, NoTxn
<1> QED BY <1>5, <1>7, <1>8

LEMMA TypeCommitSave == TypeInv /\ CommitSave => TypeInv'
<1> SUFFICES ASSUME TypeInv, CommitSave PROVE TypeInv'
  OBVIOUS
<1> USE DEF TypeInv
<1>1. txn.op = "save" /\ DbTypeOK(txn.db) /\ db.state \in States
  BY DEF CommitSave, TypeOK, DbTypeOK
<1>2. /\ db' = txn.db /\ txn' = NoTxn /\ before' = Append(before, db.state)
      /\ UNCHANGED <<files, roller, faults, cut>>
  BY DEF CommitSave
<1>3. before' \in Seq(States)
  BY <1>1, <1>2, AppendProperties DEF TypeOK
<1>4. TypeOK'
  BY <1>1, <1>2, <1>3 DEF TypeOK, NoTxn
<1> QED BY <1>2, <1>4 DEF FilesInv, TxnShape, NoTxn

LEMMA TypeCallRollback == TypeInv /\ CallRollback => TypeInv'
<1> SUFFICES ASSUME TypeInv, CallRollback PROVE TypeInv'
  OBVIOUS
<1> USE DEF TypeInv
<1>1. db.info.height \in Nat
  BY DEF TypeOK, DbTypeOK, InfoRecords
<1>2. PICK to \in 0 .. db.info.height - 1 :
        roller' = [to |-> to, from |-> db.info.height, loop |-> db.info.height]
  BY DEF CallRollback
<1>3. UNCHANGED <<db, files, txn, faults, cut, before>>
  BY DEF CallRollback
<1>4. TypeOK'
  BY <1>1, <1>2, <1>3 DEF TypeOK
<1> QED BY <1>3, <1>4 DEF FilesInv, TxnShape, Readable, FileAt

\* An image that can be read back has the type of an image.
LEMMA ReadImageType ==
    ASSUME TypeInv, NEW h \in DOMAIN db.index, Readable(db, files, h)
    PROVE  /\ ReadImage(db, files, h) \in FileAt(files, db.index[h].fileNo).images
           /\ IsImageOf(ReadImage(db, files, h), db.index[h])
           /\ ReadImage(db, files, h) \in Images
<1>1. FileOK(FileAt(files, db.index[h].fileNo))
  BY FileAtOK DEF TypeInv
<1>2. /\ ReadImage(db, files, h) \in FileAt(files, db.index[h].fileNo).images
      /\ IsImageOf(ReadImage(db, files, h), db.index[h])
  BY DEF Readable, ReadImage
<1> QED BY <1>1, <1>2 DEF FileOK

LEMMA TypeBeginRollback == TypeInv /\ BeginRollback => TypeInv'
<1> SUFFICES ASSUME TypeInv, BeginRollback PROVE TypeInv'
  OBVIOUS
<1> USE DEF TypeInv
<1> DEFINE h == roller.loop
           log == ReadImage(db, files, h).log
<1>1. {h, h - 1} \subseteq DOMAIN db.index /\ Readable(db, files, h)
  BY DEF BeginRollback, CanRollback
<1>2. h \in Nat /\ DbTypeOK(db)
  BY <1>1 DEF TypeOK, DbTypeOK
<1>3. log \in Seq(Results)
  BY <1>1, ReadImageType DEF Images
<1>4. DbTypeOK(RolledBackDb(db, h, log))
  <2> HIDE DEF h, log
  <2> QED BY <1>1, <1>2, <1>3, RolledBackDbType
<1>5. txn' = [op |-> "rollback", written |-> FALSE, height |-> h,
              db |-> RolledBackDb(db, h, log)]
  BY DEF BeginRollback
<1>6. UNCHANGED <<db, files, roller, faults, cut, before>>
  BY DEF BeginRollback
<1> HIDE DEF h, log
<1>7. TypeOK'
  BY <1>2, <1>4, <1>5, <1>6 DEF TypeOK
<1>8. TxnShape'
  BY <1>1, <1>5, <1>6 DEF TxnShape, Readable, FileAt
<1> QED BY <1>6, <1>7, <1>8 DEF FilesInv

LEMMA TypeTruncateFile == TypeInv /\ TruncateFile => TypeInv'
<1> SUFFICES ASSUME TypeInv, TruncateFile PROVE TypeInv'
  OBVIOUS
<1> USE DEF TypeInv
<1> DEFINE h == txn.height
           f == db.index[h].fileNo
           x == ReadImage(db, files, h)
           c == Truncated(FileAt(files, f), db.index[h].length)
<1>1. /\ txn.op = "rollback" /\ h \in DOMAIN db.index /\ Readable(db, files, h)
      /\ h \in Nat /\ DbTypeOK(txn.db)
  BY DEF TruncateFile, TxnShape, TypeOK
<1>2. f \in Nat
  BY <1>1 DEF TypeOK, DbTypeOK, IndexRecords
<1>3. x \in FileAt(files, f).images /\ x.length = db.index[h].length
  BY <1>1, ReadImageType DEF IsImageOf
<1>4. FileOK(c)
  <2>1. FileOK(FileAt(files, f))
    BY FileAtOK
  <2>2. FileOK(Truncated(FileAt(files, f), x.length))
    <3> HIDE DEF x, f
    <3> QED BY <2>1, <1>3, TruncatedOK
  <2> QED BY <2>2, <1>3
<1>5. /\ files' = PutFile(files, f, c)
      /\ txn' = [txn EXCEPT !.written = TRUE]
      /\ cut' = cut \cup {h}
      /\ UNCHANGED <<db, roller, faults, before>>
  BY DEF TruncateFile
<1>6. /\ DOMAIN files' \subseteq Nat
      /\ \A g \in DOMAIN files' : files'[g] \in BlockFiles
      /\ FilesInv'
  <2> HIDE DEF c, f
  <2> QED BY <1>2, <1>4, <1>5, PutFileOK
<1>7. txn' = [op |-> "rollback", written |-> TRUE, height |-> h, db |-> txn.db]
  BY <1>1, <1>5 DEF TxnShape
<1> HIDE DEF h, f, x, c
<1>8. TypeOK'
  BY <1>1, <1>5, <1>6, <1>7 DEF TypeOK
<1>9. TxnShape'
  BY <1>1, <1>5, <1>7 DEF TxnShape
<1> QED BY <1>6, <1>8, <1>9

LEMMA TypeCommitRollback == TypeInv /\ CommitRollback => TypeInv'
<1> SUFFICES ASSUME TypeInv, CommitRollback PROVE TypeInv'
  OBVIOUS
<1> USE DEF TypeInv
<1>1. /\ db' = txn.db /\ cut' = cut \ {txn.height} /\ txn' = NoTxn
      /\ before' = SubSeq(before, 1, Len(before) - 1)
      /\ roller' = [roller EXCEPT !.loop = @ - 1]
      /\ UNCHANGED <<files, faults>>
  BY DEF CommitRollback
<1>2. DbTypeOK(txn.db)
  BY DEF CommitRollback, TypeOK
<1>3. before' \in Seq(States)
  <2>1. before \in Seq(States) /\ Len(before) - 1 \in Int
    BY DEF TypeOK
  <2>2. \A i \in 1 .. Len(before) - 1 : before[i] \in States
    BY <2>1
  <2> QED BY <1>1, <2>1, <2>2, SubSeqProperties
<1>4. roller' \in [to : Int, from : Int, loop : Int]
  BY <1>1 DEF TypeOK
<1>5. TypeOK'
  BY <1>1, <1>2, <1>3, <1>4 DEF TypeOK, NoTxn
<1> QED BY <1>1, <1>5 DEF FilesInv, TxnShape, NoTxn

\* The steps that change neither the database nor a file.
LEMMA TypeQuietSteps ==
    TypeInv /\ (RefuseRollback \/ EndRollback \/ CommitFails \/ Crash) => TypeInv'
<1> SUFFICES ASSUME TypeInv, RefuseRollback \/ EndRollback \/ CommitFails \/ Crash
             PROVE  TypeInv'
  OBVIOUS
<1> USE DEF TypeInv
<1>1. UNCHANGED <<db, files, cut, before>>
  BY DEF RefuseRollback, EndRollback, CommitFails, Crash
<1>2. txn' \in {txn, NoTxn} /\ roller' \in {roller, NoRoll}
  BY DEF RefuseRollback, EndRollback, CommitFails, Crash
<1>3. faults' \in 0 .. MaxFaults
  BY DEF RefuseRollback, EndRollback, CommitFails, Crash, TypeOK
<1>4. TypeOK'
  BY <1>1, <1>2, <1>3 DEF TypeOK, NoTxn, NoRoll
<1>5. TxnShape'
  BY <1>1, <1>2 DEF TxnShape, NoTxn, Readable, FileAt
<1> QED BY <1>1, <1>4, <1>5 DEF FilesInv

LEMMA TypeInvNext == TypeInv /\ [Next]_vars => TypeInv'
<1> SUFFICES ASSUME TypeInv, [Next]_vars PROVE TypeInv'
  OBVIOUS
<1>1. CASE UNCHANGED vars
  BY <1>1 DEF vars, TypeInv, TypeOK, FilesInv, TxnShape, Readable, FileAt
<1> QED
  BY <1>1, TypeBeginSave, TypeWriteBlock, TypeTornWrite, TypeCommitSave,
     TypeCallRollback, TypeBeginRollback, TypeTruncateFile, TypeCommitRollback,
     TypeQuietSteps DEF Next

\* Every variable keeps its type, for all constants: also when blocks are
\* saved while a rollback loops, no truncation takes more than a file holds.
THEOREM TypeCorrect == Spec => []TypeOK
<1>1. Spec => []TypeInv
  BY TypeInvInit, TypeInvNext, PTL DEF Spec
<1>2. TypeInv => TypeOK
  BY DEF TypeInv
<1> QED BY <1>1, <1>2, PTL

-----------------------------------------------------------------------------
(* The integrity of the block files, as long as no block is saved while a   *)
(* rollback loops.                                                          *)

Quiet == ~SaveDuringRollback

LEMMA StoreInvInit == Init => StoreInv
BY DEF Init, StoreInv, IndexInv, PlacedInv, SaveInv, RollbackInv, BlocksIntact,
       GenesisInfo, EmptyMap, NoTxn, NoRoll

LEMMA IndexTypes ==
    ASSUME TypeInv, StoreInv
    PROVE  /\ db.info.height \in Nat /\ db.info.fileNo \in Nat
           /\ DOMAIN db.index = 1 .. db.info.height
           /\ \A h \in 1 .. db.info.height :
                 /\ db.index[h].fileNo \in Nat /\ db.index[h].filePos \in Nat
                 /\ db.index[h].length \in Nat
BY DEF TypeInv, TypeOK, DbTypeOK, InfoRecords, IndexRecords, StoreInv, IndexInv

\* A block that can be read back ends inside its file.
LEMMA ReadableEnds ==
    ASSUME TypeInv, NEW h \in DOMAIN db.index, Readable(db, files, h)
    PROVE  db.index[h].filePos + db.index[h].length
              <= FileAt(files, db.index[h].fileNo).size
<1>1. FileOK(FileAt(files, db.index[h].fileNo))
  BY FileAtOK DEF TypeInv
<1>2. PICK x \in FileAt(files, db.index[h].fileNo).images : IsImageOf(x, db.index[h])
  BY DEF Readable
<1> QED BY <1>1, <1>2 DEF FileOK, IsImageOf

LEMMA StoreBeginSave == TypeInv /\ StoreInv /\ BeginSave /\ Quiet => StoreInv'
<1> SUFFICES ASSUME TypeInv, StoreInv, BeginSave, Quiet PROVE StoreInv'
  OBVIOUS
<1>1. PICK hash \in Hashes \ DOMAIN db.heightOfHash,
           txs \in SUBSET (TxIds \ DOMAIN db.heightOfTx),
           len \in Lengths, log \in LogsAt(db.state) :
        LET b == [hash |-> hash, txs |-> txs, length |-> len, log |-> log]
            f == FileNoFor(files, db.info.fileNo, len + HeaderLength)
            p == PosFor(files, f)
        IN  txn' = [op |-> "save", written |-> FALSE, block |-> b, file |-> f,
                    pos |-> p, db |-> SavedDb(db, files, b, f, p)]
  BY DEF BeginSave
<1> DEFINE b == [hash |-> hash, txs |-> txs, length |-> len, log |-> log]
           f == FileNoFor(files, db.info.fileNo, len + HeaderLength)
           p == PosFor(files, f)
           n == db.info.height
           i == IndexEntry(db, b, f, p)
           d == SavedDb(db, files, b, f, p)
<1>2. UNCHANGED <<db, files, roller, faults, cut, before>> /\ roller = NoRoll
  BY DEF BeginSave, StoragerMaySave, Quiet
<1>3. f \in {db.info.fileNo, db.info.fileNo + 1} /\ f \in Nat
  BY IndexTypes, FileNoForType
<1>4. FileOK(FileAt(files, f))
  BY FileAtOK DEF TypeInv
<1>5. p \in Nat /\ p - HeaderLength = FileAt(files, f).size
  BY <1>4 DEF PosFor, FileOK
<1>6. /\ d.info.height = n + 1 /\ d.info.fileNo = f
      /\ d.index = PutAll(db.index, {n + 1}, i)
  BY DEF SavedDb, SavedInfo
<1>7. i.height = n + 1 /\ i.hash = b.hash /\ i.fileNo = f /\ i.filePos = p
      /\ i.length = b.length
  BY DEF IndexEntry
<1>8. txn' = [op |-> "save", written |-> FALSE, block |-> b, file |-> f,
              pos |-> p, db |-> d]
  BY <1>1
<1> HIDE DEF b, f, p, i, d
<1>9. /\ DOMAIN d.index = 1 .. n + 1
      /\ \A h \in 1 .. n : d.index[h] = db.index[h]
      /\ d.index[n + 1] = i
  BY <1>6, IndexTypes DEF PutAll
<1>10. \A g \in 1 .. n : db.index[g].fileNo <= f
  <2> SUFFICES ASSUME NEW g \in 1 .. n PROVE db.index[g].fileNo <= f
    OBVIOUS
  <2>1. db.index[g].fileNo <= db.index[n].fileNo /\ db.info.fileNo = db.index[n].fileNo
    BY IndexTypes DEF StoreInv, IndexInv
  <2> QED BY <2>1, <1>3, IndexTypes
<1>11. \A g \in 1 .. n : Behind(g, f, p)
  <2> SUFFICES ASSUME NEW g \in 1 .. n, db.index[g].fileNo = f
               PROVE  /\ db.index[g].filePos <= p
                      /\ g \notin cut => db.index[g].filePos + db.index[g].length
                                            <= p - HeaderLength
    BY DEF Behind
  <2>1. db.index[g].filePos - HeaderLength <= p - HeaderLength
    BY <1>5, IndexTypes DEF StoreInv, PlacedInv
  <2>2. ASSUME g \notin cut
        PROVE  db.index[g].filePos + db.index[g].length <= p - HeaderLength
    BY <2>2, <1>5, IndexTypes, ReadableEnds DEF StoreInv, BlocksIntact
  <2> QED BY <2>1, <2>2, <1>5, IndexTypes
<1>12. SaveInv'
  <2>1. /\ txn'.op = "save" /\ ~txn'.written /\ txn'.block = b
        /\ txn'.file = f /\ txn'.pos = p /\ txn'.db = d
    BY <1>8
  <2>2. \A g \in 1 .. n : Behind(g, txn.file, txn.pos)'
    BY <1>2, <1>11, <2>1 DEF Behind
  <2>3. p - HeaderLength <= FileAt(files, f).size
    BY <1>5
  <2> QED
    BY <2>1, <2>2, <2>3, <1>2, <1>5, <1>6, <1>7, <1>9, <1>10 DEF SaveInv, FileAt, Behind
<1>13. RollbackInv'
  BY <1>2, <1>8 DEF RollbackInv, StoreInv
<1> QED BY <1>2, <1>12, <1>13 DEF StoreInv, IndexInv, PlacedInv, BlocksIntact,
                                Behind, Readable, FileAt

\* A file that grows and loses no image damages nothing.
LEMMA GrowFile ==
    ASSUME TypeInv, StoreInv, NEW f \in Nat, NEW c, c.size \in Nat,
           files' = PutFile(files, f, c),
           FileAt(files, f).size <= c.size, FileAt(files, f).images \subseteq c.images,
           UNCHANGED <<db, cut>>
    PROVE  /\ (cut \subseteq DOMAIN db.index)'
           /\ IndexInv' /\ PlacedInv' /\ BlocksIntact'
<1>1. \A g : /\ FileAt(files, g).size <= FileAt(files', g).size
             /\ FileAt(files, g).images \subseteq FileAt(files', g).images
             /\ FileAt(files, g).size \in Nat /\ FileAt(files', g).size \in Nat
  BY FileAtOK DEF FileAt, PutFile, EmptyFile, TypeInv, FileOK
<1>2. PlacedInv'
  <2> SUFFICES ASSUME NEW h \in DOMAIN db.index
               PROVE  LET i == db.index[h]
                      IN  /\ HeaderLength <= i.filePos
                          /\ i.filePos - HeaderLength <= FileAt(files', i.fileNo).size
                          /\ \A g \in 1 .. h - 1 : Behind(g, i.fileNo, i.filePos)
    BY DEF PlacedInv, Behind
  <2> DEFINE i == db.index[h]
  <2>1. /\ HeaderLength <= i.filePos
        /\ i.filePos - HeaderLength <= FileAt(files, i.fileNo).size
        /\ \A g \in 1 .. h - 1 : Behind(g, i.fileNo, i.filePos)
    BY DEF StoreInv, PlacedInv
  <2>2. i.filePos \in Nat
    BY IndexTypes
  <2>3. FileAt(files, i.fileNo).size <= FileAt(files', i.fileNo).size
        /\ FileAt(files, i.fileNo).size \in Nat /\ FileAt(files', i.fileNo).size \in Nat
    BY <1>1
  <2>4. i.filePos - HeaderLength <= FileAt(files', i.fileNo).size
    <3> HIDE DEF i
    <3> QED BY <2>1, <2>2, <2>3
  <2> QED BY <2>1, <2>4
<1>3. BlocksIntact'
  BY <1>1 DEF StoreInv, BlocksIntact, Readable
<1> QED BY <1>2, <1>3 DEF StoreInv, IndexInv

LEMMA StoreWriteBlock == TypeInv /\ StoreInv /\ WriteBlock => StoreInv'
<1> SUFFICES ASSUME TypeInv, StoreInv, WriteBlock PROVE StoreInv'
  OBVIOUS
<1> DEFINE img == [pos |-> txn.pos, length |-> txn.block.length,
                   hash |-> txn.block.hash, log |-> txn.block.log]
           f == txn.file
           o == FileAt(files, f)
           c == WriteAt(o, img)
           n == db.info.height
<1>1. /\ txn.op = "save" /\ ~txn.written /\ txn.block \in Blocks /\ f \in Nat
      /\ txn.pos \in Nat /\ HeaderLength <= txn.pos
  BY DEF WriteBlock, TypeInv, TypeOK, TxnShape
<1>2. /\ files' = PutFile(files, f, c)
      /\ txn' = [txn EXCEPT !.written = TRUE]
      /\ UNCHANGED <<db, roller, faults, cut, before>>
  BY DEF WriteBlock
<1>3. FileOK(o) /\ o.size = txn.pos - HeaderLength
  BY <1>1, FileAtOK DEF TypeInv, StoreInv, SaveInv
<1>4. txn.block.length \in Nat
  BY <1>1 DEF Blocks
<1>5. c.size \in Nat /\ o.size <= c.size /\ txn.pos + txn.block.length <= c.size
  BY <1>1, <1>3, <1>4 DEF WriteAt, FileOK
<1>6. o.images \subseteq c.images /\ img \in c.images
  <2>1. \A x \in o.images : x.pos + x.length <= img.pos - HeaderLength
    BY <1>3 DEF FileOK
  <2> QED BY <2>1 DEF WriteAt
<1>7. FileAt(files', f) = c
  BY <1>2 DEF FileAt, PutFile
<1>8. /\ (cut \subseteq DOMAIN db.index)'
      /\ IndexInv' /\ PlacedInv' /\ BlocksIntact'
  <2> HIDE DEF c
  <2> QED BY <1>1, <1>2, <1>5, <1>6, GrowFile
<1>9. /\ txn'.op = "save" /\ txn'.written /\ txn'.block = txn.block
      /\ txn'.file = txn.file /\ txn'.pos = txn.pos /\ txn'.db = txn.db
  BY <1>1, <1>2 DEF TypeInv, TxnShape
<1>10. SaveInv'
  <2>1. img.pos = txn.pos /\ img.length = txn.block.length /\ img.hash = txn.block.hash
    OBVIOUS
  <2>2. IsImageOf(img, txn.db.index[n + 1])
    BY <2>1, <1>1 DEF IsImageOf, StoreInv, SaveInv
  <2>3. \E x \in FileAt(files', f).images : IsImageOf(x, txn.db.index[n + 1])
    BY <2>2, <1>6, <1>7
  <2>4. txn.pos - HeaderLength <= FileAt(files', f).size
    BY <1>3, <1>5, <1>7 DEF FileOK
  <2> HIDE DEF img, c, o
  <2> QED BY <2>3, <2>4, <1>1, <1>2, <1>9 DEF StoreInv, SaveInv, Behind
<1>11. RollbackInv'
  BY <1>2, <1>9 DEF RollbackInv, StoreInv
<1> QED BY <1>8, <1>10, <1>11 DEF StoreInv

LEMMA StoreTornWrite == TypeInv /\ StoreInv /\ TornWrite => StoreInv'
<1> SUFFICES ASSUME TypeInv, StoreInv, TornWrite PROVE StoreInv'
  OBVIOUS
<1>1. txn.op = "save" /\ txn.file \in Nat /\ txn.block \in Blocks
  BY DEF TornWrite, TypeInv, TypeOK
<1>2. PICK n \in 0 .. HeaderLength + txn.block.length - 1 :
        files' = PutFile(files, txn.file, [FileAt(files, txn.file) EXCEPT !.size = @ + n])
  BY DEF TornWrite
<1>3. n \in Nat
  BY <1>1 DEF Blocks
<1> DEFINE o == FileAt(files, txn.file)
           c == [o EXCEPT !.size = @ + n]
<1>4. FileOK(o)
  BY FileAtOK DEF TypeInv
<1>5. c.size \in Nat /\ o.size <= c.size /\ c.images = o.images
  BY <1>3, <1>4 DEF FileOK
<1>6. txn' = NoTxn /\ UNCHANGED <<db, roller, cut, before>>
  BY DEF TornWrite
<1>7. /\ (cut \subseteq DOMAIN db.index)'
      /\ IndexInv' /\ PlacedInv' /\ BlocksIntact'
  <2>1. files' = PutFile(files, txn.file, c)
    BY <1>2
  <2> HIDE DEF c
  <2> QED BY <2>1, <1>1, <1>5, <1>6, GrowFile
<1>8. SaveInv' /\ RollbackInv'
  BY <1>6 DEF StoreInv, SaveInv, RollbackInv, NoTxn
<1> QED BY <1>7, <1>8 DEF StoreInv

LEMMA StoreCommitSave == TypeInv /\ StoreInv /\ CommitSave => StoreInv'
<1> SUFFICES ASSUME TypeInv, StoreInv, CommitSave PROVE StoreInv'
  OBVIOUS
<1> DEFINE n == db.info.height
           i == txn.db.index[n + 1]
<1>1. /\ txn.op = "save" /\ txn.written /\ txn.block \in Blocks /\ txn.file \in Nat
      /\ txn.pos \in Nat /\ HeaderLength <= txn.pos
  BY DEF CommitSave, TypeInv, TypeOK, TxnShape
<1>2. db' = txn.db /\ txn' = NoTxn /\ UNCHANGED <<files, roller, faults, cut>>
  BY DEF CommitSave
<1>3. /\ roller = NoRoll
      /\ txn.db.info.height = n + 1 /\ txn.db.info.fileNo = txn.file
      /\ DOMAIN txn.db.index = 1 .. n + 1
      /\ \A h \in 1 .. n : txn.db.index[h] = db.index[h]
      /\ i.height = n + 1 /\ i.hash = txn.block.hash
      /\ i.fileNo = txn.file /\ i.filePos = txn.pos /\ i.length = txn.block.length
      /\ \A g \in 1 .. n : db.index[g].fileNo <= txn.file
      /\ \A g \in 1 .. n : Behind(g, txn.file, txn.pos)
      /\ txn.pos - HeaderLength <= FileAt(files, txn.file).size
      /\ \E x \in FileAt(files, txn.file).images : IsImageOf(x, i)
  BY <1>1 DEF StoreInv, SaveInv
<1>4. n \in Nat /\ DOMAIN db.index = 1 .. n
  BY IndexTypes
<1>5. db'.info.height = n + 1 /\ DOMAIN db'.index = 1 .. n + 1
      /\ db'.index[n + 1] = i /\ \A h \in 1 .. n : db'.index[h] = db.index[h]
  BY <1>2, <1>3
<1>6. (cut \subseteq DOMAIN db.index)'
  BY <1>2, <1>4, <1>5 DEF StoreInv
<1> HIDE DEF i
<1>7. IndexInv'
  <2>1. ASSUME NEW h \in 1 .. n + 1 PROVE db'.index[h].height = h
    <3>1. CASE h \in 1 .. n
      BY <3>1, <1>5 DEF StoreInv, IndexInv
    <3>2. CASE h = n + 1
      BY <3>2, <1>3, <1>5
    <3> QED BY <3>1, <3>2, <1>4
  <2>2. db'.info.fileNo = db'.index[n + 1].fileNo
    BY <1>2, <1>3, <1>5
  <2>3. ASSUME NEW g \in 1 .. n + 1, NEW h \in 1 .. n + 1, g <= h
        PROVE  db'.index[g].fileNo <= db'.index[h].fileNo
    <3>1. CASE h \in 1 .. n
      <4>1. g \in 1 .. n
        BY <2>3, <3>1, <1>4
      <4> QED BY <2>3, <3>1, <4>1, <1>4, <1>5 DEF StoreInv, IndexInv
    <3>2. CASE h = n + 1 /\ g \in 1 .. n
      BY <3>2, <1>3, <1>5
    <3>3. CASE h = n + 1 /\ g = n + 1
      BY <3>3, <1>1, <1>3, <1>5
    <3> QED BY <3>1, <3>2, <3>3, <1>4
  <2> QED BY <2>1, <2>2, <2>3, <1>5 DEF IndexInv
<1>8. PlacedInv'
  <2> SUFFICES ASSUME NEW h \in 1 .. n + 1
               PROVE  /\ HeaderLength <= db'.index[h].filePos
                      /\ db'.index[h].filePos - HeaderLength
                            <= FileAt(files, db'.index[h].fileNo).size
                      /\ \A g \in 1 .. h - 1 :
                            Behind(g, db'.index[h].fileNo, db'.index[h].filePos)
    <3>1. \A g \in 1 .. n : db'.index[g] = db.index[g]
      BY <1>5
    <3>2. \A h2 \in 1 .. n + 1 : \A g \in 1 .. h2 - 1 : g \in 1 .. n
      BY <1>4
    <3> QED BY <3>1, <3>2, <1>2, <1>5 DEF PlacedInv, Behind
  <2>1. CASE h \in 1 .. n
    BY <2>1, <1>4, <1>5 DEF StoreInv, PlacedInv
  <2>2. CASE h = n + 1
    <3>1. \A g \in 1 .. h - 1 : g \in 1 .. n
      BY <2>2, <1>4
    <3> QED BY <2>2, <3>1, <1>1, <1>3, <1>5
  <2> QED BY <2>1, <2>2, <1>4
<1>9. BlocksIntact'
  <2> SUFFICES ASSUME NEW h \in (1 .. n + 1) \ cut PROVE Readable(db', files, h)
    BY <1>2, <1>5 DEF BlocksIntact
  <2>1. CASE h \in 1 .. n
    BY <2>1, <1>4, <1>5 DEF StoreInv, BlocksIntact, Readable
  <2>2. CASE h = n + 1
    BY <2>2, <1>3, <1>5 DEF Readable
  <2> QED BY <2>1, <2>2, <1>4
<1>10. SaveInv' /\ RollbackInv'
  BY <1>2, <1>3 DEF SaveInv, RollbackInv, NoTxn
<1> QED BY <1>6, <1>7, <1>8, <1>9, <1>10 DEF StoreInv

\* The steps that change neither the database nor a file.
LEMMA StoreQuietSteps ==
    TypeInv /\ StoreInv /\ Quiet
      /\ (CallRollback \/ RefuseRollback \/ EndRollback \/ CommitFails \/ Crash)
    => StoreInv'
<1> SUFFICES ASSUME TypeInv, StoreInv, Quiet,
                    CallRollback \/ RefuseRollback \/ EndRollback \/ CommitFails \/ Crash
             PROVE  StoreInv'
  OBVIOUS
<1>1. UNCHANGED <<db, files, cut, before>>
  BY DEF CallRollback, RefuseRollback, EndRollback, CommitFails, Crash
<1>2. \/ txn' = NoTxn
      \/ txn.op # "rollback" /\ txn' = txn /\ roller # NoRoll /\ roller' = NoRoll
  BY DEF CallRollback, RefuseRollback, EndRollback, CommitFails, Crash, Quiet, NoTxn
<1>3. roller' # NoRoll => roller'.loop = db.info.height
  <2>1. CASE CallRollback
    BY <2>1 DEF CallRollback
  <2>2. CASE RefuseRollback \/ EndRollback \/ CommitFails \/ Crash
    BY <2>2 DEF RefuseRollback, EndRollback, CommitFails, Crash, StoreInv, RollbackInv
  <2> QED BY <2>1, <2>2
<1>4. SaveInv' /\ RollbackInv'
  BY <1>1, <1>2, <1>3 DEF SaveInv, RollbackInv, StoreInv, NoTxn
<1> QED BY <1>1, <1>4 DEF StoreInv, IndexInv, PlacedInv, BlocksIntact, Behind,
                          Readable, FileAt

LEMMA StoreBeginRollback == TypeInv /\ StoreInv /\ BeginRollback => StoreInv'
<1> SUFFICES ASSUME TypeInv, StoreInv, BeginRollback PROVE StoreInv'
  OBVIOUS
<1> DEFINE h == roller.loop
           n == db.info.height
           d == RolledBackDb(db, h, ReadImage(db, files, h).log)
<1>1. /\ roller # NoRoll /\ {h, h - 1} \subseteq DOMAIN db.index
      /\ UNCHANGED <<db, files, roller, faults, cut, before>>
  BY DEF BeginRollback, CanRollback
<1>2. h = n /\ n \in Nat /\ DOMAIN db.index = 1 .. n /\ n > 1
  <2>1. h = n
    BY <1>1 DEF StoreInv, RollbackInv
  <2> QED BY <2>1, <1>1, IndexTypes
<1>3. txn' = [op |-> "rollback", written |-> FALSE, height |-> h, db |-> d]
  BY DEF BeginRollback
<1>4. d.index = Without(db.index, {n}) /\ d.info = RolledBackInfo(db, n)
  BY <1>2 DEF RolledBackDb
<1> HIDE DEF d, h
<1>5. /\ DOMAIN d.index = 1 .. n - 1
      /\ \A g \in 1 .. n - 1 : d.index[g] = db.index[g]
  BY <1>2, <1>4 DEF Without
<1>6. d.info.height = n - 1 /\ d.info.fileNo = db.index[n - 1].fileNo
  BY <1>2, <1>4 DEF RolledBackInfo, StoreInv, IndexInv
<1>7. txn'.op = "rollback" /\ ~txn'.written /\ txn'.height = n /\ txn'.db = d
  BY <1>2, <1>3
<1>8. SaveInv' /\ RollbackInv'
  BY <1>1, <1>2, <1>5, <1>6, <1>7 DEF SaveInv, RollbackInv, StoreInv
<1> QED BY <1>1, <1>8 DEF StoreInv, IndexInv, PlacedInv, BlocksIntact, Behind,
                          Readable, FileAt

\* The truncation stops at the start of the last block, and no other block
\* that is whole reaches beyond it.
LEMMA StoreTruncateFile == TypeInv /\ StoreInv /\ TruncateFile => StoreInv'
<1> SUFFICES ASSUME TypeInv, StoreInv, TruncateFile PROVE StoreInv'
  OBVIOUS
<1> DEFINE n == db.info.height
           i == db.index[n]
           o == FileAt(files, i.fileNo)
           c == Truncated(o, i.length)
<1>1. /\ txn.op = "rollback" /\ ~txn.written /\ txn.height = n /\ n > 1 /\ roller # NoRoll
  BY DEF TruncateFile, StoreInv, RollbackInv
<1>2. n \in Nat /\ DOMAIN db.index = 1 .. n /\ n \in 1 .. n
  BY <1>1, IndexTypes
<1>3. i.filePos \in Nat /\ i.length \in Nat /\ i.fileNo \in Nat
  BY <1>2, IndexTypes
<1>4. i.filePos + i.length <= o.size /\ FileOK(o)
  BY <1>1, <1>2, ReadableEnds, FileAtOK DEF TypeInv, TxnShape
<1>5. /\ files' = PutFile(files, i.fileNo, c)
      /\ txn' = [txn EXCEPT !.written = TRUE]
      /\ cut' = cut \cup {n}
      /\ UNCHANGED <<db, roller, faults, before>>
  BY <1>1 DEF TruncateFile
<1>6. c.size \in Nat /\ i.filePos - HeaderLength <= c.size
  <2>1. o.size \in Nat
    BY <1>4 DEF FileOK
  <2>2. HeaderLength <= i.filePos
    BY <1>2 DEF StoreInv, PlacedInv
  <2>3. c.size = o.size - (i.length + HeaderLength)
    BY DEF Truncated
  <2> HIDE DEF c, i, o
  <2> QED BY <2>1, <2>2, <2>3, <1>3, <1>4
<1>7. ASSUME NEW h \in 1 .. n, db.index[h].fileNo = i.fileNo
      PROVE  db.index[h].filePos - HeaderLength <= c.size
  <2>1. h # n => db.index[h].filePos <= i.filePos
    BY <1>2, <1>7 DEF StoreInv, PlacedInv, Behind
  <2>2. db.index[h].filePos \in Nat
    BY IndexTypes
  <2> HIDE DEF c
  <2> QED BY <2>1, <2>2, <1>3, <1>6
<1>8. ASSUME NEW h \in (1 .. n) \ cut', db.index[h].fileNo = i.fileNo
      PROVE  \E x \in c.images : IsImageOf(x, db.index[h])
  <2>1. h \in 1 .. n - 1 /\ h \notin cut
    BY <1>2, <1>5, <1>8
  <2>2. db.index[h].filePos + db.index[h].length <= i.filePos - HeaderLength
    BY <2>1, <1>2, <1>8 DEF StoreInv, PlacedInv, Behind
  <2>3. PICK x \in o.images : IsImageOf(x, db.index[h])
    BY <2>1, <1>2, <1>8 DEF StoreInv, BlocksIntact, Readable
  <2>4. x.pos + x.length <= i.filePos - HeaderLength /\ x.pos + x.length \in Nat
    <3>1. x.pos = db.index[h].filePos /\ x.length = db.index[h].length
      BY <2>3 DEF IsImageOf
    <3>2. x.pos \in Nat /\ x.length \in Nat
      BY <3>1, IndexTypes
    <3> QED BY <3>1, <3>2, <2>2
  <2>5. x.pos + x.length <= c.size
    <3> HIDE DEF c
    <3> QED BY <2>4, <1>3, <1>6
  <2>6. x \in c.images
    BY <2>3, <2>5 DEF Truncated
  <2> QED BY <2>3, <2>6
<1> HIDE DEF c
<1>9. \A g : FileAt(files', g) = IF g = i.fileNo THEN c ELSE FileAt(files, g)
  BY <1>5 DEF FileAt, PutFile
<1>10. (cut \subseteq DOMAIN db.index)' /\ IndexInv'
  BY <1>2, <1>5 DEF StoreInv, IndexInv
<1>11. PlacedInv'
  <2> SUFFICES ASSUME NEW h \in 1 .. n
               PROVE  /\ HeaderLength <= db.index[h].filePos
                      /\ db.index[h].filePos - HeaderLength
                            <= FileAt(files', db.index[h].fileNo).size
                      /\ \A g \in 1 .. h - 1 :
                            Behind(g, db.index[h].fileNo, db.index[h].filePos)
    BY <1>2, <1>5 DEF PlacedInv, Behind
  <2>1. db.index[h].filePos - HeaderLength <= FileAt(files', db.index[h].fileNo).size
    BY <1>2, <1>7, <1>9 DEF StoreInv, PlacedInv
  <2> QED BY <2>1, <1>2 DEF StoreInv, PlacedInv
<1>12. BlocksIntact'
  <2> SUFFICES ASSUME NEW h \in (1 .. n) \ cut' PROVE Readable(db, files', h)
    BY <1>2, <1>5 DEF BlocksIntact, Readable
  <2> QED BY <1>2, <1>5, <1>8, <1>9 DEF StoreInv, BlocksIntact, Readable
<1>13. txn'.op = "rollback" /\ txn'.height = txn.height /\ txn'.db = txn.db
  BY <1>1, <1>5 DEF TypeInv, TxnShape
<1>14. SaveInv' /\ RollbackInv'
  BY <1>1, <1>5, <1>13 DEF SaveInv, RollbackInv, StoreInv
<1> QED BY <1>10, <1>11, <1>12, <1>14 DEF StoreInv

LEMMA StoreCommitRollback == TypeInv /\ StoreInv /\ CommitRollback => StoreInv'
<1> SUFFICES ASSUME TypeInv, StoreInv, CommitRollback PROVE StoreInv'
  OBVIOUS
<1> DEFINE n == db.info.height
<1>1. /\ txn.op = "rollback" /\ txn.written
      /\ db' = txn.db /\ cut' = cut \ {txn.height} /\ txn' = NoTxn
      /\ roller' = [roller EXCEPT !.loop = @ - 1]
      /\ UNCHANGED <<files, faults>>
  BY DEF CommitRollback
<1>2. n \in Nat /\ DOMAIN db.index = 1 .. n
  BY IndexTypes
<1>3. /\ roller.loop = n /\ txn.height = n /\ n > 1
      /\ db'.info.height = n - 1 /\ DOMAIN db'.index = 1 .. n - 1
      /\ \A h \in 1 .. n - 1 : db'.index[h] = db.index[h]
      /\ db'.info.fileNo = db.index[n - 1].fileNo
  BY <1>1 DEF StoreInv, RollbackInv
<1>4. roller'.loop = n - 1
  BY <1>1, <1>3 DEF TypeInv, TypeOK
<1>5. \A h \in 1 .. n - 1 : h \in 1 .. n /\ (h \in cut <=> h \in cut')
  BY <1>1, <1>2, <1>3
<1>6. (cut \subseteq DOMAIN db.index)'
  BY <1>1, <1>2, <1>3 DEF StoreInv
<1>7. IndexInv'
  <2>1. n - 1 \in 1 .. n - 1
    BY <1>2, <1>3
  <2> QED BY <2>1, <1>3, <1>5 DEF StoreInv, IndexInv
<1>8. PlacedInv'
  <2> SUFFICES ASSUME NEW h \in 1 .. n - 1
               PROVE  /\ HeaderLength <= db.index[h].filePos
                      /\ db.index[h].filePos - HeaderLength
                            <= FileAt(files, db.index[h].fileNo).size
                      /\ \A g \in 1 .. h - 1 :
                            Behind(g, db.index[h].fileNo, db.index[h].filePos)
    <3>1. \A h2 \in 1 .. n - 1 : \A g \in 1 .. h2 - 1 : g \in 1 .. n - 1
      BY <1>2
    <3> QED BY <3>1, <1>1, <1>3, <1>5 DEF PlacedInv, Behind
  <2> QED BY <1>2, <1>5 DEF StoreInv, PlacedInv
<1>9. BlocksIntact'
  BY <1>1, <1>2, <1>3, <1>5 DEF StoreInv, BlocksIntact, Readable
<1>10. SaveInv' /\ RollbackInv'
  BY <1>1, <1>3, <1>4 DEF SaveInv, RollbackInv, NoTxn
<1> QED BY <1>6, <1>7, <1>8, <1>9, <1>10 DEF StoreInv

LEMMA StoreInvNext == TypeInv /\ StoreInv /\ [Next]_vars /\ Quiet => StoreInv'
<1> SUFFICES ASSUME TypeInv, StoreInv, [Next]_vars, Quiet PROVE StoreInv'
  OBVIOUS
<1>1. CASE UNCHANGED vars
  BY <1>1 DEF vars, StoreInv, IndexInv, PlacedInv, SaveInv, RollbackInv, BlocksIntact,
              Behind, Readable, FileAt
<1> QED
  BY <1>1, StoreBeginSave, StoreWriteBlock, StoreTornWrite, StoreCommitSave,
     StoreBeginRollback, StoreTruncateFile, StoreCommitRollback, StoreQuietSteps DEF Next

LEMMA TypeInvCorrect == Spec => []TypeInv
BY TypeInvInit, TypeInvNext, PTL DEF Spec

\* The invariant behind the next two theorems: index, files, batch and rollback loop
\* fit together in every state, as long as the storager saves no block while
\* rollbackToHeight loops.
THEOREM StoreInvCorrect ==
    ASSUME ~SaveDuringRollback
    PROVE  Spec => []StoreInv
<1>1. Quiet
  BY DEF Quiet
<1>2. TypeInv /\ StoreInv /\ [Next]_vars => StoreInv'
  BY <1>1, StoreInvNext
<1> QED BY <1>2, TypeInvCorrect, StoreInvInit, PTL DEF Spec

\* No torn write, failed commit, crash or rollback ever damages an indexed
\* block other than the one whose own rollback was interrupted, whatever the
\* lengths of blocks and files and the number of faults.
THEOREM IntegrityCorrect ==
    ASSUME ~SaveDuringRollback
    PROVE  Spec => []BlocksIntact
<1>1. StoreInv => BlocksIntact
  BY DEF StoreInv
<1> QED BY <1>1, StoreInvCorrect, PTL

\* Under the same assumption rollback(h) is only ever asked for the last block.
THEOREM RollsBackLastCorrect ==
    ASSUME ~SaveDuringRollback
    PROVE  Spec => []RollsBackLastBlock
<1>1. StoreInv => RollsBackLastBlock
  BY DEF StoreInv, RollbackInv, RollsBackLastBlock
<1> QED BY <1>1, StoreInvCorrect, PTL

-----------------------------------------------------------------------------
(* The store implements the ledger.                                         *)

\* A step begins or ends a transaction, or leaves database and batch alone.
LEMMA Steps ==
    ASSUME TypeInv, [Next]_vars
    PROVE  \/ BeginSave \/ BeginRollback \/ CommitSave \/ CommitRollback
           \/ /\ UNCHANGED <<db, before>>
              /\ \/ txn'.op = "none"
                 \/ /\ txn'.op = txn.op /\ (txn.op # "none" => txn'.db = txn.db)
                    /\ txn.op = "save" => /\ txn'.block = txn.block /\ txn'.file = txn.file
                                          /\ txn'.pos = txn.pos
                    /\ txn.op = "rollback" => txn'.height = txn.height
<1>1. CASE WriteBlock \/ TruncateFile
  BY <1>1 DEF WriteBlock, TruncateFile, TypeInv, TxnShape
<1>2. CASE TornWrite \/ CommitFails \/ Crash
  BY <1>2 DEF TornWrite, CommitFails, Crash, NoTxn
<1>3. CASE CallRollback \/ RefuseRollback \/ EndRollback \/ UNCHANGED vars
  BY <1>3 DEF CallRollback, RefuseRollback, EndRollback, vars
<1> QED BY <1>1, <1>2, <1>3 DEF Next

\* What the running transaction will put into the database.
SaveBatch ==
    LET b == txn.block
        h == db.info.height + 1
    IN  txn.op = "save" =>
          /\ b.hash \in Hashes \ DOMAIN db.heightOfHash
          /\ b.txs \subseteq TxIds \ DOMAIN db.heightOfTx
          /\ b.log \in LogsAt(db.state)
          /\ txn.db.info = SavedInfo(db, b, txn.file, txn.pos)
          /\ txn.db.index = PutAll(db.index, {h}, IndexEntry(db, b, txn.file, txn.pos))
          /\ txn.db.heightOfHash = PutAll(db.heightOfHash, {b.hash}, h)
          /\ txn.db.heightOfTx = PutAll(db.heightOfTx, b.txs, h)
          /\ txn.db.state = SavedState(db.state, b.log)

RollbackBatch ==
    LET h == txn.height
    IN  txn.op = "rollback" =>
          /\ h > 1 /\ h = db.info.height
          /\ txn.db.info = RolledBackInfo(db, h)
          /\ txn.db.index = Without(db.index, {h})
          /\ txn.db.heightOfHash = Without(db.heightOfHash, {db.index[h].hash})
          /\ txn.db.heightOfTx = Without(db.heightOfTx, db.index[h].txs)

BatchInv == SaveBatch /\ RollbackBatch

LEMMA BatchInvInit == Init => BatchInv
BY DEF Init, BatchInv, SaveBatch, RollbackBatch, NoTxn

LEMMA BatchInvNext ==
    TypeInv /\ StoreInv /\ StoreInv' /\ BatchInv /\ [Next]_vars => BatchInv'
<1> SUFFICES ASSUME TypeInv, StoreInv, StoreInv', BatchInv, [Next]_vars PROVE BatchInv'
  OBVIOUS
<1>1. CASE BeginSave
  <2>1. PICK hash \in Hashes \ DOMAIN db.heightOfHash,
             txs \in SUBSET (TxIds \ DOMAIN db.heightOfTx),
             len \in Lengths, log \in LogsAt(db.state) :
          LET b == [hash |-> hash, txs |-> txs, length |-> len, log |-> log]
              f == FileNoFor(files, db.info.fileNo, len + HeaderLength)
              p == PosFor(files, f)
          IN  txn' = [op |-> "save", written |-> FALSE, block |-> b, file |-> f,
                      pos |-> p, db |-> SavedDb(db, files, b, f, p)]
    BY <1>1 DEF BeginSave
  <2> DEFINE b == [hash |-> hash, txs |-> txs, length |-> len, log |-> log]
             f == FileNoFor(files, db.info.fileNo, len + HeaderLength)
             p == PosFor(files, f)
  <2>2. /\ txn'.op = "save" /\ txn'.block = b /\ txn'.file = f /\ txn'.pos = p
        /\ txn'.db = SavedDb(db, files, b, f, p)
    BY <2>1
  <2>3. b.hash = hash /\ b.txs = txs /\ b.log = log
    OBVIOUS
  <2>4. UNCHANGED db
    BY <1>1 DEF BeginSave
  <2> HIDE DEF b, f, p
  <2>5. SaveBatch'
    BY <2>2, <2>3, <2>4 DEF SaveBatch, SavedDb
  <2> QED BY <2>2, <2>5 DEF BatchInv, RollbackBatch
<1>2. CASE BeginRollback
  <2> DEFINE h == roller.loop
             log == ReadImage(db, files, h).log
  <2>1. /\ txn'.op = "rollback" /\ txn'.height = h /\ txn'.db = RolledBackDb(db, h, log)
        /\ UNCHANGED db
    BY <1>2 DEF BeginRollback
  <2> HIDE DEF h, log
  <2>2. h > 1 /\ h = db.info.height
    BY <2>1 DEF StoreInv, RollbackInv
  <2>3. RollbackBatch'
    BY <2>1, <2>2 DEF RollbackBatch, RolledBackDb
  <2> QED BY <2>1, <2>3 DEF BatchInv, SaveBatch
<1>3. CASE CommitSave \/ CommitRollback
  BY <1>3 DEF CommitSave, CommitRollback, NoTxn, BatchInv, SaveBatch, RollbackBatch
<1>4. CASE UNCHANGED db /\ txn'.op = "none"
  BY <1>4 DEF BatchInv, SaveBatch, RollbackBatch
<1>5. CASE /\ UNCHANGED db
           /\ txn'.op = txn.op /\ (txn.op # "none" => txn'.db = txn.db)
           /\ txn.op = "save" => /\ txn'.block = txn.block /\ txn'.file = txn.file
                                 /\ txn'.pos = txn.pos
           /\ txn.op = "rollback" => txn'.height = txn.height
  BY <1>5 DEF BatchInv, SaveBatch, RollbackBatch
<1> QED BY <1>1, <1>2, <1>3, <1>4, <1>5, Steps

-----------------------------------------------------------------------------
(* The chain info and the index.                                            *)

LEMMA TipInit == Init => ChainInfoIsTip
BY DEF Init, ChainInfoIsTip, GenesisInfo, EmptyMap

\* What a committed save adds to the index.
LEMMA SavedIndex ==
    ASSUME TypeInv, StoreInv, BatchInv, CommitSave
    PROVE  LET n == db.info.height
           IN  /\ n \in Nat /\ db'.info.height = n + 1
               /\ DOMAIN db.index = 1 .. n /\ DOMAIN db'.index = 1 .. n + 1
               /\ \A h \in 1 .. n : db'.index[h] = db.index[h]
               /\ db'.index[n + 1] = IndexEntry(db, txn.block, txn.file, txn.pos)
               /\ db'.info = SavedInfo(db, txn.block, txn.file, txn.pos)
<1>1. db.info.height \in Nat /\ DOMAIN db.index = 1 .. db.info.height
  BY IndexTypes
<1>2. db' = txn.db /\ txn.op = "save"
  BY DEF CommitSave
<1> DEFINE n == db.info.height
           e == IndexEntry(db, txn.block, txn.file, txn.pos)
<1>3. /\ db'.info = SavedInfo(db, txn.block, txn.file, txn.pos)
      /\ db'.index = PutAll(db.index, {n + 1}, e)
  BY <1>2 DEF BatchInv, SaveBatch
<1> HIDE DEF e
<1>4. /\ DOMAIN db'.index = 1 .. n + 1 /\ \A h \in 1 .. n : db'.index[h] = db.index[h]
      /\ db'.index[n + 1] = e
  BY <1>1, <1>3 DEF PutAll
<1>5. db'.info.height = n + 1
  BY <1>3 DEF SavedInfo
<1> QED BY <1>1, <1>3, <1>4, <1>5 DEF e

\* What a committed rollback takes off the index.
LEMMA DroppedIndex ==
    ASSUME TypeInv, StoreInv, BatchInv, CommitRollback
    PROVE  LET n == db.info.height
           IN  /\ n \in Nat /\ n > 1 /\ txn.height = n /\ db'.info.height = n - 1
               /\ DOMAIN db.index = 1 .. n /\ DOMAIN db'.index = 1 .. n - 1
               /\ \A h \in 1 .. n - 1 : db'.index[h] = db.index[h]
               /\ db'.info = RolledBackInfo(db, n)
<1>1. db.info.height \in Nat /\ DOMAIN db.index = 1 .. db.info.height
  BY IndexTypes
<1>2. db' = txn.db /\ txn.op = "rollback"
  BY DEF CommitRollback
<1>3. db'.info.height = db.info.height - 1
  BY <1>2 DEF StoreInv, RollbackInv
<1> DEFINE n == db.info.height
<1>4. /\ txn.height = n /\ n > 1 /\ db'.info = RolledBackInfo(db, n)
      /\ db'.index = Without(db.index, {n})
  BY <1>2 DEF BatchInv, RollbackBatch
<1>5. /\ DOMAIN db'.index = 1 .. n - 1 /\ \A h \in 1 .. n - 1 : db'.index[h] = db.index[h]
  BY <1>1, <1>4 DEF Without
<1> QED BY <1>1, <1>3, <1>4, <1>5

LEMMA TipIntro ==
    ASSUME NEW k \in Nat \ {0}, k = db'.info.height, DOMAIN db'.index = 1 .. k,
           \A f \in {"height", "hash", "prev", "fileNo", "filePos", "length"} :
               db'.info[f] = db'.index[k][f],
           \A h \in 1 .. k :
               db'.index[h].prev = IF h = 1 THEN NoHash ELSE db'.index[h - 1].hash
    PROVE  ChainInfoIsTip'
BY DEF ChainInfoIsTip

LEMMA TipNext ==
    TypeInv /\ StoreInv /\ BatchInv /\ ChainInfoIsTip /\ [Next]_vars => ChainInfoIsTip'
<1> SUFFICES ASSUME TypeInv, StoreInv, BatchInv, ChainInfoIsTip, [Next]_vars
             PROVE  ChainInfoIsTip'
  OBVIOUS
<1> DEFINE n == db.info.height
<1>1. CASE CommitSave
  <2>1. /\ n \in Nat /\ db'.info.height = n + 1
        /\ DOMAIN db.index = 1 .. n /\ DOMAIN db'.index = 1 .. n + 1
        /\ \A h \in 1 .. n : db'.index[h] = db.index[h]
        /\ db'.index[n + 1] = IndexEntry(db, txn.block, txn.file, txn.pos)
        /\ db'.info = SavedInfo(db, txn.block, txn.file, txn.pos)
    BY <1>1, SavedIndex
  <2>2. \A f \in {"height", "hash", "prev", "fileNo", "filePos", "length"} :
            db'.info[f] = db'.index[n + 1][f]
    BY <2>1 DEF SavedInfo, IndexEntry
  <2>3. db'.index[n + 1].prev = IF n = 0 THEN NoHash ELSE db'.index[n].hash
    <3>1. db'.index[n + 1].prev = db.info.hash
      BY <2>1 DEF IndexEntry
    <3>2. db.info.hash = IF n = 0 THEN NoHash ELSE db.index[n].hash
      BY DEF ChainInfoIsTip, GenesisInfo
    <3> QED BY <3>1, <3>2, <2>1
  <2>4. ASSUME NEW h \in 1 .. n
        PROVE  db'.index[h].prev = IF h = 1 THEN NoHash ELSE db'.index[h - 1].hash
    <3>1. db.index[h].prev = IF h = 1 THEN NoHash ELSE db.index[h - 1].hash
      BY DEF ChainInfoIsTip
    <3>2. h # 1 => h - 1 \in 1 .. n
      BY <2>1
    <3> QED BY <3>1, <3>2, <2>1
  <2>5. ASSUME NEW h \in 1 .. n + 1
        PROVE  db'.index[h].prev = IF h = 1 THEN NoHash ELSE db'.index[h - 1].hash
    <3>1. CASE h \in 1 .. n
      BY <3>1, <2>4
    <3>2. CASE h = n + 1
      BY <3>2, <2>1, <2>3
    <3> QED BY <3>1, <3>2, <2>1
  <2> DEFINE k == n + 1
  <2>6. k \in Nat \ {0}
    BY <2>1
  <2> HIDE DEF k
  <2> QED BY <2>1, <2>2, <2>5, <2>6, TipIntro DEF k
<1>2. CASE CommitRollback
  <2>1. /\ n \in Nat /\ n > 1 /\ db'.info.height = n - 1
        /\ DOMAIN db.index = 1 .. n /\ DOMAIN db'.index = 1 .. n - 1
        /\ \A h \in 1 .. n - 1 : db'.index[h] = db.index[h]
        /\ db'.info = RolledBackInfo(db, n)
    BY <1>2, DroppedIndex
  <2>2. n - 1 \in 1 .. n - 1 /\ n - 1 # 0
    BY <2>1
  <2>3. \A f \in {"height", "hash", "prev", "fileNo", "filePos", "length"} :
            db'.info[f] = db'.index[n - 1][f]
    BY <2>1, <2>2 DEF RolledBackInfo
  <2>4. ASSUME NEW h \in 1 .. n - 1
        PROVE  db'.index[h].prev = IF h = 1 THEN NoHash ELSE db'.index[h - 1].hash
    <3>1. h \in 1 .. n /\ (h # 1 => h - 1 \in 1 .. n - 1)
      BY <2>1
    <3>2. db.index[h].prev = IF h = 1 THEN NoHash ELSE db.index[h - 1].hash
      BY <3>1 DEF ChainInfoIsTip
    <3> QED BY <3>1, <3>2, <2>1
  <2> DEFINE k == n - 1
  <2>5. k \in Nat \ {0}
    BY <2>1
  <2> HIDE DEF k
  <2> QED BY <2>1, <2>3, <2>4, <2>5, TipIntro DEF k
<1>3. CASE UNCHANGED db
  BY <1>3 DEF ChainInfoIsTip
<1> QED BY <1>1, <1>2, <1>3, Steps DEF BeginSave, BeginRollback

-----------------------------------------------------------------------------
(* The lookups by block hash and by transaction.                            *)

LEMMA LookupsInit == Init => LookupsExact
<1> SUFFICES ASSUME Init PROVE LookupsExact
  OBVIOUS
<1>1. DOMAIN db.index = {} /\ DOMAIN db.heightOfHash = {} /\ DOMAIN db.heightOfTx = {}
  BY DEF Init, EmptyMap
<1>2. db.info.txCount = 0
  BY DEF Init, GenesisInfo
<1> QED BY <1>1, <1>2, FS_EmptySet DEF LookupsExact

LEMMA LookupsCommitSave ==
    TypeInv /\ StoreInv /\ BatchInv /\ LookupsExact /\ CommitSave => LookupsExact'
<1> SUFFICES ASSUME TypeInv, StoreInv, BatchInv, LookupsExact, CommitSave
             PROVE  LookupsExact'
  OBVIOUS
<1> DEFINE n == db.info.height
           b == txn.block
<1>1. /\ n \in Nat
      /\ DOMAIN db.index = 1 .. n /\ DOMAIN db'.index = 1 .. n + 1
      /\ \A h \in 1 .. n : db'.index[h] = db.index[h]
      /\ db'.index[n + 1] = IndexEntry(db, b, txn.file, txn.pos)
      /\ db'.info = SavedInfo(db, b, txn.file, txn.pos)
  BY SavedIndex
<1>2. db' = txn.db /\ txn.op = "save"
  BY DEF CommitSave
<1>3. /\ b.hash \notin DOMAIN db.heightOfHash
      /\ b.txs \subseteq TxIds \ DOMAIN db.heightOfTx
      /\ db'.heightOfHash = PutAll(db.heightOfHash, {b.hash}, n + 1)
      /\ db'.heightOfTx = PutAll(db.heightOfTx, b.txs, n + 1)
  BY <1>2 DEF BatchInv, SaveBatch
<1>4. db'.index[n + 1].hash = b.hash /\ db'.index[n + 1].txs = b.txs
      /\ db'.info.txCount = db.info.txCount + Cardinality(b.txs)
  BY <1>1 DEF IndexEntry, SavedInfo
<1> HIDE DEF b, n
<1>5. /\ DOMAIN db'.heightOfHash = DOMAIN db.heightOfHash \cup {b.hash}
      /\ DOMAIN db'.heightOfTx = DOMAIN db.heightOfTx \cup b.txs
  BY <1>3 DEF PutAll
<1>6. \A h : h \in 1 .. n + 1 <=> h \in 1 .. n \/ h = n + 1
  BY <1>1
<1>7. DOMAIN db'.heightOfHash = {db'.index[h].hash : h \in DOMAIN db'.index}
  BY <1>1, <1>4, <1>5, <1>6 DEF LookupsExact
<1>8. DOMAIN db'.heightOfTx = UNION {db'.index[h].txs : h \in DOMAIN db'.index}
  BY <1>1, <1>4, <1>5, <1>6 DEF LookupsExact
<1>9. ASSUME NEW h \in 1 .. n + 1
      PROVE  /\ db'.heightOfHash[db'.index[h].hash] = h
             /\ \A t \in db'.index[h].txs : db'.heightOfTx[t] = h
  <2>1. CASE h \in 1 .. n
    <3>1. /\ db.index[h].hash \in DOMAIN db.heightOfHash
          /\ db.heightOfHash[db.index[h].hash] = h
          /\ db.index[h].txs \subseteq DOMAIN db.heightOfTx
          /\ \A t \in db.index[h].txs : db.heightOfTx[t] = h
      BY <2>1, <1>1 DEF LookupsExact
    <3> QED BY <2>1, <3>1, <1>1, <1>3 DEF PutAll
  <2>2. CASE h = n + 1
    BY <2>2, <1>3, <1>4 DEF PutAll
  <2> QED BY <2>1, <2>2, <1>6
<1>10. db'.info.txCount = Cardinality(DOMAIN db'.heightOfTx)
  <2>1. DOMAIN db.heightOfTx \subseteq TxIds /\ IsFiniteSet(TxIds)
    BY StoreAssumption DEF TypeInv, TypeOK, DbTypeOK
  <2>2. IsFiniteSet(DOMAIN db.heightOfTx) /\ IsFiniteSet(b.txs)
    BY <2>1, <1>3, FS_Subset
  <2>3. DOMAIN db.heightOfTx \cap b.txs = {}
    BY <1>3
  <2>4. /\ Cardinality(DOMAIN db.heightOfTx \cup b.txs)
             = Cardinality(DOMAIN db.heightOfTx) + Cardinality(b.txs)
                 - Cardinality(DOMAIN db.heightOfTx \cap b.txs)
        /\ Cardinality(DOMAIN db.heightOfTx \cap b.txs) = 0
        /\ Cardinality(DOMAIN db.heightOfTx) \in Nat /\ Cardinality(b.txs) \in Nat
    BY <2>2, <2>3, FS_Union, FS_EmptySet, FS_CardinalityType
  <2>5. db.info.txCount = Cardinality(DOMAIN db.heightOfTx)
    BY DEF LookupsExact
  <2> QED BY <2>4, <2>5, <1>4, <1>5
<1> QED BY <1>1, <1>7, <1>8, <1>9, <1>10 DEF LookupsExact

LEMMA LookupsCommitRollback ==
    TypeInv /\ StoreInv /\ BatchInv /\ LookupsExact /\ CommitRollback => LookupsExact'
<1> SUFFICES ASSUME TypeInv, StoreInv, BatchInv, LookupsExact, CommitRollback
             PROVE  LookupsExact'
  OBVIOUS
<1> DEFINE n == db.info.height
           b == db.index[n]
<1>1. /\ n \in Nat /\ n > 1 /\ txn.height = n
      /\ DOMAIN db.index = 1 .. n /\ DOMAIN db'.index = 1 .. n - 1
      /\ \A h \in 1 .. n - 1 : db'.index[h] = db.index[h]
      /\ db'.info = RolledBackInfo(db, n)
  BY DroppedIndex
<1>2. db' = txn.db /\ txn.op = "rollback"
  BY DEF CommitRollback
<1>3. /\ db'.heightOfHash = Without(db.heightOfHash, {b.hash})
      /\ db'.heightOfTx = Without(db.heightOfTx, b.txs)
  BY <1>1, <1>2 DEF BatchInv, RollbackBatch
<1>4. db'.info.txCount = db.info.txCount - Cardinality(b.txs)
  BY <1>1 DEF RolledBackInfo
<1>5. /\ b.hash \in DOMAIN db.heightOfHash /\ db.heightOfHash[b.hash] = n
      /\ b.txs \subseteq DOMAIN db.heightOfTx /\ \A t \in b.txs : db.heightOfTx[t] = n
  BY <1>1 DEF LookupsExact
<1> HIDE DEF b, n
<1>6. /\ DOMAIN db'.heightOfHash = DOMAIN db.heightOfHash \ {b.hash}
      /\ DOMAIN db'.heightOfTx = DOMAIN db.heightOfTx \ b.txs
  BY <1>3 DEF Without
<1>7. \A h : h \in 1 .. n <=> h \in 1 .. n - 1 \/ h = n
  BY <1>1
<1>8. \A h \in 1 .. n - 1 :
        /\ h \in 1 .. n /\ h # n
        /\ db.index[h].hash \in DOMAIN db.heightOfHash
        /\ db.heightOfHash[db.index[h].hash] = h
        /\ db.index[h].txs \subseteq DOMAIN db.heightOfTx
        /\ \A t \in db.index[h].txs : db.heightOfTx[t] = h
  BY <1>1 DEF LookupsExact
<1>9. DOMAIN db'.heightOfHash = {db'.index[h].hash : h \in DOMAIN db'.index}
  <2>1. DOMAIN db.heightOfHash = {db.index[h].hash : h \in 1 .. n}
    BY <1>1 DEF LookupsExact
  <2>2. ASSUME NEW x \in DOMAIN db.heightOfHash, x # b.hash
        PROVE  \E h \in 1 .. n - 1 : x = db'.index[h].hash
    <3>1. PICK h \in 1 .. n : x = db.index[h].hash
      BY <2>1
    <3>2. h # n
      BY <2>2, <3>1 DEF b
    <3> QED BY <3>1, <3>2, <1>1, <1>7
  <2>3. ASSUME NEW h \in 1 .. n - 1
        PROVE  db'.index[h].hash \in DOMAIN db.heightOfHash \ {b.hash}
    BY <1>1, <1>5, <1>8
  <2> QED BY <2>2, <2>3, <1>1, <1>6
<1>10. DOMAIN db'.heightOfTx = UNION {db'.index[h].txs : h \in DOMAIN db'.index}
  <2>1. DOMAIN db.heightOfTx = UNION {db.index[h].txs : h \in 1 .. n}
    BY <1>1 DEF LookupsExact
  <2> QED BY <2>1, <1>1, <1>5, <1>6, <1>7, <1>8 DEF b
<1>11. ASSUME NEW h \in 1 .. n - 1
       PROVE  /\ db'.heightOfHash[db'.index[h].hash] = h
              /\ \A t \in db'.index[h].txs : db'.heightOfTx[t] = h
  BY <1>1, <1>3, <1>5, <1>8 DEF Without
<1>12. db'.info.txCount = Cardinality(DOMAIN db'.heightOfTx)
  <2>1. DOMAIN db.heightOfTx \subseteq TxIds /\ IsFiniteSet(TxIds)
    BY StoreAssumption DEF TypeInv, TypeOK, DbTypeOK
  <2>2. IsFiniteSet(DOMAIN db.heightOfTx)
    BY <2>1, FS_Subset
  <2>3. DOMAIN db.heightOfTx \cap b.txs = b.txs
    BY <1>5
  <2>4. Cardinality(DOMAIN db.heightOfTx \ b.txs)
          = Cardinality(DOMAIN db.heightOfTx) - Cardinality(b.txs)
    BY <2>2, <2>3, FS_Difference
  <2>5. db.info.txCount = Cardinality(DOMAIN db.heightOfTx)
    BY DEF LookupsExact
  <2> QED BY <2>4, <2>5, <1>4, <1>6
<1> QED BY <1>1, <1>9, <1>10, <1>11, <1>12 DEF LookupsExact

LEMMA LookupsNext ==
    TypeInv /\ StoreInv /\ BatchInv /\ LookupsExact /\ [Next]_vars => LookupsExact'
<1> SUFFICES ASSUME TypeInv, StoreInv, BatchInv, LookupsExact, [Next]_vars
             PROVE  LookupsExact'
  OBVIOUS
<1>1. CASE UNCHANGED db
  <2>1. /\ db'.index = db.index /\ db'.info = db.info
        /\ db'.heightOfHash = db.heightOfHash /\ db'.heightOfTx = db.heightOfTx
    BY <1>1
  <2>2. /\ DOMAIN db'.heightOfHash = {db'.index[h].hash : h \in DOMAIN db'.index}
        /\ DOMAIN db'.heightOfTx = UNION {db'.index[h].txs : h \in DOMAIN db'.index}
    BY <2>1 DEF LookupsExact
  <2>3. \A h \in DOMAIN db'.index : /\ db'.heightOfHash[db'.index[h].hash] = h
                                   /\ \A t \in db'.index[h].txs : db'.heightOfTx[t] = h
    BY <2>1 DEF LookupsExact
  <2>4. db'.info.txCount = Cardinality(DOMAIN db'.heightOfTx)
    BY <2>1 DEF LookupsExact
  <2> QED BY <2>2, <2>3, <2>4 DEF LookupsExact
<1> QED BY <1>1, LookupsCommitSave, LookupsCommitRollback, Steps DEF BeginSave, BeginRollback

-----------------------------------------------------------------------------
(* World states: every block can be undone by the log in its file.          *)

\* The logs that a block can carry undo themselves.
LEMMA LogUndone ==
    ASSUME NEW s \in States, NEW log \in LogsAt(s)
    PROVE  RolledBackState(SavedState(s, log), log) = s
<1>1. log \in Seq(Results)
  BY LogsType
<1>2. CASE log = <<>>
  <2>1. \A k \in Keys : Writers(log, k) = {}
    BY <1>2 DEF Writers
  <2> QED BY <1>1, <2>1, RollbackUndoesSave
<1>3. ASSUME NEW k \in Keys, NEW v \in Values, log = <<SetResult(s, k, v)>>
      PROVE  RolledBackState(SavedState(s, log), log) = s
  <2>1. DOMAIN log = {1} /\ log[1] = SetResult(s, k, v)
    BY <1>3
  <2>2. ASSUME NEW j \in Keys, NEW i \in Writers(log, j)
        PROVE  i = 1 /\ OldValue(log[i], j) = s[j]
    <3>1. i = 1 /\ Touches(SetResult(s, k, v), j)
      BY <2>1 DEF Writers
    <3>2. j = k
      BY <3>1 DEF Touches, SetResult, NoMap
    <3> QED BY <2>1, <3>1, <3>2 DEF OldValue, SetResult, NoMap
  <2> QED BY <1>1, <2>2, RollbackUndoesSave
<1>4. ASSUME NEW k \in Keys, log = <<DelResult(s, k)>>
      PROVE  RolledBackState(SavedState(s, log), log) = s
  <2>1. DOMAIN log = {1} /\ log[1] = DelResult(s, k)
    BY <1>4
  <2>2. ASSUME NEW j \in Keys, NEW i \in Writers(log, j)
        PROVE  i = 1 /\ OldValue(log[i], j) = s[j]
    <3>1. i = 1 /\ Touches(DelResult(s, k), j)
      BY <2>1 DEF Writers
    <3>2. j = k
      BY <3>1 DEF Touches, DelResult, NoMap
    <3> QED BY <2>1, <3>1, <3>2 DEF OldValue, DelResult
  <2> QED BY <1>1, <2>2, RollbackUndoesSave
<1> QED BY <1>2, <1>3, <1>4 DEF LogsAt

\* The world state that block h left.
StateAfter(h) == IF h = db.info.height THEN db.state ELSE before[h + 1]

\* Whatever bytes in the files pass for an indexed block hold the log of that block.
LogInv ==
    \A h \in DOMAIN db.index : \A x \in FileAt(files, db.index[h].fileNo).images :
        IsImageOf(x, db.index[h]) =>
            /\ x.log \in LogsAt(before[h])
            /\ StateAfter(h) = SavedState(before[h], x.log)

\* The same of the block being saved; the batch of a rollback has the state from before.
BatchLogs ==
    /\ txn.op = "save" /\ txn.written =>
          \A x \in FileAt(files, txn.file).images : x.pos = txn.pos => x.log = txn.block.log
    /\ txn.op = "rollback" => txn.db.state = before[txn.height]

StateInv == Len(before) = db.info.height /\ LogInv /\ BatchLogs

LEMMA StateInvInit == Init => StateInv
BY DEF Init, StateInv, LogInv, BatchLogs, GenesisInfo, EmptyMap, NoTxn

\* Only the write of a block puts an image into a file.
LEMMA ImagesStep ==
    ASSUME TypeInv, [Next]_vars
    PROVE  WriteBlock \/ \A f : FileAt(files', f).images \subseteq FileAt(files, f).images
<1>1. CASE TornWrite
  <2>1. PICK n \in 0 .. HeaderLength + txn.block.length - 1 :
          files' = PutFile(files, txn.file, [FileAt(files, txn.file) EXCEPT !.size = @ + n])
    BY <1>1 DEF TornWrite
  <2>2. [FileAt(files, txn.file) EXCEPT !.size = @ + n].images = FileAt(files, txn.file).images
    BY FileAtOK DEF TypeInv, FileOK, BlockFiles
  <2> QED BY <2>1, <2>2 DEF FileAt, PutFile
<1>2. CASE TruncateFile
  BY <1>2 DEF TruncateFile, FileAt, PutFile, Truncated
<1>3. CASE UNCHANGED files
  BY <1>3 DEF FileAt
<1> QED BY <1>1, <1>2, <1>3 DEF Next, vars, BeginSave, CommitSave, CallRollback, BeginRollback,
                              RefuseRollback, CommitRollback, EndRollback, CommitFails, Crash

\* The block written is behind all images of its file.
LEMMA WrittenImage ==
    ASSUME TypeInv, StoreInv, WriteBlock
    PROVE  LET img == [pos |-> txn.pos, length |-> txn.block.length,
                       hash |-> txn.block.hash, log |-> txn.block.log]
           IN  /\ FileAt(files', txn.file).images
                      \subseteq FileAt(files, txn.file).images \cup {img}
               /\ \A x \in FileAt(files, txn.file).images : x.pos < txn.pos
               /\ \A f : f # txn.file => FileAt(files', f) = FileAt(files, f)
<1>1. txn.op = "save" /\ ~txn.written /\ txn.pos \in Nat
  BY DEF WriteBlock, TypeInv, TypeOK
<1>2. FileOK(FileAt(files, txn.file)) /\ FileAt(files, txn.file).size = txn.pos - HeaderLength
  BY <1>1, FileAtOK DEF TypeInv, StoreInv, SaveInv
<1>3. \A x \in FileAt(files, txn.file).images : x.pos < txn.pos
  <2> SUFFICES ASSUME NEW x \in FileAt(files, txn.file).images PROVE x.pos < txn.pos
    OBVIOUS
  <2>1. x.pos \in Nat /\ x.length \in Nat /\ x.pos + x.length <= txn.pos - HeaderLength
    BY <1>2 DEF FileOK, BlockFiles, Images
  <2> QED BY <1>1, <2>1, StoreAssumption
<1> QED BY <1>3 DEF WriteBlock, FileAt, PutFile, WriteAt

LEMMA StateWriteBlock ==
    TypeInv /\ StoreInv /\ BatchInv /\ LookupsExact /\ StateInv /\ WriteBlock => StateInv'
<1> SUFFICES ASSUME TypeInv, StoreInv, BatchInv, LookupsExact, StateInv, WriteBlock
             PROVE  StateInv'
  OBVIOUS
<1> DEFINE img == [pos |-> txn.pos, length |-> txn.block.length,
                   hash |-> txn.block.hash, log |-> txn.block.log]
<1>1. /\ FileAt(files', txn.file).images \subseteq FileAt(files, txn.file).images \cup {img}
      /\ \A x \in FileAt(files, txn.file).images : x.pos < txn.pos
      /\ \A f : f # txn.file => FileAt(files', f) = FileAt(files, f)
  BY WrittenImage
<1>2. /\ txn.op = "save" /\ txn.pos \in Nat /\ UNCHANGED <<db, before>>
      /\ txn'.op = "save" /\ txn'.file = txn.file /\ txn'.pos = txn.pos
      /\ txn'.block = txn.block
  BY DEF WriteBlock, TypeInv, TypeOK, TxnShape
<1>3. img.hash = txn.block.hash /\ img.pos = txn.pos /\ img.log = txn.block.log
  OBVIOUS
<1> HIDE DEF img
<1>4. \A h \in DOMAIN db.index : ~IsImageOf(img, db.index[h])
  BY <1>2, <1>3 DEF BatchInv, SaveBatch, LookupsExact, IsImageOf
<1>5. LogInv'
  <2> SUFFICES ASSUME NEW h \in DOMAIN db.index,
                      NEW x \in FileAt(files', db.index[h].fileNo).images,
                      IsImageOf(x, db.index[h])
               PROVE  /\ x.log \in LogsAt(before[h])
                      /\ StateAfter(h) = SavedState(before[h], x.log)
    BY <1>2 DEF LogInv, StateAfter
  <2>1. x \in FileAt(files, db.index[h].fileNo).images
    BY <1>1, <1>4
  <2> QED BY <2>1 DEF StateInv, LogInv
<1>6. BatchLogs'
  <2> SUFFICES ASSUME NEW x \in FileAt(files', txn.file).images, x.pos = txn.pos
               PROVE  x.log = txn.block.log
    BY <1>2 DEF BatchLogs
  <2>1. x = img
    BY <1>1, <1>2
  <2> QED BY <2>1, <1>3
<1> QED BY <1>2, <1>5, <1>6 DEF StateInv

LEMMA StateCommitSave ==
    TypeInv /\ StoreInv /\ BatchInv /\ StateInv /\ CommitSave => StateInv'
<1> SUFFICES ASSUME TypeInv, StoreInv, BatchInv, StateInv, CommitSave PROVE StateInv'
  OBVIOUS
<1> DEFINE n == db.info.height
           e == IndexEntry(db, txn.block, txn.file, txn.pos)
<1>1. /\ n \in Nat /\ db'.info.height = n + 1
      /\ DOMAIN db.index = 1 .. n /\ DOMAIN db'.index = 1 .. n + 1
      /\ \A h \in 1 .. n : db'.index[h] = db.index[h]
      /\ db'.index[n + 1] = e
  BY SavedIndex
<1>2. /\ txn.op = "save" /\ txn.written /\ db' = txn.db /\ txn'.op = "none"
      /\ before' = Append(before, db.state) /\ UNCHANGED files
  BY DEF CommitSave, NoTxn
<1>3. e.fileNo = txn.file /\ e.filePos = txn.pos
  BY DEF IndexEntry
<1>4. db'.state = SavedState(db.state, txn.block.log) /\ txn.block.log \in LogsAt(db.state)
  BY <1>2 DEF BatchInv, SaveBatch
<1> HIDE DEF e
<1>5. before \in Seq(States) /\ Len(before) = n /\ db.state \in States
  BY DEF TypeInv, TypeOK, DbTypeOK, StateInv
<1>6. /\ Len(before') = n + 1 /\ before'[n + 1] = db.state
      /\ \A h \in 1 .. n : before'[h] = before[h]
  BY <1>1, <1>2, <1>5
<1>7. LogInv'
  <2> SUFFICES ASSUME NEW h \in 1 .. n + 1,
                      NEW x \in FileAt(files, db'.index[h].fileNo).images,
                      IsImageOf(x, db'.index[h])
               PROVE  /\ x.log \in LogsAt(before'[h])
                      /\ StateAfter(h)' = SavedState(before'[h], x.log)
    <3>1. DOMAIN db'.index = 1 .. n + 1 /\ files' = files
      BY <1>1, <1>2
    <3> HIDE DEF n
    <3> QED BY <3>1 DEF LogInv
  <2>1. CASE h = n + 1
    <3>1. x.log = txn.block.log
      BY <2>1, <1>1, <1>2, <1>3 DEF StateInv, BatchLogs, IsImageOf
    <3>2. StateAfter(h)' = db'.state
      BY <2>1, <1>1 DEF StateAfter
    <3> QED BY <2>1, <3>1, <3>2, <1>4, <1>6
  <2>2. CASE h \in 1 .. n
    <3>1. /\ x.log \in LogsAt(before[h])
          /\ StateAfter(h) = SavedState(before[h], x.log)
      BY <2>2, <1>1 DEF StateInv, LogInv
    <3>2. StateAfter(h)' = before'[h + 1]
      BY <2>2, <1>1 DEF StateAfter
    <3>3. StateAfter(h) = before'[h + 1]
      BY <2>2, <1>1, <1>6 DEF StateAfter
    <3> QED BY <2>2, <3>1, <3>2, <3>3, <1>6
  <2> QED BY <2>1, <2>2, <1>1
<1> QED BY <1>1, <1>2, <1>6, <1>7 DEF StateInv, BatchLogs

LEMMA StateCommitRollback ==
    TypeInv /\ StoreInv /\ BatchInv /\ StateInv /\ CommitRollback => StateInv'
<1> SUFFICES ASSUME TypeInv, StoreInv, BatchInv, StateInv, CommitRollback PROVE StateInv'
  OBVIOUS
<1> DEFINE n == db.info.height
<1>1. /\ n \in Nat /\ n > 1 /\ txn.height = n /\ db'.info.height = n - 1
      /\ DOMAIN db.index = 1 .. n /\ DOMAIN db'.index = 1 .. n - 1
      /\ \A h \in 1 .. n - 1 : db'.index[h] = db.index[h]
  BY DroppedIndex
<1>2. /\ txn.op = "rollback" /\ db' = txn.db /\ txn'.op = "none"
      /\ before' = SubSeq(before, 1, Len(before) - 1) /\ UNCHANGED files
  BY DEF CommitRollback, NoTxn
<1>3. db'.state = before[n]
  BY <1>1, <1>2 DEF StateInv, BatchLogs
<1>4. before \in Seq(States) /\ Len(before) = n
  BY DEF TypeInv, TypeOK, StateInv
<1>5. Len(before') = n - 1 /\ \A h \in 1 .. n - 1 : before'[h] = before[h]
  BY <1>1, <1>2, <1>4
<1>6. LogInv'
  <2> SUFFICES ASSUME NEW h \in 1 .. n - 1,
                      NEW x \in FileAt(files, db.index[h].fileNo).images,
                      IsImageOf(x, db.index[h])
               PROVE  /\ x.log \in LogsAt(before[h])
                      /\ StateAfter(h)' = SavedState(before[h], x.log)
    BY <1>1, <1>2, <1>5 DEF LogInv
  <2>1. h \in 1 .. n /\ h # n
    BY <1>1
  <2>2. /\ x.log \in LogsAt(before[h])
        /\ StateAfter(h) = SavedState(before[h], x.log)
    BY <2>1, <1>1 DEF StateInv, LogInv
  <2>3. StateAfter(h) = before[h + 1]
    BY <2>1 DEF StateAfter
  <2>4. CASE h = n - 1
    BY <2>2, <2>3, <2>4, <1>1, <1>3 DEF StateAfter
  <2>5. CASE h # n - 1
    <3>1. h + 1 \in 1 .. n - 1
      BY <2>5, <1>1
    <3>2. StateAfter(h)' = before'[h + 1]
      BY <2>5, <1>1 DEF StateAfter
    <3> QED BY <2>2, <2>3, <3>1, <3>2, <1>5
  <2> QED BY <2>4, <2>5
<1> QED BY <1>1, <1>2, <1>5, <1>6 DEF StateInv, BatchLogs

LEMMA StateBeginRollback ==
    TypeInv /\ StoreInv /\ StateInv /\ BeginRollback => StateInv'
<1> SUFFICES ASSUME TypeInv, StoreInv, StateInv, BeginRollback PROVE StateInv'
  OBVIOUS
<1> DEFINE h == roller.loop
           x == ReadImage(db, files, h)
<1>1. /\ txn'.op = "rollback" /\ txn'.height = h /\ txn'.db = RolledBackDb(db, h, x.log)
      /\ UNCHANGED <<db, files, before>>
      /\ h \in DOMAIN db.index /\ Readable(db, files, h)
  BY DEF BeginRollback, CanRollback
<1>2. h = db.info.height
  BY DEF BeginRollback, StoreInv, RollbackInv
<1>3. x \in FileAt(files, db.index[h].fileNo).images /\ IsImageOf(x, db.index[h])
  BY <1>1, ReadImageType
<1> HIDE DEF h, x
<1>4. /\ x.log \in LogsAt(before[h]) /\ db.state = SavedState(before[h], x.log)
  BY <1>1, <1>2, <1>3 DEF StateInv, LogInv, StateAfter
<1>5. before[h] \in States
  <2>1. before \in Seq(States) /\ Len(before) = db.info.height
    BY DEF TypeInv, TypeOK, StateInv
  <2> QED BY <2>1, <1>1, <1>2, IndexTypes
<1>6. txn'.db.state = before[h]
  BY <1>1, <1>4, <1>5, LogUndone DEF RolledBackDb
<1> QED BY <1>1, <1>6 DEF StateInv, LogInv, BatchLogs, StateAfter

LEMMA StateInvNext ==
    TypeInv /\ StoreInv /\ BatchInv /\ LookupsExact /\ StateInv /\ [Next]_vars => StateInv'
<1> SUFFICES ASSUME TypeInv, StoreInv, BatchInv, LookupsExact, StateInv, [Next]_vars
             PROVE  StateInv'
  OBVIOUS
<1>1. CASE BeginSave
  <2>1. txn'.op = "save" /\ ~txn'.written /\ UNCHANGED <<db, files, before>>
    BY <1>1 DEF BeginSave
  <2> QED BY <2>1 DEF StateInv, LogInv, BatchLogs, StateAfter
<1>2. ASSUME ~WriteBlock, UNCHANGED <<db, before>>
      PROVE  LogInv'
  <2>1. \A f : FileAt(files', f).images \subseteq FileAt(files, f).images
    BY <1>2, ImagesStep
  <2> QED BY <2>1, <1>2 DEF StateInv, LogInv, StateAfter
<1>3. CASE TruncateFile
  <2>1. UNCHANGED <<db, before>> /\ ~WriteBlock
    BY <1>3 DEF TruncateFile, WriteBlock
  <2>2. txn'.op = "rollback" /\ txn'.db = txn.db /\ txn'.height = txn.height
    BY <1>3 DEF TruncateFile, TypeInv, TxnShape
  <2>3. BatchLogs'
    BY <1>3, <2>1, <2>2 DEF TruncateFile, StateInv, BatchLogs
  <2> QED BY <1>2, <2>1, <2>3 DEF StateInv
<1>4. CASE TornWrite \/ CommitFails \/ Crash
  <2>1. UNCHANGED <<db, before>> /\ txn'.op = "none"
    BY <1>4 DEF TornWrite, CommitFails, Crash, NoTxn
  <2>2. ~WriteBlock
    BY <2>1 DEF WriteBlock, TypeInv, TxnShape
  <2> QED BY <1>2, <2>1, <2>2 DEF StateInv, BatchLogs
<1>5. CASE CallRollback \/ RefuseRollback \/ EndRollback \/ UNCHANGED vars
  BY <1>5 DEF CallRollback, RefuseRollback, EndRollback, vars, StateInv, LogInv, BatchLogs,
              StateAfter
<1> QED
  BY <1>1, <1>3, <1>4, <1>5, StateWriteBlock, StateCommitSave, StateCommitRollback,
     StateBeginRollback DEF Next

-----------------------------------------------------------------------------
(* First heights.                                                           *)

\* Every indexed block can be read but for the one a rollback has begun to remove.
Healthy ==
    \A h \in DOMAIN db.index : Readable(db, files, h) \/ (txn.op = "rollback" /\ h = txn.height)

\* Each file from that of the genesis block on has its lowest height recorded.
FirstsComplete(d) ==
    LET inFile(f) == {h \in DOMAIN d.index : d.index[h].fileNo = f}
    IN  /\ d.info.height > 0 => DOMAIN d.firstHeight = d.index[1].fileNo .. d.info.fileNo
        /\ \A f \in DOMAIN d.firstHeight :
              /\ d.firstHeight[f] \in inFile(f)
              /\ \A h \in inFile(f) : d.firstHeight[f] <= h

FirstsInv ==
    Healthy => FirstsComplete(db) /\ (txn.op # "none" => FirstsComplete(txn.db))

\* What cannot be read stays unreadable.
LEMMA HealthyBefore ==
    ASSUME TypeInv, StoreInv, StoreInv', BatchInv, LookupsExact, [Next]_vars, Healthy'
    PROVE  Healthy
<1>1. CASE BeginRollback
  <2>1. UNCHANGED <<db, files>> /\ txn'.height = roller.loop /\ Readable(db, files, roller.loop)
    BY <1>1 DEF BeginRollback, CanRollback
  <2> QED BY <2>1 DEF Healthy
<1>2. CASE BeginSave
  <2>1. UNCHANGED <<db, files>> /\ txn'.op = "save"
    BY <1>2 DEF BeginSave
  <2> QED BY <2>1 DEF Healthy
<1>3. CASE CommitSave
  <2>1. /\ db.info.height \in Nat /\ txn'.op = "none" /\ UNCHANGED files
        /\ DOMAIN db.index = 1 .. db.info.height
        /\ DOMAIN db'.index = 1 .. db.info.height + 1
        /\ \A h \in 1 .. db.info.height : db'.index[h] = db.index[h]
    BY <1>3, SavedIndex DEF CommitSave, NoTxn
  <2>2. \A h \in 1 .. db.info.height : h \in DOMAIN db'.index
    BY <2>1
  <2> QED BY <2>1, <2>2 DEF Healthy, Readable
<1>4. CASE CommitRollback
  <2>1. /\ db.info.height \in Nat /\ txn'.op = "none" /\ UNCHANGED files
        /\ txn.op = "rollback" /\ txn.height = db.info.height
        /\ DOMAIN db.index = 1 .. db.info.height
        /\ DOMAIN db'.index = 1 .. db.info.height - 1
        /\ \A h \in 1 .. db.info.height - 1 : db'.index[h] = db.index[h]
    BY <1>4, DroppedIndex DEF CommitRollback, NoTxn
  <2>2. \A h \in 1 .. db.info.height : h \in DOMAIN db'.index \/ h = txn.height
    BY <2>1
  <2> QED BY <2>1, <2>2 DEF Healthy, Readable
<1>5. CASE WriteBlock
  <2> DEFINE img == [pos |-> txn.pos, length |-> txn.block.length,
                     hash |-> txn.block.hash, log |-> txn.block.log]
  <2>1. /\ FileAt(files', txn.file).images \subseteq FileAt(files, txn.file).images \cup {img}
        /\ \A f : f # txn.file => FileAt(files', f) = FileAt(files, f)
    BY <1>5, WrittenImage
  <2>2. txn.op = "save" /\ txn'.op = "save" /\ UNCHANGED db
    BY <1>5 DEF WriteBlock, TypeInv, TxnShape
  <2>3. img.hash = txn.block.hash
    OBVIOUS
  <2> HIDE DEF img
  <2>4. \A h \in DOMAIN db.index : ~IsImageOf(img, db.index[h])
    BY <2>2, <2>3 DEF BatchInv, SaveBatch, LookupsExact, IsImageOf
  <2> QED BY <2>1, <2>2, <2>4 DEF Healthy, Readable
<1>6. CASE /\ UNCHANGED db /\ ~WriteBlock
           /\ txn'.op = "none" \/ (txn'.op = txn.op /\ (txn.op = "rollback" => txn'.height = txn.height))
  <2>1. \A f : FileAt(files', f).images \subseteq FileAt(files, f).images
    BY <1>6, ImagesStep
  <2> QED BY <2>1, <1>6 DEF Healthy, Readable
<1> QED BY <1>1, <1>2, <1>3, <1>4, <1>5, <1>6, Steps

LEMMA FirstsInit == Init => FirstsInv
BY DEF Init, FirstsInv, FirstsComplete, GenesisInfo, EmptyMap, NoTxn

LEMMA FirstsBeginSave ==
    ASSUME TypeInv, StoreInv, ChainInfoIsTip, Healthy, FirstsComplete(db), BeginSave
    PROVE  FirstsComplete(txn'.db)
<1>1. PICK hash \in Hashes \ DOMAIN db.heightOfHash,
           txs \in SUBSET (TxIds \ DOMAIN db.heightOfTx),
           len \in Lengths, log \in LogsAt(db.state) :
        LET b == [hash |-> hash, txs |-> txs, length |-> len, log |-> log]
            f == FileNoFor(files, db.info.fileNo, len + HeaderLength)
            p == PosFor(files, f)
        IN  txn' = [op |-> "save", written |-> FALSE, block |-> b, file |-> f,
                    pos |-> p, db |-> SavedDb(db, files, b, f, p)]
  BY DEF BeginSave
<1> DEFINE b == [hash |-> hash, txs |-> txs, length |-> len, log |-> log]
           f == FileNoFor(files, db.info.fileNo, len + HeaderLength)
           p == PosFor(files, f)
           n == db.info.height
           e == IndexEntry(db, b, f, p)
           d == SavedDb(db, files, b, f, p)
<1>2. /\ n \in Nat /\ DOMAIN db.index = 1 .. n /\ db.info.fileNo \in Nat
      /\ \A h \in 1 .. n : db.index[h].fileNo \in Nat
  BY IndexTypes
<1>3. f \in {db.info.fileNo, db.info.fileNo + 1}
  BY <1>2, FileNoForType
<1>4. txn.op = "none"
  BY DEF BeginSave, NoTxn
<1>5. txn'.db = d
  BY <1>1
<1>6. /\ d.info.height = n + 1 /\ d.info.fileNo = f /\ e.fileNo = f
      /\ d.index = PutAll(db.index, {n + 1}, e)
      /\ d.firstHeight = IF StartsFile(db, files, f, n + 1)
                         THEN PutAll(db.firstHeight, {f}, n + 1) ELSE db.firstHeight
  BY DEF SavedDb, SavedInfo, IndexEntry
<1> HIDE DEF b, f, p, n, e, d
<1>7. /\ DOMAIN d.index = 1 .. n + 1 /\ d.index[n + 1] = e
      /\ \A h \in 1 .. n : d.index[h] = db.index[h]
  BY <1>2, <1>6 DEF PutAll
<1>8. \A h : h \in 1 .. n + 1 <=> h \in 1 .. n \/ h = n + 1
  BY <1>2
<1>9. \A h \in 1 .. n : h <= n + 1
  BY <1>2
<1>10. CASE n = 0
  <2>1. DOMAIN db.firstHeight = {}
    BY <1>2, <1>10 DEF FirstsComplete
  <2>2. d.firstHeight = PutAll(db.firstHeight, {f}, 1)
    BY <1>6, <1>10 DEF StartsFile
  <2>3. DOMAIN d.firstHeight = {f} /\ d.firstHeight[f] = 1
    BY <2>1, <2>2 DEF PutAll
  <2>4. DOMAIN d.index = {1} /\ d.index[1].fileNo = f /\ f \in Nat
    BY <1>2, <1>3, <1>6, <1>7, <1>10
  <2>5. DOMAIN d.firstHeight = d.index[1].fileNo .. d.info.fileNo
    BY <2>3, <2>4, <1>6
  <2> QED BY <2>3, <2>4, <2>5, <1>5 DEF FirstsComplete
<1>11. CASE n > 0
  <2>1. /\ db.info.fileNo = db.index[n].fileNo /\ n \in 1 .. n /\ 1 \in 1 .. n
        /\ \A h \in 1 .. n : db.index[h].fileNo <= db.info.fileNo
    BY <1>2, <1>11 DEF StoreInv, IndexInv, n
  <2>2. /\ DOMAIN db.firstHeight = db.index[1].fileNo .. db.info.fileNo
        /\ \A g \in DOMAIN db.firstHeight :
              /\ db.firstHeight[g] \in 1 .. n /\ db.index[db.firstHeight[g]].fileNo = g
              /\ \A h \in 1 .. n : db.index[h].fileNo = g => db.firstHeight[g] <= h
    BY <1>2, <1>11 DEF FirstsComplete, n
  <2>3. CASE f = db.info.fileNo
    <3>1. FileAt(files, f).size # 0
      <4>1. Readable(db, files, n)
        BY <2>1, <1>2, <1>4 DEF Healthy
      <4>2. db.index[n].filePos + db.index[n].length <= FileAt(files, f).size
        BY <4>1, <2>1, <2>3, <1>2, ReadableEnds
      <4>3. HeaderLength <= db.index[n].filePos /\ db.index[n].filePos \in Nat
            /\ db.index[n].length \in Nat
        BY <2>1, <1>2, IndexTypes DEF StoreInv, PlacedInv, n
      <4> QED BY <4>2, <4>3, StoreAssumption
    <3>2. d.firstHeight = db.firstHeight
      BY <3>1, <2>1, <2>3, <1>2, <1>6, <1>11 DEF StartsFile
    <3>3. d.index[1].fileNo = db.index[1].fileNo
      BY <2>1, <1>7
    <3>4. ASSUME NEW g \in DOMAIN d.firstHeight
          PROVE  /\ d.firstHeight[g] \in 1 .. n + 1 /\ d.index[d.firstHeight[g]].fileNo = g
                 /\ \A h \in 1 .. n + 1 : d.index[h].fileNo = g => d.firstHeight[g] <= h
      <4>1. /\ d.firstHeight[g] \in 1 .. n /\ db.index[d.firstHeight[g]].fileNo = g
            /\ \A h \in 1 .. n : db.index[h].fileNo = g => d.firstHeight[g] <= h
        BY <3>2, <2>2
      <4>2. \A h \in 1 .. n : d.index[h].fileNo = g => d.firstHeight[g] <= h
        BY <4>1, <1>7
      <4>3. d.firstHeight[g] <= n + 1
        BY <4>1, <1>9
      <4>4. d.firstHeight[g] \in 1 .. n + 1 /\ d.index[d.firstHeight[g]].fileNo = g
        BY <4>1, <1>7, <1>8
      <4>5. \A h \in 1 .. n + 1 : d.index[h].fileNo = g => d.firstHeight[g] <= h
        BY <4>2, <4>3, <1>8
      <4> QED BY <4>4, <4>5
    <3>5. DOMAIN d.firstHeight = d.index[1].fileNo .. d.info.fileNo
      BY <3>2, <3>3, <2>2, <2>3, <1>6
    <3>7. DOMAIN d.index = 1 .. n + 1
      BY <1>7
    <3>8. FirstsComplete(d)
      BY <3>4, <3>5, <3>7 DEF FirstsComplete
    <3> QED BY <3>8, <1>5
  <2>4. CASE f = db.info.fileNo + 1
    <3>1. d.firstHeight = PutAll(db.firstHeight, {f}, n + 1)
      BY <2>1, <2>4, <1>2, <1>6 DEF StartsFile
    <3>2. /\ DOMAIN d.firstHeight = DOMAIN db.firstHeight \cup {f}
          /\ d.firstHeight[f] = n + 1
          /\ \A g \in DOMAIN db.firstHeight : g # f => d.firstHeight[g] = db.firstHeight[g]
      BY <3>1 DEF PutAll
    <3>3. d.index[1].fileNo = db.index[1].fileNo
      BY <2>1, <1>7
    <3>4. DOMAIN d.firstHeight = d.index[1].fileNo .. d.info.fileNo
      BY <3>2, <3>3, <2>1, <2>2, <2>4, <1>2, <1>6
    <3>5. f \notin DOMAIN db.firstHeight /\ \A h \in 1 .. n : db.index[h].fileNo # f
      BY <2>1, <2>2, <2>4, <1>2
    <3>6. ASSUME NEW g \in DOMAIN d.firstHeight
          PROVE  /\ d.firstHeight[g] \in 1 .. n + 1 /\ d.index[d.firstHeight[g]].fileNo = g
                 /\ \A h \in 1 .. n + 1 : d.index[h].fileNo = g => d.firstHeight[g] <= h
      <4>1. CASE g = f
        <5>1. d.firstHeight[g] = n + 1 /\ n + 1 \in 1 .. n + 1 /\ n + 1 <= n + 1
          BY <4>1, <3>2, <1>2
        <5>2. \A h \in 1 .. n : d.index[h].fileNo # g
          BY <4>1, <3>5, <1>7
        <5> QED BY <4>1, <5>1, <5>2, <1>6, <1>7, <1>8
      <4>2. CASE g \in DOMAIN db.firstHeight /\ g # f
        <5>1. /\ d.firstHeight[g] \in 1 .. n /\ db.index[d.firstHeight[g]].fileNo = g
              /\ \A h \in 1 .. n : db.index[h].fileNo = g => d.firstHeight[g] <= h
          BY <4>2, <3>2, <2>2
        <5>2. \A h \in 1 .. n : d.index[h].fileNo = g => d.firstHeight[g] <= h
          BY <5>1, <1>7
        <5>3. d.firstHeight[g] <= n + 1
          BY <5>1, <1>9
        <5>4. d.firstHeight[g] \in 1 .. n + 1 /\ d.index[d.firstHeight[g]].fileNo = g
          BY <5>1, <1>7, <1>8
        <5>5. \A h \in 1 .. n + 1 : d.index[h].fileNo = g => d.firstHeight[g] <= h
          BY <5>2, <5>3, <1>8
        <5> QED BY <5>4, <5>5
      <4> QED BY <4>1, <4>2, <3>2
    <3>7. DOMAIN d.index = 1 .. n + 1
      BY <1>7
    <3>8. FirstsComplete(d)
      BY <3>4, <3>6, <3>7 DEF FirstsComplete
    <3> QED BY <3>8, <1>5
  <2> QED BY <2>3, <2>4, <1>3
<1> QED BY <1>2, <1>10, <1>11

LEMMA FirstsBeginRollback ==
    ASSUME TypeInv, StoreInv, FirstsComplete(db), BeginRollback
    PROVE  FirstsComplete(txn'.db)
<1> DEFINE n == db.info.height
           f == db.index[n].fileNo
           d == RolledBackDb(db, n, ReadImage(db, files, n).log)
<1>1. /\ n \in Nat /\ DOMAIN db.index = 1 .. n
      /\ \A h \in 1 .. n : db.index[h].fileNo \in Nat
  BY IndexTypes
<1>2. roller.loop = n
  BY DEF BeginRollback, StoreInv, RollbackInv
<1>3. txn'.db = d /\ n > 1
  BY <1>1, <1>2 DEF BeginRollback, CanRollback
<1>4. /\ d.info.fileNo = db.index[n - 1].fileNo
      /\ d.index = Without(db.index, {n})
      /\ d.firstHeight = FirstHeightWithout(db, n)
  BY DEF RolledBackDb, RolledBackInfo
<1> HIDE DEF d, n
<1>5. DOMAIN d.index = 1 .. n - 1 /\ \A h \in 1 .. n - 1 : d.index[h] = db.index[h]
  BY <1>1, <1>3, <1>4 DEF Without
<1>6. n - 1 \in 1 .. n - 1 /\ 1 \in 1 .. n - 1 /\ n \in 1 .. n
  BY <1>1, <1>3
<1>7. \A h : h \in 1 .. n - 1 <=> h \in 1 .. n /\ h # n
  BY <1>1
<1>8. \A h \in 1 .. n - 1 : h < n /\ db.index[h].fileNo <= db.index[n - 1].fileNo
                            /\ db.index[h].fileNo \in Nat
  <2>1. \A h \in 1 .. n - 1 : h < n /\ h <= n - 1 /\ h \in 1 .. n /\ n - 1 \in 1 .. n
    BY <1>1
  <2> QED BY <2>1, <1>1 DEF StoreInv, IndexInv, n
<1>9. db.index[n - 1].fileNo <= f /\ f \in Nat /\ db.index[n - 1].fileNo \in Nat
  BY <1>1, <1>3, <1>6, <1>7 DEF StoreInv, IndexInv, n
<1>10. /\ DOMAIN db.firstHeight = db.index[1].fileNo .. f
       /\ \A g \in DOMAIN db.firstHeight :
             /\ db.firstHeight[g] \in 1 .. n /\ db.index[db.firstHeight[g]].fileNo = g
             /\ \A h \in 1 .. n : db.index[h].fileNo = g => db.firstHeight[g] <= h
  BY <1>1, <1>3 DEF FirstsComplete, StoreInv, IndexInv, n
<1> HIDE DEF f
<1>11. f \in DOMAIN db.firstHeight
  BY <1>1, <1>6, <1>7, <1>8, <1>9, <1>10
<1>12. CASE db.firstHeight[f] = n
  <2>1. d.firstHeight = Without(db.firstHeight, {f})
    BY <1>4, <1>12 DEF FirstHeightWithout, f
  <2>2. /\ DOMAIN d.firstHeight = DOMAIN db.firstHeight \ {f}
        /\ \A g \in DOMAIN d.firstHeight : d.firstHeight[g] = db.firstHeight[g]
    BY <2>1 DEF Without
  <2>3. \A h \in 1 .. n - 1 : db.index[h].fileNo # f
    <3>1. \A h \in 1 .. n - 1 : ~(n <= h)
      BY <1>1
    <3> QED BY <3>1, <1>7, <1>10, <1>11, <1>12
  <2>4. db.index[n - 1].fileNo = f - 1
    <3>1. db.index[n - 1].fileNo < f
      BY <2>3, <1>6, <1>9
    <3>2. f - 1 \in DOMAIN db.firstHeight
      BY <3>1, <1>6, <1>8, <1>9, <1>10
    <3>3. db.index[db.firstHeight[f - 1]].fileNo = f - 1 /\ db.firstHeight[f - 1] \in 1 .. n
      BY <3>2, <1>10
    <3>4. db.firstHeight[f - 1] # n
      BY <3>3, <1>9 DEF f
    <3>5. f - 1 <= db.index[n - 1].fileNo
      BY <3>3, <3>4, <1>7, <1>8
    <3> QED BY <3>1, <3>5, <1>9
  <2>5. DOMAIN d.firstHeight = d.index[1].fileNo .. d.info.fileNo
    <3>1. d.index[1].fileNo = db.index[1].fileNo /\ d.info.fileNo = f - 1
          /\ db.index[1].fileNo \in Nat
      BY <2>4, <1>4, <1>5, <1>6, <1>8
    <3> QED BY <3>1, <2>2, <1>9, <1>10
  <2>6. ASSUME NEW g \in DOMAIN d.firstHeight
        PROVE  /\ d.firstHeight[g] \in 1 .. n - 1 /\ d.index[d.firstHeight[g]].fileNo = g
               /\ \A h \in 1 .. n - 1 : d.index[h].fileNo = g => d.firstHeight[g] <= h
    <3>1. g \in DOMAIN db.firstHeight /\ g # f /\ d.firstHeight[g] = db.firstHeight[g]
      BY <2>2
    <3>2. db.firstHeight[g] # n
      BY <3>1, <1>10 DEF f
    <3> QED BY <3>1, <3>2, <1>5, <1>7, <1>10
  <2> QED BY <2>5, <2>6, <1>3, <1>5 DEF FirstsComplete
<1>13. CASE db.firstHeight[f] # n
  <2>1. d.firstHeight = db.firstHeight
    BY <1>4, <1>13 DEF FirstHeightWithout, f
  <2>2. db.firstHeight[f] \in 1 .. n - 1 /\ db.index[db.firstHeight[f]].fileNo = f
    BY <1>7, <1>10, <1>11, <1>13
  <2>3. db.index[n - 1].fileNo = f
    BY <2>2, <1>8, <1>9
  <2>4. DOMAIN d.firstHeight = d.index[1].fileNo .. d.info.fileNo
    BY <2>1, <2>3, <1>4, <1>5, <1>6, <1>10
  <2>5. ASSUME NEW g \in DOMAIN d.firstHeight
        PROVE  /\ d.firstHeight[g] \in 1 .. n - 1 /\ d.index[d.firstHeight[g]].fileNo = g
               /\ \A h \in 1 .. n - 1 : d.index[h].fileNo = g => d.firstHeight[g] <= h
    <3>1. d.firstHeight[g] # n
      BY <2>1, <2>2, <1>10, <1>13 DEF f
    <3> QED BY <3>1, <2>1, <1>5, <1>7, <1>10
  <2> QED BY <2>4, <2>5, <1>3, <1>5 DEF FirstsComplete
<1> QED BY <1>12, <1>13

LEMMA FirstsNext ==
    TypeInv /\ StoreInv /\ StoreInv' /\ BatchInv /\ LookupsExact /\ ChainInfoIsTip
        /\ FirstsInv /\ [Next]_vars
    => FirstsInv'
<1> SUFFICES ASSUME TypeInv, StoreInv, StoreInv', BatchInv, LookupsExact, ChainInfoIsTip,
                    FirstsInv, [Next]_vars, Healthy'
             PROVE  FirstsComplete(db') /\ (txn'.op # "none" => FirstsComplete(txn'.db))
  BY DEF FirstsInv, FirstsComplete
<1>1. Healthy /\ FirstsComplete(db) /\ (txn.op # "none" => FirstsComplete(txn.db))
  BY HealthyBefore DEF FirstsInv
<1>2. CASE BeginSave
  <2>1. UNCHANGED db
    BY <1>2 DEF BeginSave
  <2> QED BY <2>1, <1>1, <1>2, FirstsBeginSave
<1>3. CASE BeginRollback
  <2>1. UNCHANGED db
    BY <1>3 DEF BeginRollback
  <2> QED BY <2>1, <1>1, <1>3, FirstsBeginRollback
<1>4. CASE CommitSave \/ CommitRollback
  <2>1. db' = txn.db /\ txn'.op = "none" /\ txn.op # "none"
    BY <1>4 DEF CommitSave, CommitRollback, NoTxn
  <2> QED BY <2>1, <1>1
<1>5. CASE /\ UNCHANGED db
           /\ txn'.op = "none" \/ (txn'.op = txn.op /\ (txn.op # "none" => txn'.db = txn.db))
  BY <1>1, <1>5
<1> QED BY <1>2, <1>3, <1>4, <1>5, Steps

-----------------------------------------------------------------------------
(* The theorems.                                                            *)

\* The inductive invariant.
Invariant ==
    /\ TypeInv /\ StoreInv /\ BatchInv
    /\ ChainInfoIsTip /\ LookupsExact /\ StateInv /\ FirstsInv

LEMMA InvariantInit == Init => Invariant
BY TypeInvInit, StoreInvInit, BatchInvInit, TipInit, LookupsInit, StateInvInit, FirstsInit
   DEF Invariant

LEMMA InvariantNext == Quiet /\ Invariant /\ [Next]_vars => Invariant'
<1> SUFFICES ASSUME Quiet, Invariant, [Next]_vars PROVE Invariant'
  OBVIOUS
<1>1. TypeInv' /\ StoreInv'
  BY TypeInvNext, StoreInvNext DEF Invariant
<1>2. BatchInv' /\ ChainInfoIsTip' /\ LookupsExact' /\ StateInv' /\ FirstsInv'
  BY <1>1, BatchInvNext, TipNext, LookupsNext, StateInvNext, FirstsNext DEF Invariant
<1> QED BY <1>1, <1>2 DEF Invariant

LEMMA InvariantCorrect == ASSUME ~SaveDuringRollback PROVE Spec => []Invariant
<1>1. Quiet
  BY DEF Quiet
<1>2. Invariant /\ [Next]_vars => Invariant'
  BY <1>1, InvariantNext
<1> QED BY <1>2, InvariantInit, PTL DEF Spec

\* The chain info names the last indexed block, and the index holds the heights 1 to
\* the last, each with the hash of the block before, at every moment of a save, a
\* rollback, a failure or a crash.
THEOREM ChainInfoCorrect == ASSUME ~SaveDuringRollback PROVE Spec => []ChainInfoIsTip
<1>1. Invariant => ChainInfoIsTip
  BY DEF Invariant
<1> QED BY <1>1, InvariantCorrect, PTL

\* The lookups by hash and by transaction find the indexed blocks and nothing else, and
\* the number of transactions is right after any sequence of saves and rollbacks.
THEOREM LookupsCorrect == ASSUME ~SaveDuringRollback PROVE Spec => []LookupsExact
<1>1. Invariant => LookupsExact
  BY DEF Invariant
<1> QED BY <1>1, InvariantCorrect, PTL

\* The start-up check finds the first height of every file, and it is the lowest one,
\* whatever torn writes left in the files, unless a rollback was left unfinished.
THEOREM FirstHeightsCorrect == ASSUME ~SaveDuringRollback PROVE Spec => []FirstHeightsComplete
<1>1. Invariant => FirstHeightsComplete
  <2> SUFFICES ASSUME Invariant, cut = {} PROVE FirstsComplete(db)
    BY DEF FirstHeightsComplete, FirstsComplete
  <2>1. Healthy
    BY DEF Healthy, Invariant, StoreInv, BlocksIntact
  <2> QED BY <2>1 DEF Invariant, FirstsInv
<1> QED BY <1>1, InvariantCorrect, PTL

\* The chain that the ledger sees.
Shown == [h \in 1 .. db.info.height |-> [hash |-> db.index[h].hash, before |-> before[h]]]

LEMMA ShownType ==
    ASSUME Invariant
    PROVE  /\ db.info.height \in Nat /\ Len(before) = db.info.height
           /\ DOMAIN db.index = 1 .. db.info.height
           /\ before \in Seq(States) /\ db.state \in States
           /\ \A h \in 1 .. db.info.height : db.index[h].hash \in Hashes /\ before[h] \in States
           /\ Shown \in Seq([hash : Hashes, before : States])
           /\ Len(Shown) = db.info.height
<1>1. /\ db.info.height \in Nat /\ Len(before) = db.info.height
      /\ DOMAIN db.index = 1 .. db.info.height
      /\ before \in Seq(States) /\ db.state \in States
  BY IndexTypes DEF Invariant, TypeInv, TypeOK, DbTypeOK, StateInv
<1>2. \A h \in 1 .. db.info.height : db.index[h].hash \in Hashes
  BY <1>1 DEF Invariant, TypeInv, TypeOK, DbTypeOK, IndexRecords
<1>3. \A h \in 1 .. db.info.height : before[h] \in States
  BY <1>1
<1>4. Shown \in Seq([hash : Hashes, before : States]) /\ Len(Shown) = db.info.height
  <2> DEFINE n == db.info.height
             S == [hash : Hashes, before : States]
  <2>1. Shown \in [1 .. n -> S] /\ DOMAIN Shown = 1 .. n
    BY <1>2, <1>3 DEF Shown
  <2> HIDE DEF n, S
  <2>2. n \in Nat
    BY <1>1 DEF n
  <2>3. Shown \in Seq(S)
    BY <2>1, <2>2, SeqDef
  <2>4. Len(Shown) = n
    BY <2>1, <2>2, <2>3
  <2> QED BY <2>3, <2>4 DEF n, S
<1> QED BY <1>1, <1>2, <1>3, <1>4

\* What ShownType says of the chain shown.
ShownOK == Shown \in Seq([hash : Hashes, before : States]) /\ Len(Shown) = db.info.height

\* The same of the next state.
LEMMA ShownPrimed == Invariant' => ShownOK'
<1>1. Invariant => ShownOK
  BY ShownType DEF ShownOK
<1> QED BY <1>1, PTL

LEMMA LedgerInitially == Init => ledger!LedgerInit
BY DEF Init, ledger!LedgerInit, GenesisInfo, States

LEMMA LedgerAppends ==
    ASSUME Invariant, Invariant', CommitSave
    PROVE  \E h \in Hashes : ledger!AppendBlock(h)
<1> DEFINE n == db.info.height
<1>1. /\ n \in Nat /\ db'.info.height = n + 1
      /\ \A h \in 1 .. n : db'.index[h] = db.index[h]
      /\ db'.index[n + 1] = IndexEntry(db, txn.block, txn.file, txn.pos)
  BY SavedIndex DEF Invariant
<1>2. before' = Append(before, db.state) /\ txn.op = "save"
  BY DEF CommitSave
<1>3. /\ before \in Seq(States) /\ Len(before) = n /\ db.state \in States
      /\ Shown \in Seq([hash : Hashes, before : States]) /\ Len(Shown) = n
  BY ShownType
<1>4. db'.state \in States
  BY DEF Invariant, TypeInv, TypeOK, DbTypeOK
<1>5. txn.block.hash \in Hashes
  BY <1>2 DEF Invariant, BatchInv, SaveBatch
<1>6. db'.index[n + 1].hash = txn.block.hash
  BY <1>1 DEF IndexEntry
<1>7. before'[n + 1] = db.state /\ \A h \in 1 .. n : before'[h] = before[h]
  BY <1>1, <1>2, <1>3
<1>8. Shown' \in Seq([hash : Hashes, before : States]) /\ Len(Shown') = n + 1
  <2>1. /\ Shown' \in Seq([hash : Hashes, before : States])
        /\ Len(Shown') = db'.info.height
    BY ShownPrimed DEF ShownOK
  <2> QED BY <2>1, <1>1
<1>9. Shown' = Append(Shown, [hash |-> txn.block.hash, before |-> db.state])
  <2> DEFINE e == [hash |-> txn.block.hash, before |-> db.state]
  <2>1. Shown' = [h \in 1 .. n + 1 |-> [hash |-> db'.index[h].hash, before |-> before'[h]]]
    BY <1>1 DEF Shown
  <2>2. e \in [hash : Hashes, before : States]
    BY <1>3, <1>5
  <2> HIDE DEF n
  <2>3. \A h \in 1 .. n : Shown[h] = [hash |-> db.index[h].hash, before |-> before[h]]
    BY DEF Shown, n
  <2>4. Shown'[n + 1] = e
    BY <2>1, <1>1, <1>6, <1>7
  <2>5. \A h \in 1 .. n : Shown'[h] = Shown[h]
    BY <2>1, <2>3, <1>1, <1>7
  <2> HIDE DEF e
  <2> DEFINE S == [hash : Hashes, before : States]
  <2>6. Shown \in Seq(S) /\ Shown' \in Seq(S) /\ e \in S
    BY <2>2, <1>3, <1>8
  <2> HIDE DEF S
  <2>7. /\ Append(Shown, e) \in Seq(S) /\ Len(Append(Shown, e)) = n + 1
        /\ Append(Shown, e)[n + 1] = e
        /\ \A h \in 1 .. n : Append(Shown, e)[h] = Shown[h]
    BY <2>6, <1>1, <1>3
  <2>8. \A h \in 1 .. n + 1 : Append(Shown, e)[h] = Shown'[h]
    BY <2>4, <2>5, <2>7, <1>1
  <2>9. Append(Shown, e) = Shown'
    BY <2>6, <2>7, <2>8, <1>8, SeqEqual
  <2> QED BY <2>9 DEF e
<1> QED BY <1>4, <1>5, <1>9 DEF ledger!AppendBlock, Shown

LEMMA LedgerDrops ==
    ASSUME Invariant, Invariant', CommitRollback
    PROVE  ledger!DropBlock
<1> DEFINE n == db.info.height
<1>1. /\ n \in Nat /\ n > 1 /\ txn.height = n /\ db'.info.height = n - 1
      /\ \A h \in 1 .. n - 1 : db'.index[h] = db.index[h]
  BY DroppedIndex DEF Invariant
<1>2. /\ before' = SubSeq(before, 1, Len(before) - 1) /\ txn.op = "rollback"
      /\ db' = txn.db
  BY DEF CommitRollback
<1>3. /\ before \in Seq(States) /\ Len(before) = n
      /\ Shown \in Seq([hash : Hashes, before : States]) /\ Len(Shown) = n
  BY ShownType
<1>4. db'.state = before[n]
  BY <1>1, <1>2 DEF Invariant, StateInv, BatchLogs
<1>5. \A h \in 1 .. n - 1 : before'[h] = before[h]
  BY <1>1, <1>2, <1>3
<1>6. \A h \in 1 .. n : Shown[h] = [hash |-> db.index[h].hash, before |-> before[h]]
  BY DEF Shown
<1>7. Shown' = [h \in 1 .. n - 1 |-> [hash |-> db'.index[h].hash, before |-> before'[h]]]
  BY <1>1 DEF Shown
<1> HIDE DEF n
<1>8. Shown' = SubSeq(Shown, 1, Len(Shown) - 1)
  <2>1. SubSeq(Shown, 1, n - 1) = [h \in 1 .. n - 1 |-> Shown[h]]
    BY <1>1, <1>3
  <2>2. ASSUME NEW h \in 1 .. n - 1 PROVE Shown'[h] = Shown[h]
    <3>1. h \in 1 .. n
      BY <1>1
    <3>2. Shown[h] = [hash |-> db.index[h].hash, before |-> before[h]]
      BY <1>6, <3>1
    <3>3. Shown'[h] = [hash |-> db'.index[h].hash, before |-> before'[h]]
      BY <1>7
    <3>4. db'.index[h] = db.index[h] /\ before'[h] = before[h]
      BY <1>1, <1>5
    <3> QED BY <3>2, <3>3, <3>4
  <2>3. Shown' = [h \in 1 .. n - 1 |-> Shown[h]]
    BY <2>2, <1>7
  <2> QED BY <2>1, <2>3, <1>3
<1>9. Shown # <<>> /\ Shown[Len(Shown)].before = before[n]
  BY <1>1, <1>3, <1>6
<1> QED BY <1>4, <1>8, <1>9 DEF ledger!DropBlock, Shown

LEMMA LedgerStep ==
    Invariant /\ Invariant' /\ [Next]_vars => [ledger!LedgerNext]_(ledger!lvars)
<1> SUFFICES ASSUME Invariant, Invariant', [Next]_vars
             PROVE  [ledger!LedgerNext]_(ledger!lvars)
  OBVIOUS
<1>1. CASE CommitSave
  BY <1>1, LedgerAppends DEF ledger!LedgerNext
<1>2. CASE CommitRollback
  BY <1>2, LedgerDrops DEF ledger!LedgerNext
<1>3. CASE UNCHANGED <<db, before>>
  BY <1>3 DEF ledger!lvars
<1> QED BY <1>1, <1>2, <1>3, Steps DEF Invariant, BeginSave, BeginRollback

\* Block storage over database and files implements the ledger: blocks are appended and
\* dropped whole, and a rollback gives back the world state the block found.
THEOREM LedgerCorrect == ASSUME ~SaveDuringRollback PROVE Spec => ImplementsLedger
<1> QED BY LedgerInitially, LedgerStep, InvariantCorrect, PTL
        DEF Spec, ImplementsLedger, ledger!LedgerSpec
=============================================================================
