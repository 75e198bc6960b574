------------------------- MODULE ContractStateProofs -------------------------
(***************************************************************************)
(* What contracts read, what a block saves and what a rollback restores,   *)
(* for any keys and values, any number of calls, transactions and blocks.  *)
(*                                                                         *)
(* The log of the running transaction says the same as its overlay         *)
(* (OverlayInv), the read cache holds what the database does (CacheInv),   *)
(* and so the overlay of the block is the state in transaction order but   *)
(* for what leaked (BlockInv), which the reads of the log are about        *)
(* (LoggedInv) and, with them, the results (ResultsInv) and the blocks     *)
(* (ChainInv).                                                             *)
(***************************************************************************)
EXTENDS ContractState, StateLogProofs

ChainRecords == [results : Seq(Results), before : States, unsure : SUBSET Keys]

\* What is written or deleted has been read.
TypeInv ==
    /\ TypeOK /\ chain \in Seq(ChainRecords)
    /\ DOMAIN log.set \cup DOMAIN log.del \subseteq DOMAIN log.get

OverlayInv ==
    /\ tx.update = log.set /\ tx.delete = DOMAIN log.del
    /\ ops = 0 => tx = NoOverlay /\ log = NoLog

CacheInv == \A k \in DOMAIN block.read : block.read[k] = db[k]

\* What the running transaction makes of the value s of key k.
Changed(s, k) ==
    IF k \in tx.delete THEN NoVal ELSE IF k \in DOMAIN tx.update THEN tx.update[k] ELSE s

OwnInv == \A k \in Keys : own[k] = Changed(serial[k], k)

BlockInv == \A k \in Keys \ leaked : BlockValue(k) = serial[k]

\* Unless it was read again after it was written, a key is logged with the value that the
\* transaction found.
LoggedInv ==
    \A k \in Keys \ stale :
        /\ k \in DOMAIN log.get => log.get[k] = BlockValue(k)
        /\ k \in DOMAIN log.del => log.del[k] = BlockValue(k)

\* The only writer of a key has logged the value that the block found.
SoleWriterLogged(rs, ws, sure) ==
    \A k \in sure : \A i \in DOMAIN rs : Writers(rs, k) = {i} => OldValue(rs[i], k) = ws[k]

ResultsInv == SoleWriterLogged(results, db, Keys \ (stale \cup leaked))

ChainInv ==
    \A j \in DOMAIN chain :
        SoleWriterLogged(chain[j].results, chain[j].before, Keys \ chain[j].unsure)

Invariant == /\ TypeInv /\ OverlayInv /\ CacheInv /\ OwnInv /\ BlockInv /\ LoggedInv
             /\ SavesUnlessRecreated /\ ResultsInv /\ ChainInv

-----------------------------------------------------------------------------
(* Maps and types.                                                          *)

\* A map with a key put.
LEMMA PutFacts ==
    ASSUME NEW V, NEW m \in MapsOf(V), NEW k \in Keys, NEW v \in V
    PROVE  /\ Put(m, k, v) \in MapsOf(V) /\ DOMAIN Put(m, k, v) = DOMAIN m \cup {k}
           /\ Put(m, k, v)[k] = v
           /\ \A x \in DOMAIN m \ {k} : Put(m, k, v)[x] = m[x]
<1>1. DOMAIN m \subseteq Keys /\ \A x \in DOMAIN m : m[x] \in V
  BY DEF MapsOf
<1>2. Put(m, k, v) \in [DOMAIN m \cup {k} -> V]
  BY <1>1 DEF Put
<1> QED BY <1>1, <1>2, MapsOfMember DEF Put

\* The same for the maps of values.
LEMMA ValuesPut ==
    ASSUME NEW m \in MapsOf(Values), NEW k \in Keys, NEW v \in Values
    PROVE  /\ Put(m, k, v) \in MapsOf(Values) /\ DOMAIN Put(m, k, v) = DOMAIN m \cup {k}
           /\ Put(m, k, v)[k] = v
           /\ \A x \in DOMAIN m \ {k} : Put(m, k, v)[x] = m[x]
<1>1. DOMAIN m \subseteq Keys /\ \A x \in DOMAIN m : m[x] \in Values
  BY DEF MapsOf
<1>2. Put(m, k, v) \in [DOMAIN m \cup {k} -> Values]
  BY <1>1 DEF Put
<1> QED BY <1>1, <1>2, MapsOfMember DEF Put

\* A map without a key.
LEMMA RemoveFacts ==
    ASSUME NEW V, NEW m \in MapsOf(V), NEW k \in Keys
    PROVE  /\ Remove(m, k) \in MapsOf(V) /\ DOMAIN Remove(m, k) = DOMAIN m \ {k}
           /\ \A x \in DOMAIN m \ {k} : Remove(m, k)[x] = m[x]
<1>1. DOMAIN m \subseteq Keys /\ \A x \in DOMAIN m : m[x] \in V
  BY DEF MapsOf
<1>2. Remove(m, k) \in [DOMAIN m \ {k} -> V]
  BY <1>1 DEF Remove
<1> QED BY <1>1, <1>2, MapsOfMember DEF Remove

\* What is empty at the start.
LEMMA EmptyFacts ==
    /\ \A V : NoMap \in MapsOf(V)
    /\ DOMAIN NoMap = {} /\ NoLog \in Results
    /\ NoLog.get = NoMap /\ NoLog.set = NoMap /\ NoLog.del = NoMap
    /\ NoOverlay.update = NoMap /\ NoOverlay.delete = {}
    /\ NoPreload.update = NoMap /\ NoPreload.delete = {} /\ NoPreload.read = NoMap
<1>1. \A V : NoMap \in MapsOf(V)
  BY DEF NoMap, MapsOf
<1> QED BY <1>1 DEF NoMap, NoLog, FailedResult, Results, NoOverlay, NoPreload

TxRecords == [update : MapsOf(Values), delete : SUBSET Keys]
BlockRecords == [update : MapsOf(Values), delete : SUBSET Keys, read : MapsOf(Values)]

\* The types, variable by variable.
LEMMA TypeFacts ==
    TypeInv <=>
        /\ db \in States /\ serial \in States /\ own \in States
        /\ tx \in TxRecords /\ block \in BlockRecords /\ log \in Results
        /\ results \in Seq(Results) /\ Len(results) <= MaxTxs
        /\ ops \in 0 .. MaxOps /\ chain \in Seq(ChainRecords)
        /\ DOMAIN log.set \cup DOMAIN log.del \subseteq DOMAIN log.get
        /\ leaked \subseteq Keys /\ stale \subseteq Keys
<1>1. chain \in Seq(ChainRecords) => \A i \in DOMAIN chain : chain[i] \in ChainRecords
  OBVIOUS
<1> QED BY <1>1 DEF TypeInv, TypeOK, TxRecords, BlockRecords, ChainRecords

\* The parts of the records.
LEMMA PartFacts ==
    ASSUME TypeInv
    PROVE  /\ tx.update \in MapsOf(Values) /\ tx.delete \subseteq Keys
           /\ DOMAIN tx.update \subseteq Keys
           /\ block.update \in MapsOf(Values) /\ block.delete \subseteq Keys
           /\ block.read \in MapsOf(Values)
           /\ DOMAIN block.update \subseteq Keys /\ DOMAIN block.read \subseteq Keys
           /\ log.get \in MapsOf(Values \cup {NoVal}) /\ log.set \in MapsOf(Values)
           /\ log.del \in MapsOf(Values \cup {NoVal})
           /\ DOMAIN log.get \subseteq Keys
           /\ DOMAIN log.set \subseteq DOMAIN log.get /\ DOMAIN log.del \subseteq DOMAIN log.get
           /\ tx = [update |-> tx.update, delete |-> tx.delete]
           /\ log = [get |-> log.get, set |-> log.set, del |-> log.del]
           /\ block = [update |-> block.update, delete |-> block.delete, read |-> block.read]
<1>1. tx \in TxRecords /\ block \in BlockRecords /\ log \in Results
      /\ DOMAIN log.set \cup DOMAIN log.del \subseteq DOMAIN log.get
  BY TypeFacts
<1>2. \A V : \A m \in MapsOf(V) : DOMAIN m \subseteq Keys
  BY DEF MapsOf
<1>3. /\ tx.update \in MapsOf(Values) /\ tx.delete \subseteq Keys
      /\ tx = [update |-> tx.update, delete |-> tx.delete]
  BY <1>1 DEF TxRecords
<1>4. /\ block.update \in MapsOf(Values) /\ block.delete \subseteq Keys
      /\ block.read \in MapsOf(Values)
      /\ block = [update |-> block.update, delete |-> block.delete, read |-> block.read]
  BY <1>1 DEF BlockRecords
<1>5. /\ log.get \in MapsOf(Values \cup {NoVal}) /\ log.set \in MapsOf(Values)
      /\ log.del \in MapsOf(Values \cup {NoVal})
      /\ log = [get |-> log.get, set |-> log.set, del |-> log.del]
  BY <1>1 DEF Results
<1> QED BY <1>1, <1>2, <1>3, <1>4, <1>5

\* What is read is a value, or none.
LEMMA ValueType ==
    ASSUME TypeInv, NEW k \in Keys
    PROVE  db[k] \in Values \cup {NoVal} /\ BlockValue(k) \in Values \cup {NoVal}
           /\ TxValue(k) \in Values \cup {NoVal}
<1>1. \A m \in MapsOf(Values) : \A x \in DOMAIN m : m[x] \in Values
  BY DEF MapsOf
<1>2. db[k] \in Values \cup {NoVal}
  BY TypeFacts DEF States
<1>3. BlockValue(k) \in Values \cup {NoVal}
  BY <1>1, <1>2, PartFacts DEF BlockValue
<1>4. TxValue(k) \in Values \cup {NoVal}
  BY <1>1, <1>3, PartFacts DEF TxValue
<1> QED BY <1>2, <1>3, <1>4

\* What an API call may do to the read cache.
LEMMA ReadFacts ==
    ASSUME TypeInv, NEW k \in Keys, block' \in {block, ReadCached(k)}
    PROVE  /\ block' \in BlockRecords
           /\ block'.update = block.update /\ block'.delete = block.delete
           /\ \A x \in DOMAIN block.read :
                  x \in DOMAIN block'.read /\ block'.read[x] = block.read[x]
           /\ \A x \in DOMAIN block'.read \ DOMAIN block.read : block'.read[x] = db[x]
<1>1. CASE block' = block
  BY <1>1, TypeFacts
<1>2. CASE block' # block
  <2>1. db[k] # NoVal /\ k \notin DOMAIN block.read
        /\ block' = [block EXCEPT !.read = Put(block.read, k, db[k])]
    <3>1. block' = ReadCached(k)
      BY <1>2
    <3>2. [block EXCEPT !.read = block.read] = block
      <4>1. block \in BlockRecords
        BY TypeFacts
      <4> QED BY <4>1 DEF BlockRecords
    <3> QED BY <1>2, <3>1, <3>2 DEF ReadCached
  <2> DEFINE m == Put(block.read, k, db[k])
  <2>2. db[k] \in Values
    BY <2>1, ValueType
  <2>3. /\ m \in MapsOf(Values) /\ DOMAIN m = DOMAIN block.read \cup {k} /\ m[k] = db[k]
        /\ \A x \in DOMAIN block.read \ {k} : m[x] = block.read[x]
    <3>1. PICK o \in MapsOf(Values), v \in Values : o = block.read /\ v = db[k]
      BY <2>2, PartFacts
    <3>2. /\ Put(o, k, v) \in MapsOf(Values) /\ DOMAIN Put(o, k, v) = DOMAIN o \cup {k}
          /\ Put(o, k, v)[k] = v /\ \A x \in DOMAIN o \ {k} : Put(o, k, v)[x] = o[x]
      BY ValuesPut
    <3> QED BY <3>1, <3>2
  <2> HIDE DEF m
  <2>4. block' = [update |-> block.update, delete |-> block.delete, read |-> m]
    <3>1. block \in BlockRecords
      BY TypeFacts
    <3> QED BY <2>1, <3>1 DEF BlockRecords, m
  <2>5. block' \in BlockRecords
    BY <2>3, <2>4, PartFacts DEF BlockRecords
  <2> QED BY <2>1, <2>3, <2>4, <2>5
<1> QED BY <1>1, <1>2

\* What the log of old values becomes.
LEMMA OldFacts ==
    ASSUME TypeInv, NEW k \in Keys
    PROVE  /\ OldLogged(k) \in MapsOf(Values \cup {NoVal})
           /\ DOMAIN OldLogged(k) = DOMAIN log.get \cup {k}
           /\ \A x \in DOMAIN log.get : OldLogged(k)[x] = log.get[x]
           /\ k \notin DOMAIN log.get => OldLogged(k)[k] = TxValue(k)
<1>1. /\ Put(log.get, k, TxValue(k)) \in MapsOf(Values \cup {NoVal})
      /\ DOMAIN Put(log.get, k, TxValue(k)) = DOMAIN log.get \cup {k}
      /\ Put(log.get, k, TxValue(k))[k] = TxValue(k)
      /\ \A x \in DOMAIN log.get \ {k} : Put(log.get, k, TxValue(k))[x] = log.get[x]
  <2> DEFINE V == Values \cup {NoVal}
  <2>1. PICK o \in MapsOf(V), v \in V : o = log.get /\ v = TxValue(k)
    BY PartFacts, ValueType
  <2> HIDE DEF V
  <2>2. /\ Put(o, k, v) \in MapsOf(V) /\ DOMAIN Put(o, k, v) = DOMAIN o \cup {k}
        /\ Put(o, k, v)[k] = v /\ \A x \in DOMAIN o \ {k} : Put(o, k, v)[x] = o[x]
    BY PutFacts
  <2> QED BY <2>1, <2>2 DEF V
<1>2. CASE k \in DOMAIN log.get
  BY <1>2, PartFacts DEF OldLogged
<1>3. CASE k \notin DOMAIN log.get
  BY <1>1, <1>3 DEF OldLogged
<1> QED BY <1>2, <1>3

\* A call counts.
LEMMA CallType ==
    ASSUME TypeInv, MayCall, ops' = ops + 1
    PROVE  ops' \in 0 .. MaxOps /\ ops' # 0
<1>1. MaxOps \in Nat /\ ops \in 0 .. MaxOps /\ ops < MaxOps
  BY TypeFacts, ContractAssumption DEF ContractAssumption, MayCall
<1> QED BY <1>1

\* What each API call does to the log and the overlay of the transaction.
LEMMA GetFacts ==
    ASSUME TypeInv, NEW k \in Keys, GetVal(k)
    PROVE  /\ log' \in Results /\ log'.set = log.set /\ log'.del = log.del
           /\ DOMAIN log'.get = DOMAIN log.get \cup {k} /\ log'.get[k] = TxValue(k)
           /\ \A x \in DOMAIN log.get \ {k} : log'.get[x] = log.get[x]
           /\ block' \in {block, ReadCached(k)} /\ ops' \in 0 .. MaxOps /\ ops' # 0
           /\ stale' = stale \cup (IF Touches(log, k) THEN {k} ELSE {})
           /\ UNCHANGED <<db, tx, results, chain, serial, own, leaked>>
<1> DEFINE V == Values \cup {NoVal}
<1>1. PICK o \in MapsOf(V), v \in V : o = log.get /\ v = TxValue(k)
  BY PartFacts, ValueType
<1>2. /\ Put(o, k, v) \in MapsOf(V) /\ DOMAIN Put(o, k, v) = DOMAIN o \cup {k}
      /\ Put(o, k, v)[k] = v /\ \A x \in DOMAIN o \ {k} : Put(o, k, v)[x] = o[x]
  <2> HIDE DEF V
  <2> QED BY PutFacts
<1>3. PICK g : g = Put(o, k, v)
  OBVIOUS
<1>4. log' = [get |-> g, set |-> log.set, del |-> log.del]
  <2>1. log' = [log EXCEPT !.get = g]
    BY <1>1, <1>3 DEF GetVal
  <2> QED BY <2>1, PartFacts
<1>5. log' \in Results
  BY <1>2, <1>3, <1>4, PartFacts DEF Results
<1>6. ops' \in 0 .. MaxOps /\ ops' # 0
  BY CallType DEF GetVal
<1>7. /\ log'.get = g /\ log'.set = log.set /\ log'.del = log.del
  BY <1>4
<1> QED BY <1>1, <1>2, <1>3, <1>5, <1>6, <1>7 DEF GetVal

LEMMA SetFacts ==
    ASSUME TypeInv, NEW k \in Keys, NEW v \in Values, SetVal(k, v)
    PROVE  /\ log' \in Results /\ tx' \in TxRecords
           /\ log'.get = OldLogged(k)
           /\ DOMAIN log'.set = DOMAIN log.set \cup {k} /\ log'.set[k] = v
           /\ \A x \in DOMAIN log.set \ {k} : log'.set[x] = log.set[x]
           /\ DOMAIN log'.del = DOMAIN log.del \ {k}
           /\ \A x \in DOMAIN log.del \ {k} : log'.del[x] = log.del[x]
           /\ DOMAIN tx'.update = DOMAIN tx.update \cup {k} /\ tx'.update[k] = v
           /\ \A x \in DOMAIN tx.update \ {k} : tx'.update[x] = tx.update[x]
           /\ tx'.delete = tx.delete \ {k}
           /\ tx.update = log.set => tx'.update = log'.set
           /\ block' \in {block, ReadCached(k)} /\ ops' \in 0 .. MaxOps /\ ops' # 0
           /\ own' = [own EXCEPT ![k] = v]
           /\ UNCHANGED <<db, results, chain, serial, leaked, stale>>
<1> DEFINE V == Values \cup {NoVal}
<1>1. PICK s \in MapsOf(Values), u \in MapsOf(Values), d \in MapsOf(V) :
          s = log.set /\ u = tx.update /\ d = log.del
  BY PartFacts
<1>2. /\ Put(s, k, v) \in MapsOf(Values) /\ DOMAIN Put(s, k, v) = DOMAIN s \cup {k}
      /\ Put(s, k, v)[k] = v /\ \A x \in DOMAIN s \ {k} : Put(s, k, v)[x] = s[x]
  BY ValuesPut
<1>3. /\ Put(u, k, v) \in MapsOf(Values) /\ DOMAIN Put(u, k, v) = DOMAIN u \cup {k}
      /\ Put(u, k, v)[k] = v /\ \A x \in DOMAIN u \ {k} : Put(u, k, v)[x] = u[x]
  BY ValuesPut
<1>4. /\ Remove(d, k) \in MapsOf(V) /\ DOMAIN Remove(d, k) = DOMAIN d \ {k}
      /\ \A x \in DOMAIN d \ {k} : Remove(d, k)[x] = d[x]
  <2> HIDE DEF V
  <2> QED BY RemoveFacts
<1>5. PICK s1, u1, d1, g1 : /\ s1 = Put(s, k, v) /\ u1 = Put(u, k, v) /\ d1 = Remove(d, k)
                            /\ g1 = OldLogged(k)
  OBVIOUS
<1>6. log' = [get |-> g1, set |-> s1, del |-> d1]
  BY <1>1, <1>5 DEF SetVal
<1>7. tx' = [update |-> u1, delete |-> tx.delete \ {k}]
  <2>1. tx' = [tx EXCEPT !.update = u1, !.delete = tx.delete \ {k}]
    BY <1>1, <1>5 DEF SetVal, PutIn
  <2>2. tx \in TxRecords
    BY TypeFacts
  <2> QED BY <2>1, <2>2 DEF TxRecords
<1>8. g1 \in MapsOf(V) /\ s1 \in MapsOf(Values) /\ d1 \in MapsOf(V) /\ u1 \in MapsOf(Values)
  BY <1>2, <1>3, <1>4, <1>5, OldFacts
<1>9. log' \in Results /\ tx' \in TxRecords
  BY <1>6, <1>7, <1>8, PartFacts DEF Results, TxRecords
<1>10. ops' \in 0 .. MaxOps /\ ops' # 0
  BY CallType DEF SetVal
<1>11. /\ log'.get = g1 /\ log'.set = s1 /\ log'.del = d1
       /\ tx'.update = u1 /\ tx'.delete = tx.delete \ {k}
  BY <1>6, <1>7
<1>12. /\ block' \in {block, ReadCached(k)} /\ own' = [own EXCEPT ![k] = v]
       /\ UNCHANGED <<db, results, chain, serial, leaked, stale>>
  BY DEF SetVal
<1> QED BY <1>1, <1>2, <1>3, <1>4, <1>5, <1>9, <1>10, <1>11, <1>12

LEMMA DelFacts ==
    ASSUME TypeInv, NEW k \in Keys, DelVal(k)
    PROVE  /\ log' \in Results /\ tx' \in TxRecords
           /\ log'.get = OldLogged(k)
           /\ DOMAIN log'.set = DOMAIN log.set \ {k}
           /\ \A x \in DOMAIN log.set \ {k} : log'.set[x] = log.set[x]
           /\ DOMAIN log'.del = DOMAIN log.del \cup {k} /\ log'.del[k] = OldLogged(k)[k]
           /\ \A x \in DOMAIN log.del \ {k} : log'.del[x] = log.del[x]
           /\ DOMAIN tx'.update = DOMAIN tx.update \ {k}
           /\ \A x \in DOMAIN tx.update \ {k} : tx'.update[x] = tx.update[x]
           /\ tx'.delete = tx.delete \cup {k}
           /\ tx.update = log.set => tx'.update = log'.set
           /\ block' \in {block, ReadCached(k)} /\ ops' \in 0 .. MaxOps /\ ops' # 0
           /\ own' = [own EXCEPT ![k] = NoVal]
           /\ UNCHANGED <<db, results, chain, serial, leaked, stale>>
<1> DEFINE V == Values \cup {NoVal}
<1>1. PICK s \in MapsOf(Values), u \in MapsOf(Values), d \in MapsOf(V), g \in MapsOf(V) :
          s = log.set /\ u = tx.update /\ d = log.del /\ g = OldLogged(k)
  BY PartFacts, OldFacts
<1>2. k \in DOMAIN log.set => log.get = OldLogged(k)
  BY PartFacts DEF OldLogged
<1>3. PICK o \in V : o = g[k]
  <2>1. k \in DOMAIN g
    BY <1>1, OldFacts
  <2>2. \A m \in MapsOf(V) : \A x \in DOMAIN m : m[x] \in V
    BY DEF MapsOf
  <2> HIDE DEF V
  <2> QED BY <2>1, <2>2
<1>4. /\ Put(d, k, o) \in MapsOf(V) /\ DOMAIN Put(d, k, o) = DOMAIN d \cup {k}
      /\ Put(d, k, o)[k] = o /\ \A x \in DOMAIN d \ {k} : Put(d, k, o)[x] = d[x]
  <2> HIDE DEF V
  <2> QED BY PutFacts
<1>5. /\ Remove(s, k) \in MapsOf(Values) /\ DOMAIN Remove(s, k) = DOMAIN s \ {k}
      /\ \A x \in DOMAIN s \ {k} : Remove(s, k)[x] = s[x]
  BY RemoveFacts
<1>6. /\ Remove(u, k) \in MapsOf(Values) /\ DOMAIN Remove(u, k) = DOMAIN u \ {k}
      /\ \A x \in DOMAIN u \ {k} : Remove(u, k)[x] = u[x]
  BY RemoveFacts
<1>7. PICK s1, u1, d1 : s1 = Remove(s, k) /\ u1 = Remove(u, k) /\ d1 = Put(d, k, o)
  OBVIOUS
<1>8. log' = [get |-> g, set |-> s1, del |-> d1]
  BY <1>1, <1>2, <1>3, <1>7 DEF DelVal
<1>9. tx' = [update |-> u1, delete |-> tx.delete \cup {k}]
  <2>1. tx' = [tx EXCEPT !.update = u1, !.delete = tx.delete \cup {k}]
    BY <1>1, <1>7 DEF DelVal, DelIn
  <2>2. tx \in TxRecords
    BY TypeFacts
  <2> QED BY <2>1, <2>2 DEF TxRecords
<1>10. log' \in Results /\ tx' \in TxRecords
  BY <1>4, <1>5, <1>6, <1>7, <1>8, <1>9, PartFacts DEF Results, TxRecords
<1>11. ops' \in 0 .. MaxOps /\ ops' # 0
  BY CallType DEF DelVal
<1>12. /\ log'.get = g /\ log'.set = s1 /\ log'.del = d1
       /\ tx'.update = u1 /\ tx'.delete = tx.delete \cup {k}
  BY <1>8, <1>9
<1>13. /\ block' \in {block, ReadCached(k)} /\ own' = [own EXCEPT ![k] = NoVal]
       /\ UNCHANGED <<db, results, chain, serial, leaked, stale>>
  BY DEF DelVal
<1> QED BY <1>1, <1>3, <1>4, <1>5, <1>6, <1>7, <1>10, <1>11, <1>12, <1>13

\* The overlay of the block after a commit.
LEMMA CommittedFacts ==
    ASSUME TypeInv
    PROVE  LET b == Committed(block, tx)
           IN  /\ b \in BlockRecords /\ b.read = block.read
               /\ DOMAIN b.update = (DOMAIN block.update \cup DOMAIN tx.update) \ tx.delete
               /\ \A x \in DOMAIN b.update :
                     b.update[x] = IF x \in DOMAIN tx.update THEN tx.update[x]
                                   ELSE block.update[x]
               /\ b.delete = (block.delete \ DOMAIN tx.update) \cup tx.delete
<1> DEFINE D == (DOMAIN block.update \cup DOMAIN tx.update) \ tx.delete
           m == [x \in D |-> IF x \in DOMAIN tx.update THEN tx.update[x] ELSE block.update[x]]
           e == (block.delete \ DOMAIN tx.update) \cup tx.delete
<1>1. block \in BlockRecords /\ D \subseteq Keys /\ e \subseteq Keys
  BY TypeFacts, PartFacts
<1>2. m \in MapsOf(Values)
  <2>1. \A x \in D : m[x] \in Values
    <3>1. \A o \in MapsOf(Values) : \A x \in DOMAIN o : o[x] \in Values
      BY DEF MapsOf
    <3> QED BY <3>1, PartFacts
  <2>2. m \in [D -> Values]
    BY <2>1
  <2> HIDE DEF m, D
  <2> QED BY <1>1, <2>2, MapsOfMember
<1>3. Committed(block, tx) = [block EXCEPT !.update = m, !.delete = e]
  BY DEF Committed
<1>4. DOMAIN m = D /\ \A x \in D : m[x] = IF x \in DOMAIN tx.update THEN tx.update[x]
                                         ELSE block.update[x]
  OBVIOUS
<1> HIDE DEF m, e
<1>5. Committed(block, tx) = [update |-> m, delete |-> e, read |-> block.read]
  BY <1>1, <1>3 DEF BlockRecords
<1>6. [update |-> m, delete |-> e, read |-> block.read] \in BlockRecords
  BY <1>1, <1>2, PartFacts DEF BlockRecords
<1> QED BY <1>4, <1>5, <1>6 DEF e

-----------------------------------------------------------------------------
(* What has been written, and what it says.                                 *)

TypeParts ==
    /\ db \in States /\ serial \in States /\ own \in States
    /\ tx \in TxRecords /\ block \in BlockRecords /\ log \in Results
    /\ results \in Seq(Results) /\ Len(results) <= MaxTxs
    /\ ops \in 0 .. MaxOps /\ chain \in Seq(ChainRecords)
    /\ DOMAIN log.set \cup DOMAIN log.del \subseteq DOMAIN log.get
    /\ leaked \subseteq Keys /\ stale \subseteq Keys

LEMMA TypeOfParts == TypeInv <=> TypeParts
BY TypeFacts DEF TypeParts

\* What the three API calls have in common.
Called(k) ==
    /\ block' \in {block, ReadCached(k)} /\ stale \subseteq stale'
    /\ UNCHANGED <<db, results, chain, serial, leaked>>

\* Every step is an API call, the end of a transaction, or of a block.
LEMMA NextCases ==
    ASSUME [Next]_vars
    PROVE  \/ \E k \in Keys : GetVal(k) \/ DelVal(k) \/ \E v \in Values : SetVal(k, v)
           \/ Succeed \/ Throw \/ ReturnError \/ SaveBlock \/ RollbackBlock
           \/ UNCHANGED vars
BY DEF Next

\* An API call leaves the value that the block has for any key.
LEMMA BlockValueKept ==
    ASSUME TypeInv, CacheInv, NEW x \in Keys, block' \in {block, ReadCached(x)}, db' = db,
           NEW k \in Keys
    PROVE  BlockValue(k)' = BlockValue(k)
<1>1. /\ block'.update = block.update /\ block'.delete = block.delete
      /\ \A y \in DOMAIN block.read :
             y \in DOMAIN block'.read /\ block'.read[y] = block.read[y]
      /\ \A y \in DOMAIN block'.read \ DOMAIN block.read : block'.read[y] = db[y]
  BY ReadFacts
<1>2. \A y \in DOMAIN block.read : block.read[y] = db[y]
  BY DEF CacheInv
<1> QED BY <1>1, <1>2 DEF BlockValue

\* The overlay of the transaction over a value.
LEMMA ChangedFacts == \A k \in Keys : TxValue(k) = Changed(BlockValue(k), k)
BY DEF TxValue, Changed

\* After a commit the block has the values that the transaction saw.
LEMMA CommitValue ==
    ASSUME TypeInv, block' = Committed(block, tx), db' = db, NEW k \in Keys
    PROVE  BlockValue(k)' = TxValue(k)
<1> DEFINE b == Committed(block, tx)
<1>1. /\ b.read = block.read
      /\ DOMAIN b.update = (DOMAIN block.update \cup DOMAIN tx.update) \ tx.delete
      /\ \A x \in DOMAIN b.update :
            b.update[x] = IF x \in DOMAIN tx.update THEN tx.update[x] ELSE block.update[x]
      /\ b.delete = (block.delete \ DOMAIN tx.update) \cup tx.delete
  BY CommittedFacts
<1>2. block' = b
  OBVIOUS
<1> HIDE DEF b
<1> QED BY <1>1, <1>2 DEF BlockValue, TxValue

-----------------------------------------------------------------------------
(* Types.                                                                   *)

LEMMA TypeInit == Init => TypeInv
<1> SUFFICES ASSUME Init PROVE TypeParts
  BY TypeOfParts
<1>1. NoOverlay \in TxRecords /\ NoPreload \in BlockRecords
  <2>1. NoMap \in MapsOf(Values)
    BY EmptyFacts
  <2> QED BY <2>1 DEF TxRecords, BlockRecords, NoOverlay, NoPreload
<1>2. <<>> \in Seq(Results) /\ <<>> \in Seq(ChainRecords) /\ Len(<<>>) = 0
  OBVIOUS
<1>3. 0 \in 0 .. MaxOps /\ 0 <= MaxTxs
  BY ContractAssumption DEF ContractAssumption
<1>4. NoLog \in Results /\ NoLog.set = NoMap /\ NoLog.del = NoMap /\ DOMAIN NoMap = {}
  BY EmptyFacts
<1> QED BY <1>1, <1>2, <1>3, <1>4 DEF Init, TypeParts

\* The types after the end of a transaction.
LEMMA EndType ==
    ASSUME TypeInv, NEW r \in Results, NEW b \in BlockRecords, NEW s \in States,
           NEW l \in SUBSET Keys, EndTx(r, b, s, l)
    PROVE  TypeInv'
<1>1. TypeParts
  BY TypeOfParts
<1>2. Append(results, r) \in Seq(Results) /\ Len(Append(results, r)) = Len(results) + 1
  BY <1>1 DEF TypeParts
<1>3. Len(results') <= MaxTxs
  <2>1. PICK n \in Nat : n = Len(results)
    BY <1>1 DEF TypeParts
  <2>2. PICK m \in Nat : m = MaxTxs
    BY ContractAssumption DEF ContractAssumption
  <2>3. n + 1 <= m
    BY <2>1, <2>2 DEF EndTx
  <2> QED BY <1>2, <2>1, <2>2, <2>3 DEF EndTx
<1>4. NoOverlay \in TxRecords
  <2>1. NoMap \in MapsOf(Values)
    BY EmptyFacts
  <2> QED BY <2>1 DEF TxRecords, NoOverlay
<1>5. NoLog \in Results /\ NoLog.set = NoMap /\ NoLog.del = NoMap /\ DOMAIN NoMap = {}
  BY EmptyFacts
<1>6. 0 \in 0 .. MaxOps
  BY ContractAssumption DEF ContractAssumption
<1>7. TypeParts'
  BY <1>1, <1>2, <1>3, <1>4, <1>5, <1>6 DEF TypeParts, EndTx
<1>8. TypeInv' <=> TypeParts'
  BY TypeOfParts, PTL
<1> QED BY <1>7, <1>8

\* What each end of a transaction is.
LEMMA EndCases ==
    ASSUME TypeInv, Succeed \/ Throw \/ ReturnError
    PROVE  /\ \E r \in Results : \E b \in BlockRecords : \E s \in States : \E l \in SUBSET Keys :
                  EndTx(r, b, s, l)
           /\ tx' = NoOverlay /\ log' = NoLog /\ ops' = 0
           /\ own' = serial' /\ UNCHANGED <<db, chain, stale>>
<1>1. log \in Results /\ FailedResult \in Results
  BY TypeFacts, EmptyFacts DEF NoLog
<1>2. block \in BlockRecords /\ Committed(block, tx) \in BlockRecords
  BY TypeFacts, CommittedFacts
<1>3. own \in States /\ serial \in States
  BY TypeFacts
<1>4. {} \in SUBSET Keys /\ DOMAIN tx.update \cup tx.delete \in SUBSET Keys
  BY PartFacts
<1>5. \E r \in Results : \E b \in BlockRecords : \E s \in States : \E l \in SUBSET Keys :
          EndTx(r, b, s, l)
  <2>1. CASE Succeed
    BY <1>1, <1>2, <1>3, <1>4, <2>1 DEF Succeed
  <2>2. CASE Throw
    BY <1>1, <1>2, <1>3, <1>4, <2>2 DEF Throw
  <2>3. CASE ReturnError
    BY <1>1, <1>2, <1>3, <1>4, <2>3 DEF ReturnError
  <2> QED BY <2>1, <2>2, <2>3
<1> QED BY <1>5 DEF EndTx

LEMMA TypeNext ==
    ASSUME TypeInv, [Next]_vars
    PROVE  TypeInv'
<1>0. TypeParts /\ (TypeInv' <=> TypeParts')
  <2>1. TypeParts
    BY TypeOfParts
  <2>2. TypeInv' <=> TypeParts'
    BY TypeOfParts, PTL
  <2> QED BY <2>1, <2>2
<1>1. ASSUME NEW k \in Keys, GetVal(k) PROVE TypeParts'
  <2>1. /\ log' \in Results /\ log'.set = log.set /\ log'.del = log.del
        /\ DOMAIN log'.get = DOMAIN log.get \cup {k}
        /\ block' \in {block, ReadCached(k)} /\ ops' \in 0 .. MaxOps
        /\ stale' = stale \cup (IF Touches(log, k) THEN {k} ELSE {})
        /\ UNCHANGED <<db, tx, results, chain, serial, own, leaked>>
    BY <1>1, GetFacts
  <2>2. block' \in BlockRecords
    BY <2>1, ReadFacts
  <2> QED BY <1>0, <2>1, <2>2 DEF TypeParts
<1>2. ASSUME NEW k \in Keys, NEW v \in Values, SetVal(k, v) PROVE TypeParts'
  <2>1. /\ log' \in Results /\ tx' \in TxRecords
        /\ log'.get = OldLogged(k)
        /\ DOMAIN log'.set = DOMAIN log.set \cup {k}
        /\ DOMAIN log'.del = DOMAIN log.del \ {k}
        /\ block' \in {block, ReadCached(k)} /\ ops' \in 0 .. MaxOps
        /\ own' = [own EXCEPT ![k] = v]
        /\ UNCHANGED <<db, results, chain, serial, leaked, stale>>
    BY <1>2, SetFacts
  <2>2. block' \in BlockRecords /\ DOMAIN log'.get = DOMAIN log.get \cup {k}
    BY <2>1, ReadFacts, OldFacts
  <2>3. own' \in States
    BY <1>0, <2>1 DEF TypeParts, States
  <2> QED BY <1>0, <2>1, <2>2, <2>3 DEF TypeParts
<1>3. ASSUME NEW k \in Keys, DelVal(k) PROVE TypeParts'
  <2>1. /\ log' \in Results /\ tx' \in TxRecords
        /\ log'.get = OldLogged(k)
        /\ DOMAIN log'.set = DOMAIN log.set \ {k}
        /\ DOMAIN log'.del = DOMAIN log.del \cup {k}
        /\ block' \in {block, ReadCached(k)} /\ ops' \in 0 .. MaxOps
        /\ own' = [own EXCEPT ![k] = NoVal]
        /\ UNCHANGED <<db, results, chain, serial, leaked, stale>>
    BY <1>3, DelFacts
  <2>2. block' \in BlockRecords /\ DOMAIN log'.get = DOMAIN log.get \cup {k}
    BY <2>1, ReadFacts, OldFacts
  <2>3. own' \in States
    BY <1>0, <2>1 DEF TypeParts, States
  <2> QED BY <1>0, <2>1, <2>2, <2>3 DEF TypeParts
<1>4. CASE Succeed \/ Throw \/ ReturnError
  BY <1>4, EndCases, EndType
<1>5. CASE SaveBlock
  <2>1. SavedState(db, results) \in States
    BY <1>0, SavedStateType DEF TypeParts
  <2>2. [results |-> results, before |-> db, unsure |-> stale \cup leaked] \in ChainRecords
    BY <1>0 DEF TypeParts, ChainRecords
  <2>3. chain' \in Seq(ChainRecords)
    <3>1. PICK c \in ChainRecords :
              c = [results |-> results, before |-> db, unsure |-> stale \cup leaked]
      BY <2>2
    <3>2. chain' = Append(chain, c)
      BY <1>5, <3>1 DEF SaveBlock
    <3> QED BY <1>0, <3>2 DEF TypeParts
  <2>4. NoPreload \in BlockRecords
    <3>1. NoMap \in MapsOf(Values)
      BY EmptyFacts
    <3> QED BY <3>1 DEF BlockRecords, NoPreload
  <2>5. <<>> \in Seq(Results) /\ Len(<<>>) = 0 /\ 0 <= MaxTxs
    BY ContractAssumption DEF ContractAssumption
  <2> QED BY <1>0, <1>5, <2>1, <2>3, <2>4, <2>5 DEF TypeParts, SaveBlock
<1>6. CASE RollbackBlock
  <2>1. PICK c \in ChainRecords : c = chain[Len(chain)]
    <3>1. Len(chain) \in DOMAIN chain
      BY <1>0, <1>6 DEF TypeParts, RollbackBlock
    <3> QED BY <1>0, <3>1 DEF TypeParts
  <2>2. RolledBackState(db, c.results) \in States
    BY <1>0, <2>1, RolledBackStateType DEF TypeParts, ChainRecords
  <2>3. chain' \in Seq(ChainRecords)
    <3>1. Len(chain) - 1 <= Len(chain) /\ chain # <<>>
      BY <1>0, <1>6 DEF TypeParts, RollbackBlock
    <3> QED BY <1>0, <1>6, <3>1 DEF TypeParts, RollbackBlock
  <2>4. NoPreload \in BlockRecords
    <3>1. NoMap \in MapsOf(Values)
      BY EmptyFacts
    <3> QED BY <3>1 DEF BlockRecords, NoPreload
  <2>5. /\ db' = RolledBackState(db, c.results) /\ serial' = db' /\ own' = db'
        /\ block' = NoPreload /\ UNCHANGED <<tx, log, results, ops, leaked, stale>>
    BY <1>6, <2>1 DEF RollbackBlock
  <2> QED BY <1>0, <2>2, <2>3, <2>4, <2>5 DEF TypeParts
<1>7. CASE UNCHANGED vars
  BY <1>0, <1>7 DEF TypeParts, vars
<1> QED BY <1>0, <1>1, <1>2, <1>3, <1>4, <1>5, <1>6, <1>7, NextCases

-----------------------------------------------------------------------------
(* The overlays and the log.                                                *)

LEMMA OverlayNext ==
    ASSUME TypeInv, OverlayInv, [Next]_vars
    PROVE  OverlayInv'
<1>0. /\ tx.update = log.set /\ tx.delete = DOMAIN log.del
      /\ ops = 0 => tx = NoOverlay /\ log = NoLog
  BY DEF OverlayInv
<1>1. ASSUME NEW k \in Keys, GetVal(k) PROVE OverlayInv'
  <2>1. /\ log'.set = log.set /\ log'.del = log.del /\ ops' # 0 /\ tx' = tx
    BY <1>1, GetFacts
  <2> QED BY <1>0, <2>1 DEF OverlayInv
<1>2. ASSUME NEW k \in Keys, NEW v \in Values, SetVal(k, v) PROVE OverlayInv'
  <2>1. /\ DOMAIN log'.del = DOMAIN log.del \ {k} /\ tx'.delete = tx.delete \ {k}
        /\ tx.update = log.set => tx'.update = log'.set
        /\ ops' # 0
    BY <1>2, SetFacts
  <2> QED BY <1>0, <2>1 DEF OverlayInv
<1>3. ASSUME NEW k \in Keys, DelVal(k) PROVE OverlayInv'
  <2>1. /\ DOMAIN log'.del = DOMAIN log.del \cup {k} /\ tx'.delete = tx.delete \cup {k}
        /\ tx.update = log.set => tx'.update = log'.set
        /\ ops' # 0
    BY <1>3, DelFacts
  <2> QED BY <1>0, <2>1 DEF OverlayInv
<1>4. CASE Succeed \/ Throw \/ ReturnError
  BY <1>4, EndCases, EmptyFacts DEF OverlayInv
<1>5. CASE SaveBlock \/ RollbackBlock
  BY <1>0, <1>5 DEF OverlayInv, SaveBlock, RollbackBlock
<1>6. CASE UNCHANGED vars
  BY <1>0, <1>6 DEF OverlayInv, vars
<1> QED BY <1>1, <1>2, <1>3, <1>4, <1>5, <1>6, NextCases

\* An API call reads through the cache.
LEMMA CallCases ==
    ASSUME TypeInv, NEW k \in Keys, GetVal(k) \/ DelVal(k) \/ \E v \in Values : SetVal(k, v)
    PROVE  Called(k)
<1>1. CASE GetVal(k)
  BY <1>1 DEF GetVal, Called
<1>2. CASE DelVal(k)
  BY <1>2 DEF DelVal, Called
<1>3. ASSUME NEW v \in Values, SetVal(k, v) PROVE Called(k)
  BY <1>3 DEF SetVal, Called
<1> QED BY <1>1, <1>2, <1>3

LEMMA CacheNext ==
    ASSUME TypeInv, CacheInv, [Next]_vars
    PROVE  CacheInv'
<1>1. ASSUME NEW k \in Keys, GetVal(k) \/ DelVal(k) \/ \E v \in Values : SetVal(k, v)
      PROVE  CacheInv'
  <2>1. block' \in {block, ReadCached(k)} /\ db' = db
    BY <1>1, CallCases DEF Called
  <2>2. /\ \A x \in DOMAIN block.read : block'.read[x] = block.read[x]
        /\ \A x \in DOMAIN block'.read \ DOMAIN block.read : block'.read[x] = db[x]
    BY <2>1, ReadFacts
  <2> QED BY <2>1, <2>2 DEF CacheInv
<1>2. CASE Succeed \/ Throw \/ ReturnError
  <2>1. db' = db /\ block' \in {block, Committed(block, tx)}
    BY <1>2 DEF EndTx, Succeed, Throw, ReturnError
  <2>2. block'.read = block.read
    BY <2>1, CommittedFacts
  <2> QED BY <2>1, <2>2 DEF CacheInv
<1>3. CASE SaveBlock \/ RollbackBlock
  <2>1. block' = NoPreload
    BY <1>3 DEF SaveBlock, RollbackBlock
  <2> QED BY <2>1, EmptyFacts DEF CacheInv
<1>4. CASE UNCHANGED vars
  BY <1>4 DEF CacheInv, vars
<1> QED BY <1>1, <1>2, <1>3, <1>4, NextCases

LEMMA OwnNext ==
    ASSUME TypeInv, OverlayInv, OwnInv, [Next]_vars
    PROVE  OwnInv'
<1>1. ASSUME NEW k \in Keys, GetVal(k) PROVE OwnInv'
  BY <1>1 DEF OwnInv, GetVal, Changed
<1>2. ASSUME NEW k \in Keys, NEW v \in Values, SetVal(k, v) PROVE OwnInv'
  <2>1. /\ DOMAIN tx'.update = DOMAIN tx.update \cup {k} /\ tx'.update[k] = v
        /\ \A x \in DOMAIN tx.update \ {k} : tx'.update[x] = tx.update[x]
        /\ tx'.delete = tx.delete \ {k}
        /\ own' = [own EXCEPT ![k] = v] /\ serial' = serial
    BY <1>2, SetFacts
  <2>2. own \in States
    BY TypeFacts
  <2> QED BY <2>1, <2>2 DEF OwnInv, Changed, States
<1>3. ASSUME NEW k \in Keys, DelVal(k) PROVE OwnInv'
  <2>1. /\ DOMAIN tx'.update = DOMAIN tx.update \ {k}
        /\ \A x \in DOMAIN tx.update \ {k} : tx'.update[x] = tx.update[x]
        /\ tx'.delete = tx.delete \cup {k}
        /\ own' = [own EXCEPT ![k] = NoVal] /\ serial' = serial
    BY <1>3, DelFacts
  <2>2. own \in States
    BY TypeFacts
  <2> QED BY <2>1, <2>2 DEF OwnInv, Changed, States
<1>4. CASE Succeed \/ Throw \/ ReturnError
  BY <1>4, EndCases, EmptyFacts DEF OwnInv, Changed
<1>5. CASE SaveBlock \/ RollbackBlock
  <2>1. tx' = NoOverlay /\ own' = serial'
    BY <1>5 DEF SaveBlock, RollbackBlock, OverlayInv
  <2> QED BY <2>1, EmptyFacts DEF OwnInv, Changed
<1>6. CASE UNCHANGED vars
  BY <1>6 DEF OwnInv, vars, Changed
<1> QED BY <1>1, <1>2, <1>3, <1>4, <1>5, <1>6, NextCases

LEMMA BlockNext ==
    ASSUME TypeInv, CacheInv, OwnInv, BlockInv, [Next]_vars
    PROVE  BlockInv'
<1>1. ASSUME NEW k \in Keys, GetVal(k) \/ DelVal(k) \/ \E v \in Values : SetVal(k, v)
      PROVE  BlockInv'
  <2>1. /\ block' \in {block, ReadCached(k)} /\ db' = db
        /\ serial' = serial /\ leaked' = leaked
    BY <1>1, CallCases DEF Called
  <2>2. \A x \in Keys : BlockValue(x)' = BlockValue(x)
    BY <2>1, BlockValueKept
  <2> QED BY <2>1, <2>2 DEF BlockInv
<1>2. CASE Succeed
  <2>1. /\ block' = Committed(block, tx) /\ db' = db
        /\ serial' = own /\ leaked' = leaked
    BY <1>2 DEF Succeed, EndTx
  <2>2. \A x \in Keys : BlockValue(x)' = TxValue(x)
    BY <2>1, CommitValue
  <2>3. \A x \in Keys \ leaked : TxValue(x) = own[x]
    BY ChangedFacts DEF OwnInv, BlockInv
  <2> QED BY <2>1, <2>2, <2>3 DEF BlockInv
<1>3. CASE Throw
  BY <1>3 DEF Throw, EndTx, BlockInv, BlockValue
<1>4. CASE ReturnError
  <2>1. /\ block' = Committed(block, tx) /\ db' = db
        /\ serial' = serial /\ leaked' = leaked \cup (DOMAIN tx.update \cup tx.delete)
    BY <1>4 DEF ReturnError, EndTx
  <2>2. \A x \in Keys : BlockValue(x)' = TxValue(x)
    BY <2>1, CommitValue
  <2>3. \A x \in Keys \ (DOMAIN tx.update \cup tx.delete) : TxValue(x) = BlockValue(x)
    BY DEF TxValue
  <2> QED BY <2>1, <2>2, <2>3 DEF BlockInv
<1>5. CASE SaveBlock \/ RollbackBlock
  <2>1. block' = NoPreload /\ serial' = db'
    BY <1>5 DEF SaveBlock, RollbackBlock
  <2> QED BY <2>1, EmptyFacts DEF BlockInv, BlockValue
<1>6. CASE UNCHANGED vars
  BY <1>6 DEF BlockInv, BlockValue, vars
<1> QED BY <1>1, <1>2, <1>3, <1>4, <1>5, <1>6, NextCases

\* A key that is not in the log yet is read with the value that the block has.
LEMMA FirstRead ==
    ASSUME TypeInv, OverlayInv, NEW k \in Keys, ~Touches(log, k)
    PROVE  TxValue(k) = BlockValue(k)
BY DEF OverlayInv, Touches, TxValue

LEMMA UnloggedUntouched ==
    ASSUME TypeInv, NEW k \in Keys, k \notin DOMAIN log.get
    PROVE  ~Touches(log, k)
BY PartFacts DEF Touches

LEMMA LoggedNext ==
    ASSUME TypeInv, OverlayInv, CacheInv, LoggedInv, [Next]_vars
    PROVE  LoggedInv'
<1>0. \A x \in Keys \ stale : /\ x \in DOMAIN log.get => log.get[x] = BlockValue(x)
                              /\ x \in DOMAIN log.del => log.del[x] = BlockValue(x)
  BY DEF LoggedInv
<1>1. ASSUME NEW k \in Keys, GetVal(k) PROVE LoggedInv'
  <2>1. /\ log'.del = log.del
        /\ DOMAIN log'.get = DOMAIN log.get \cup {k} /\ log'.get[k] = TxValue(k)
        /\ \A x \in DOMAIN log.get \ {k} : log'.get[x] = log.get[x]
        /\ block' \in {block, ReadCached(k)} /\ db' = db
        /\ stale' = stale \cup (IF Touches(log, k) THEN {k} ELSE {})
    BY <1>1, GetFacts
  <2>2. \A x \in Keys : BlockValue(x)' = BlockValue(x)
    BY <2>1, BlockValueKept
  <2>3. Touches(log, k) \/ TxValue(k) = BlockValue(k)
    BY FirstRead
  <2>4. ASSUME NEW x \in Keys \ stale'
        PROVE  /\ x \in DOMAIN log'.get => log'.get[x] = BlockValue(x)
               /\ x \in DOMAIN log'.del => log'.del[x] = BlockValue(x)
    <3>1. CASE x = k
      BY <1>0, <2>1, <2>3, <3>1
    <3>2. CASE x # k
      BY <1>0, <2>1, <3>2
    <3> QED BY <3>1, <3>2
  <2> QED BY <2>2, <2>4 DEF LoggedInv
<1>2. ASSUME NEW k \in Keys, NEW v \in Values, SetVal(k, v) PROVE LoggedInv'
  <2>1. /\ log'.get = OldLogged(k)
        /\ DOMAIN log'.del = DOMAIN log.del \ {k}
        /\ \A x \in DOMAIN log.del \ {k} : log'.del[x] = log.del[x]
        /\ block' \in {block, ReadCached(k)} /\ db' = db /\ stale' = stale
    BY <1>2, SetFacts
  <2>2. \A x \in Keys : BlockValue(x)' = BlockValue(x)
    BY <2>1, BlockValueKept
  <2>3. /\ DOMAIN OldLogged(k) = DOMAIN log.get \cup {k}
        /\ \A x \in DOMAIN log.get : OldLogged(k)[x] = log.get[x]
        /\ k \notin DOMAIN log.get => OldLogged(k)[k] = BlockValue(k)
    BY OldFacts, FirstRead, UnloggedUntouched
  <2> QED BY <1>0, <2>1, <2>2, <2>3 DEF LoggedInv
<1>3. ASSUME NEW k \in Keys, DelVal(k) PROVE LoggedInv'
  <2>1. /\ log'.get = OldLogged(k)
        /\ DOMAIN log'.del = DOMAIN log.del \cup {k} /\ log'.del[k] = OldLogged(k)[k]
        /\ \A x \in DOMAIN log.del \ {k} : log'.del[x] = log.del[x]
        /\ block' \in {block, ReadCached(k)} /\ db' = db /\ stale' = stale
    BY <1>3, DelFacts
  <2>2. \A x \in Keys : BlockValue(x)' = BlockValue(x)
    BY <2>1, BlockValueKept
  <2>3. /\ DOMAIN OldLogged(k) = DOMAIN log.get \cup {k}
        /\ \A x \in DOMAIN log.get : OldLogged(k)[x] = log.get[x]
        /\ k \notin DOMAIN log.get => OldLogged(k)[k] = BlockValue(k)
    BY OldFacts, FirstRead, UnloggedUntouched
  <2>4. ASSUME NEW x \in Keys \ stale'
        PROVE  /\ x \in DOMAIN log'.get => log'.get[x] = BlockValue(x)
               /\ x \in DOMAIN log'.del => log'.del[x] = BlockValue(x)
    <3>1. x \in DOMAIN log'.get => log'.get[x] = BlockValue(x)
      BY <1>0, <2>1, <2>3
    <3>2. k \in DOMAIN log'.get
      BY <2>1, <2>3
    <3> QED BY <1>0, <2>1, <3>1, <3>2
  <2> QED BY <2>2, <2>4 DEF LoggedInv
<1>4. CASE Succeed \/ Throw \/ ReturnError
  BY <1>4, EndCases, EmptyFacts DEF LoggedInv
<1>5. CASE SaveBlock \/ RollbackBlock
  <2>1. log' = NoLog
    BY <1>5 DEF SaveBlock, RollbackBlock, OverlayInv
  <2> QED BY <2>1, EmptyFacts DEF LoggedInv
<1>6. CASE UNCHANGED vars
  BY <1>6 DEF LoggedInv, vars, BlockValue
<1> QED BY <1>1, <1>2, <1>3, <1>4, <1>5, <1>6, NextCases

-----------------------------------------------------------------------------
(* The results and what saving them makes.                                  *)

\* A result appended to those of the block.
LEMMA AppendedResult ==
    ASSUME NEW rs \in Seq(Results), NEW r \in Results
    PROVE  /\ Append(rs, r) \in Seq(Results)
           /\ DOMAIN Append(rs, r) = DOMAIN rs \cup {Len(rs) + 1}
           /\ Len(rs) + 1 \notin DOMAIN rs
           /\ Append(rs, r)[Len(rs) + 1] = r
           /\ \A i \in DOMAIN rs : Append(rs, r)[i] = rs[i] /\ i < Len(rs) + 1
OBVIOUS

LastIn(T) == CHOOSE i \in T : IsLast(i, T)

\* The last of the transactions that set a key, if none deletes it, decides.
LEMMA LastSetter ==
    ASSUME NEW ws \in States, NEW rs \in Seq(Results), NEW k \in Keys,
           NEW n \in DOMAIN rs, k \in DOMAIN rs[n].set,
           \A i \in DOMAIN rs : k \in DOMAIN rs[i].set => i <= n,
           \A i \in DOMAIN rs : k \notin DOMAIN rs[i].del
    PROVE  SavedState(ws, rs)[k] = rs[n].set[k]
<1> DEFINE T == {i \in DOMAIN rs : k \in DOMAIN rs[i].set}
           c == LastIn(T)
<1>1. n \in T /\ T \subseteq DOMAIN rs /\ T # {}
  OBVIOUS
<1>2. c \in T /\ IsLast(c, T)
  <2> HIDE DEF T
  <2> QED BY <1>1, LastOfBlock DEF LastIn
<1>3. c \in DOMAIN rs /\ c <= n /\ n <= c
  <2>1. c \in T /\ \A j \in T : j <= c
    BY <1>2 DEF IsLast
  <2> QED BY <1>1, <2>1
<1>4. c = n
  <2> HIDE DEF c, T
  <2>1. DOMAIN rs \subseteq Nat
    OBVIOUS
  <2>2. c \in Nat /\ n \in Nat
    BY <1>3, <2>1
  <2> QED BY <1>3, <2>2
<1>5. SavedState(ws, rs)[k] = rs[c].set[k]
  BY <1>1 DEF SavedState, LastIn
<1> QED BY <1>4, <1>5

\* Only the transactions that touch a key decide what is saved for it.
LEMMA SavedAppend ==
    ASSUME NEW ws \in States, NEW rs \in Seq(Results), NEW r \in Results, NEW k \in Keys
    PROVE  /\ k \in DOMAIN r.del => SavedState(ws, Append(rs, r))[k] = NoVal
           /\ (/\ k \in DOMAIN r.set /\ k \notin DOMAIN r.del
               /\ \A i \in DOMAIN rs : k \notin DOMAIN rs[i].del)
              => SavedState(ws, Append(rs, r))[k] = r.set[k]
           /\ ~Touches(r, k) => SavedState(ws, Append(rs, r))[k] = SavedState(ws, rs)[k]
<1>1. PICK n, as : n = Len(rs) + 1 /\ as = Append(rs, r)
  OBVIOUS
<1>2. /\ as \in Seq(Results) /\ DOMAIN as = DOMAIN rs \cup {n} /\ as[n] = r
      /\ n \notin DOMAIN rs
      /\ \A i \in DOMAIN rs : as[i] = rs[i] /\ i < n
  BY <1>1, AppendedResult
<1>3. n \in Nat /\ DOMAIN rs \subseteq Nat
  BY <1>1
<1>4. k \in DOMAIN r.del => SavedState(ws, as)[k] = NoVal
  BY <1>2 DEF SavedState
<1>5. ASSUME k \in DOMAIN r.set, k \notin DOMAIN r.del,
             \A i \in DOMAIN rs : k \notin DOMAIN rs[i].del
      PROVE  SavedState(ws, as)[k] = r.set[k]
  <2>1. \A i \in DOMAIN as : k \notin DOMAIN as[i].del
    BY <1>2, <1>5
  <2>2. ASSUME NEW i \in DOMAIN as PROVE i <= n
    <3>1. CASE i = n
      BY <1>3, <3>1
    <3>2. CASE i \in DOMAIN rs
      <4>1. i < n /\ i \in Nat
        BY <1>2, <1>3, <3>2
      <4> QED BY <1>3, <4>1
    <3> QED BY <1>2, <3>1, <3>2
  <2>3. n \in DOMAIN as /\ k \in DOMAIN as[n].set
    BY <1>2, <1>5
  <2>4. SavedState(ws, as)[k] = as[n].set[k]
    BY <1>2, <2>1, <2>2, <2>3, LastSetter
  <2> QED BY <1>2, <2>4
<1>6. ASSUME ~Touches(r, k)
      PROVE  SavedState(ws, as)[k] = SavedState(ws, rs)[k]
  <2> DEFINE T == {i \in DOMAIN rs : k \in DOMAIN rs[i].set}
             U == {i \in DOMAIN as : k \in DOMAIN as[i].set}
             c == LastIn(T)
  <2>1. U = T
    BY <1>2, <1>6 DEF Touches
  <2>2. (\E i \in DOMAIN as : k \in DOMAIN as[i].del)
        <=> \E i \in DOMAIN rs : k \in DOMAIN rs[i].del
    BY <1>2, <1>6 DEF Touches
  <2>3. T # {} => c \in DOMAIN rs
    <3>1. T \subseteq DOMAIN rs
      OBVIOUS
    <3> HIDE DEF T
    <3> QED BY <3>1, LastOfBlock DEF LastIn
  <2>4. SavedState(ws, rs)[k] = IF \E i \in DOMAIN rs : k \in DOMAIN rs[i].del THEN NoVal
                                ELSE IF T = {} THEN ws[k] ELSE rs[c].set[k]
    BY DEF SavedState, LastIn
  <2>5. SavedState(ws, as)[k] = IF \E i \in DOMAIN rs : k \in DOMAIN rs[i].del THEN NoVal
                                ELSE IF T = {} THEN ws[k] ELSE as[c].set[k]
    <3>1. SavedState(ws, as)[k] = IF \E i \in DOMAIN as : k \in DOMAIN as[i].del THEN NoVal
                                  ELSE IF U = {} THEN ws[k] ELSE as[LastIn(U)].set[k]
      BY DEF SavedState, LastIn
    <3>2. LastIn(U) = LastIn(T)
      <4> HIDE DEF T, U
      <4> QED BY <2>1
    <3> HIDE DEF T, U
    <3> QED BY <2>1, <2>2, <3>1, <3>2
  <2>6. T # {} => as[c] = rs[c]
    BY <1>2, <2>3
  <2> HIDE DEF T, c
  <2> QED BY <2>4, <2>5, <2>6
<1> QED BY <1>1, <1>4, <1>5, <1>6

\* A key that is deleted and written again stays so, and a write of a deleted one makes
\* it so.
LEMMA RecreatedAppend ==
    ASSUME NEW rs \in Seq(Results), NEW r \in Results
    PROVE  /\ Recreated(rs) \subseteq Recreated(Append(rs, r))
           /\ \A k \in Keys : \A i \in DOMAIN rs :
                 k \in DOMAIN rs[i].del /\ k \in DOMAIN r.set => k \in Recreated(Append(rs, r))
<1>1. PICK n, as : n = Len(rs) + 1 /\ as = Append(rs, r)
  OBVIOUS
<1>2. /\ DOMAIN as = DOMAIN rs \cup {n} /\ as[n] = r
      /\ \A i \in DOMAIN rs : as[i] = rs[i] /\ i < n
  BY <1>1, AppendedResult
<1> QED BY <1>1, <1>2 DEF Recreated

\* The writers of a key once another result is there.
LEMMA WritersAppend ==
    ASSUME NEW rs \in Seq(Results), NEW r \in Results, NEW k \in Keys
    PROVE  Writers(Append(rs, r), k) =
               Writers(rs, k) \cup (IF Touches(r, k) THEN {Len(rs) + 1} ELSE {})
<1>1. PICK n, as : n = Len(rs) + 1 /\ as = Append(rs, r)
  OBVIOUS
<1>2. /\ DOMAIN as = DOMAIN rs \cup {n} /\ as[n] = r
      /\ \A i \in DOMAIN rs : as[i] = rs[i]
  BY <1>1, AppendedResult
<1>3. ASSUME NEW i PROVE i \in Writers(as, k)
                         <=> i \in Writers(rs, k) \cup (IF Touches(r, k) THEN {n} ELSE {})
  <2>1. n \notin DOMAIN rs
    BY <1>1, AppendedResult
  <2> QED BY <1>2, <2>1 DEF Writers
<1> QED BY <1>1, <1>3

\* What no transaction has touched stays.
LEMMA SavedUntouched ==
    ASSUME NEW ws \in States, NEW rs \in Seq(Results), NEW k \in Keys, Writers(rs, k) = {}
    PROVE  SavedState(ws, rs)[k] = ws[k] /\ k \notin Recreated(rs)
<1>1. \A i \in DOMAIN rs : k \notin DOMAIN rs[i].set /\ k \notin DOMAIN rs[i].del
  BY DEF Writers, Touches
<1> QED BY <1>1 DEF SavedState, Recreated

\* A failed transaction touches nothing.
LEMMA FailedTouches == FailedResult \in Results /\ \A k : ~Touches(FailedResult, k)
BY EmptyFacts DEF NoLog, Touches

\* The three ends of a transaction.
LEMMA EndResults ==
    ASSUME TypeInv, Succeed \/ Throw \/ ReturnError
    PROVE  /\ \/ results' = Append(results, log) /\ serial' = own
              \/ results' = Append(results, FailedResult) /\ serial' = serial
           /\ leaked \subseteq leaked' /\ db' = db /\ stale' = stale
BY DEF Succeed, Throw, ReturnError, EndTx

LEMMA SavesNext ==
    ASSUME TypeInv, OverlayInv, OwnInv, SavesUnlessRecreated, [Next]_vars
    PROVE  SavesUnlessRecreated'
<1>0. /\ db \in States /\ results \in Seq(Results) /\ log \in Results
      /\ \A k \in Keys \ Recreated(results) : SavedState(db, results)[k] = serial[k]
  BY TypeFacts DEF SavesUnlessRecreated
<1>1. ASSUME NEW k \in Keys, GetVal(k) \/ DelVal(k) \/ \E v \in Values : SetVal(k, v)
      PROVE  SavesUnlessRecreated'
  BY <1>1, CallCases DEF Called, SavesUnlessRecreated
<1>2. CASE Succeed \/ Throw \/ ReturnError
  <2>1. CASE results' = Append(results, log) /\ serial' = own
    <3>1. ASSUME NEW k \in Keys, k \notin Recreated(Append(results, log))
          PROVE  SavedState(db, Append(results, log))[k] = own[k]
      <4>1. /\ SavedState(db, results)[k] = serial[k]
            /\ \A i \in DOMAIN results :
                   ~(k \in DOMAIN results[i].del /\ k \in DOMAIN log.set)
        BY <1>0, <3>1, RecreatedAppend
      <4>2. own[k] = Changed(serial[k], k)
        BY DEF OwnInv
      <4>3. tx.update = log.set /\ tx.delete = DOMAIN log.del
        BY DEF OverlayInv
      <4>4. /\ k \in DOMAIN log.del => SavedState(db, Append(results, log))[k] = NoVal
            /\ (/\ k \in DOMAIN log.set /\ k \notin DOMAIN log.del
                /\ \A i \in DOMAIN results : k \notin DOMAIN results[i].del)
               => SavedState(db, Append(results, log))[k] = log.set[k]
            /\ ~Touches(log, k)
               => SavedState(db, Append(results, log))[k] = SavedState(db, results)[k]
        BY <1>0, SavedAppend
      <4> QED BY <4>1, <4>2, <4>3, <4>4 DEF Changed, Touches
    <3> QED BY <1>2, <2>1, <3>1, EndResults DEF SavesUnlessRecreated
  <2>2. CASE results' = Append(results, FailedResult) /\ serial' = serial
    <3>1. ASSUME NEW k \in Keys, k \notin Recreated(Append(results, FailedResult))
          PROVE  SavedState(db, Append(results, FailedResult))[k] = serial[k]
      <4>1. k \notin Recreated(results)
        BY <1>0, <3>1, RecreatedAppend, FailedTouches
      <4> QED BY <1>0, <4>1, SavedAppend, FailedTouches
    <3> QED BY <1>2, <2>2, <3>1, EndResults DEF SavesUnlessRecreated
  <2> QED BY <1>2, <2>1, <2>2, EndResults
<1>3. CASE SaveBlock \/ RollbackBlock
  <2>1. results' = <<>> /\ serial' = db'
    BY <1>3 DEF SaveBlock, RollbackBlock
  <2>2. \A k \in Keys : SavedState(db', <<>>)[k] = db'[k]
    BY DEF SavedState
  <2> QED BY <2>1, <2>2 DEF SavesUnlessRecreated
<1>4. CASE UNCHANGED vars
  BY <1>4 DEF SavesUnlessRecreated, vars
<1> QED BY <1>1, <1>2, <1>3, <1>4, NextCases

-----------------------------------------------------------------------------
(* The old values in the results.                                           *)

\* The running transaction has logged the value that the block found for a key that no
\* transaction before it wrote.
LEMMA LogTrue ==
    ASSUME TypeInv, OverlayInv, BlockInv, LoggedInv, SavesUnlessRecreated,
           NEW k \in Keys \ (stale \cup leaked), Touches(log, k), Writers(results, k) = {}
    PROVE  OldValue(log, k) = db[k]
<1>1. serial[k] = db[k]
  BY TypeFacts, SavedUntouched DEF SavesUnlessRecreated
<1>2. BlockValue(k) = serial[k]
  BY DEF BlockInv
<1>3. k \in DOMAIN log.get
  BY PartFacts DEF Touches
<1> QED BY <1>1, <1>2, <1>3 DEF OldValue, LoggedInv

LEMMA ResultsNext ==
    ASSUME TypeInv, OverlayInv, BlockInv, LoggedInv, SavesUnlessRecreated, ResultsInv,
           [Next]_vars
    PROVE  ResultsInv'
<1>0. /\ results \in Seq(Results) /\ log \in Results
      /\ \A k \in Keys \ (stale \cup leaked) : \A i \in DOMAIN results :
             Writers(results, k) = {i} => OldValue(results[i], k) = db[k]
  BY TypeFacts DEF ResultsInv, SoleWriterLogged
<1>1. ASSUME NEW k \in Keys, GetVal(k) \/ DelVal(k) \/ \E v \in Values : SetVal(k, v)
      PROVE  ResultsInv'
  BY <1>1, CallCases DEF Called, ResultsInv, SoleWriterLogged
<1>2. ASSUME NEW r \in Results, results' = Append(results, r),
             \A k \in Keys \ (stale \cup leaked) :
                 Touches(r, k) /\ Writers(results, k) = {} => OldValue(r, k) = db[k],
             leaked \subseteq leaked', db' = db, stale' = stale
      PROVE  ResultsInv'
  <2>1. PICK n, as : n = Len(results) + 1 /\ as = Append(results, r)
    OBVIOUS
  <2>2. /\ DOMAIN as = DOMAIN results \cup {n} /\ as[n] = r /\ n \notin DOMAIN results
        /\ \A i \in DOMAIN results : as[i] = results[i]
    BY <1>0, <2>1, AppendedResult
  <2>3. ASSUME NEW k \in Keys \ (stale \cup leaked), NEW i \in DOMAIN as, Writers(as, k) = {i}
        PROVE  OldValue(as[i], k) = db[k]
    <3>1. Writers(as, k) = Writers(results, k) \cup (IF Touches(r, k) THEN {n} ELSE {})
      BY <1>0, <2>1, WritersAppend
    <3>2. Writers(results, k) \subseteq DOMAIN results
      BY DEF Writers
    <3>3. CASE i = n
      <4>1. Writers(results, k) = {} /\ Touches(r, k)
        BY <2>2, <2>3, <3>1, <3>2, <3>3
      <4> QED BY <1>2, <2>2, <3>3, <4>1
    <3>4. CASE i # n
      <4>1. Writers(results, k) = {i} /\ i \in DOMAIN results
        BY <2>2, <2>3, <3>1, <3>4
      <4> QED BY <1>0, <2>2, <4>1
    <3> QED BY <3>3, <3>4
  <2>4. SoleWriterLogged(as, db, Keys \ (stale \cup leaked))
    BY <2>3 DEF SoleWriterLogged
  <2>5. SoleWriterLogged(as, db, Keys \ (stale' \cup leaked'))
    BY <1>2, <2>4 DEF SoleWriterLogged
  <2> QED BY <1>2, <2>1, <2>5 DEF ResultsInv
<1>3. CASE Succeed \/ Throw \/ ReturnError
  <2>1. leaked \subseteq leaked' /\ db' = db /\ stale' = stale
    BY <1>3, EndResults
  <2>2. \A k \in Keys \ (stale \cup leaked) :
            Touches(log, k) /\ Writers(results, k) = {} => OldValue(log, k) = db[k]
    BY LogTrue
  <2>3. CASE results' = Append(results, log)
    BY <1>0, <1>2, <2>1, <2>2, <2>3
  <2>4. CASE results' = Append(results, FailedResult)
    BY <1>2, <2>1, <2>4, FailedTouches
  <2> QED BY <1>3, <2>3, <2>4, EndResults
<1>4. CASE SaveBlock \/ RollbackBlock
  <2>1. results' = <<>>
    BY <1>4 DEF SaveBlock, RollbackBlock
  <2> QED BY <2>1 DEF ResultsInv, SoleWriterLogged
<1>5. CASE UNCHANGED vars
  BY <1>5 DEF ResultsInv, vars
<1> QED BY <1>1, <1>3, <1>4, <1>5, NextCases

LEMMA ChainNext ==
    ASSUME TypeInv, ResultsInv, ChainInv, [Next]_vars
    PROVE  ChainInv'
<1>0. chain \in Seq(ChainRecords)
  BY TypeFacts
<1>1. CASE chain' = chain
  BY <1>1 DEF ChainInv
<1>2. CASE SaveBlock
  <2>1. PICK c : c = [results |-> results, before |-> db, unsure |-> stale \cup leaked]
    OBVIOUS
  <2>2. chain' = Append(chain, c)
    BY <1>2, <2>1 DEF SaveBlock
  <2>3. SoleWriterLogged(c.results, c.before, Keys \ c.unsure)
    BY <2>1 DEF ResultsInv
  <2>4. ASSUME NEW j \in DOMAIN chain'
        PROVE  SoleWriterLogged(chain'[j].results, chain'[j].before, Keys \ chain'[j].unsure)
    <3>1. CASE j \in DOMAIN chain
      <4>1. chain'[j] = chain[j]
        BY <1>0, <2>2, <3>1
      <4> QED BY <3>1, <4>1 DEF ChainInv
    <3>2. CASE j \notin DOMAIN chain
      <4>1. chain'[j] = c
        BY <1>0, <2>2, <3>2
      <4> QED BY <2>3, <4>1
    <3> QED BY <3>1, <3>2
  <2> QED BY <2>4 DEF ChainInv
<1>3. CASE RollbackBlock
  <2>1. chain' = SubSeq(chain, 1, Len(chain) - 1) /\ chain # <<>>
    BY <1>3 DEF RollbackBlock
  <2>2. \A j \in DOMAIN chain' : j \in DOMAIN chain /\ chain'[j] = chain[j]
    BY <1>0, <2>1
  <2> QED BY <2>2 DEF ChainInv
<1>4. chain' = chain \/ SaveBlock \/ RollbackBlock
  <2>1. ASSUME NEW k \in Keys, GetVal(k) \/ DelVal(k) \/ \E v \in Values : SetVal(k, v)
        PROVE  chain' = chain
    BY <2>1, CallCases DEF Called
  <2>2. Succeed \/ Throw \/ ReturnError => chain' = chain
    BY EndCases
  <2>3. UNCHANGED vars => chain' = chain
    BY DEF vars
  <2> QED BY <2>1, <2>2, <2>3, NextCases
<1> QED BY <1>1, <1>2, <1>3, <1>4

-----------------------------------------------------------------------------
(* The theorems.                                                            *)

LEMMA InvariantInit == Init => Invariant
<1> SUFFICES ASSUME Init PROVE Invariant
  OBVIOUS
<1>1. TypeInv
  BY TypeInit
<1>2. /\ block = NoPreload /\ tx = NoOverlay /\ log = NoLog
      /\ results = <<>> /\ chain = <<>> /\ serial = db /\ own = db
  BY DEF Init
<1>3. OverlayInv /\ CacheInv /\ OwnInv /\ BlockInv /\ LoggedInv
  BY <1>2, EmptyFacts
  DEF OverlayInv, CacheInv, OwnInv, BlockInv, LoggedInv, Changed, BlockValue
<1>4. SavesUnlessRecreated
  BY <1>2 DEF SavesUnlessRecreated, SavedState
<1>5. ResultsInv /\ ChainInv
  BY <1>2 DEF ResultsInv, ChainInv, SoleWriterLogged
<1> QED BY <1>1, <1>3, <1>4, <1>5 DEF Invariant

LEMMA InvariantNext == Invariant /\ [Next]_vars => Invariant'
<1> SUFFICES ASSUME Invariant, [Next]_vars PROVE Invariant'
  OBVIOUS
<1> QED
  BY TypeNext, OverlayNext, CacheNext, OwnNext, BlockNext, LoggedNext, SavesNext,
     ResultsNext, ChainNext
  DEF Invariant

\* The invariant of the two overlays, the logs and the results: what the transaction logs,
\* what the block holds and what is saved agree at every step.
THEOREM InvariantCorrect == Spec => []Invariant
BY InvariantInit, InvariantNext, PTL DEF Spec

\* The overlays, the logs and the results are of their types at every step.
THEOREM TypeCorrect == Spec => []TypeOK
<1>1. Invariant => TypeOK
  BY DEF Invariant, TypeInv
<1> QED BY <1>1, InvariantCorrect, PTL

\* A contract reads through the overlays, the read cache and the database the state that
\* the transactions before it left, changed by its own writes, but for the keys of a
\* transaction that returned an error: TransactionPreload.get, commit and rollback.
THEOREM SeesSerialCorrect == Spec => []SeesSerialUnlessLeaked
<1>1. Invariant => SeesSerialUnlessLeaked
  BY ChangedFacts DEF Invariant, BlockInv, OwnInv, SeesSerialUnlessLeaked
<1> QED BY <1>1, InvariantCorrect, PTL

\* The results of a block, saved (getOperateLog), make the state that the transactions
\* that succeeded make in their order, but for the keys that one of them deletes and a
\* later one writes.
THEOREM SavesCorrect == Spec => []SavesUnlessRecreated
<1>1. Invariant => SavesUnlessRecreated
  BY DEF Invariant
<1> QED BY <1>1, InvariantCorrect, PTL

RestoresStep ==
    RollbackBlock =>
        LET b == chain[Len(chain)]
        IN  \A k \in Keys \ b.unsure :
                Cardinality(Writers(b.results, k)) = 1 => db'[k] = b.before[k]

\* The rollback of a block gives a key that one of its transactions wrote the value that
\* the block found, unless that transaction read the key again after writing it or another
\* had written it before and returned an error: rollbackOperateLog, on what checkStateGet
\* logged.
THEOREM RollbackCorrect == Spec => RollbackRestoresWrittenOnce
<1>1. Invariant /\ [Next]_vars => RestoresStep
  <2> SUFFICES ASSUME Invariant, RollbackBlock,
                      NEW k \in Keys \ chain[Len(chain)].unsure,
                      Cardinality(Writers(chain[Len(chain)].results, k)) = 1
               PROVE  db'[k] = chain[Len(chain)].before[k]
    BY DEF RestoresStep
  <2>1. TypeInv /\ ChainInv
    BY DEF Invariant
  <2>2. PICK n \in DOMAIN chain : n = Len(chain)
    <3>1. chain \in Seq(ChainRecords) /\ chain # <<>>
      BY <2>1, TypeFacts DEF RollbackBlock
    <3> QED BY <3>1
  <2>3. PICK rs \in Seq(Results) : rs = chain[n].results
    <3>1. chain \in Seq(ChainRecords)
      BY <2>1, TypeFacts
    <3>2. chain[n] \in ChainRecords
      BY <2>2, <3>1
    <3> QED BY <3>2 DEF ChainRecords
  <2>4. PICK T : T = Writers(rs, k)
    OBVIOUS
  <2>5. T \subseteq DOMAIN rs
    BY <2>4 DEF Writers
  <2>6. IsFiniteSet(T)
    <3>1. PICK m \in Nat : DOMAIN rs = 1 .. m
      BY <2>3
    <3>2. IsFiniteSet(1 .. m)
      BY <3>1, FS_Interval
    <3> QED BY <2>5, <3>1, <3>2, FS_Subset
  <2>7. PICK i : T = {i}
    BY <2>2, <2>3, <2>4, <2>6, FS_Singleton
  <2>8. OldValue(rs[i], k) = chain[n].before[k]
    <3>1. SoleWriterLogged(rs, chain[n].before, Keys \ chain[n].unsure)
      BY <2>1, <2>3 DEF ChainInv
    <3> QED BY <2>2, <2>4, <2>5, <2>7, <3>1 DEF SoleWriterLogged
  <2>9. LastIn(T) = i
    <3>1. LastIn(T) \in T
      BY <2>3, <2>5, <2>7, LastOfBlock DEF LastIn
    <3> QED BY <2>7, <3>1
  <2>10. RolledBackState(db, rs)[k] = OldValue(rs[LastIn(T)], k)
    BY <2>4, <2>7 DEF RolledBackState, LastIn
  <2> QED BY <2>2, <2>3, <2>8, <2>9, <2>10 DEF RollbackBlock
<1>2. Spec => [][RestoresStep]_vars
  BY <1>1, InvariantCorrect, PTL DEF Spec
<1> QED BY <1>2 DEF RollbackRestoresWrittenOnce, RestoresStep

=============================================================================
