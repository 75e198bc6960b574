---------------------------- MODULE TxPoolProofs ----------------------------
(***************************************************************************)
(* The transaction pool, for any number of adders, transactions and        *)
(* restarts and any limits.                                                *)
(*                                                                         *)
(* The idea is that packing moves no transaction past another one: what is *)
(* packed, what is taken, what was packed before and what waits form one   *)
(* line (Line), which a step leaves alone, lengthens at its end, shortens  *)
(* by one, or replaces by what a start has loaded (LineSteps).  Everything *)
(* about the queues is an invariant of that line.                          *)
(***************************************************************************)
EXTENDS TxPool, FiniteSetTheorems, SequenceTheorems, WellFoundedInduction, TLAPS

\* The saved copy is a record of two partial functions.
SavedShape ==
    /\ saved = [last |-> saved.last, bySerial |-> saved.bySerial, byTx |-> saved.byTx]
    /\ saved.bySerial = [n \in DOMAIN saved.bySerial |-> saved.bySerial[n]]
    /\ saved.byTx = [t \in DOMAIN saved.byTx |-> saved.byTx[t]]

DoneRecords == [adds : Nat, blocks : Nat, rollbacks : Nat, packages : Nat, restarts : Nat]

TypeInv == TypeOK /\ SavedShape /\ done \in DoneRecords

\* What is noted is stored, what is stored and not settled is noted, and only what is
\* settled is taken out.
SavedInv ==
    /\ \A t \in DOMAIN saved.byTx :
          saved.byTx[t] \in DOMAIN saved.bySerial /\ saved.bySerial[saved.byTx[t]] = t
    /\ \A n \in DOMAIN saved.bySerial :
          saved.bySerial[n] \in Settled \cup DOMAIN saved.byTx
    /\ storager \subseteq Settled
    /\ \A r \in removals : r.tx \in Settled

CountInv == IsFiniteSet(removals) /\ CountInStep

\* Whoever may still put a transaction counts as if it had.
AdmittedBounded ==
    Cardinality(caches) + Cardinality(AddersAt({"admitted"}))
        <= Larger(Cardinality(loaded), CacheMaxSize + Cardinality(Adders) - 1)

\* The blocker reads all that was packed before, so that what it has packed and what was
\* packed before are the same whenever it is not at it.
PackInv ==
    /\ packer.pc = "idle" => packer.taken = <<>>
    /\ packer.pc = "packaged" =>
          packer.block = <<>> /\ Len(packagedOrder) + packer.seen <= MaxOfBlock
    /\ packer.pc # "packaged" =>
          packer.block = packagedOrder /\ Len(packer.block) + packer.seen <= MaxOfBlock
    /\ Len(packer.taken) <= packer.seen

\* All transactions to be packed, in the order in which they will be.
Packed == packer.block \o packer.taken
Waiting == IF packer.pc = "packaged" THEN packagedOrder \o order ELSE order
Line == Packed \o Waiting

\* A transaction not settled is in the line once, and then it is in the map and nobody
\* is about to queue it; two adders never queue the same.
OnceInLine == \A i, j \in DOMAIN Line : Line[i] = Line[j] => i = j \/ Line[i] \in Settled
LineInMap ==
    \A i \in DOMAIN Line : Line[i] \notin Settled =>
        /\ Line[i] \in caches
        /\ \A a \in AddersAt({"put"}) : adder[a].tx # Line[i]
PutOnce ==
    \A a \in AddersAt({"put"}) : adder[a].tx \notin Settled =>
        /\ adder[a].tx \in caches
        /\ \A c \in AddersAt({"put"}) : adder[c].tx = adder[a].tx => c = a
OncePacked == \A i, j \in DOMAIN Packed : Packed[i] = Packed[j] => i = j \/ Packed[i] \in undone

LineInv == OnceInLine /\ LineInMap /\ PutOnce /\ OncePacked

\* The line is in the order of arrival, but for what was loaded.
Earlier(s, t, u) ==
    \E i, j \in DOMAIN s :
        s[i] = t /\ s[j] = u /\ i < j /\ \A k \in DOMAIN s : k > i => s[k] # t

LineInOrder ==
    \A i, j \in DOMAIN Line :
        i < j /\ {Line[i], Line[j]} \cap Settled = {} /\ ~({Line[i], Line[j]} \subseteq loaded)
            => Earlier(arrived, Line[i], Line[j])
AllArrived ==
    /\ Elements(Line) \subseteq Elements(arrived)
    /\ \A n \in DOMAIN saved.bySerial : saved.bySerial[n] \in Elements(arrived)
    /\ \A a \in AddersAt({"queued"}) : adder[a].tx \in Elements(arrived)

OrderInv == LineInOrder /\ AllArrived

Invariant == /\ TypeInv /\ SavedInv /\ CountInv /\ AdmittedBounded
             /\ PackInv /\ LineInv /\ OrderInv /\ NothingStranded /\ PoolIsSaved

-----------------------------------------------------------------------------
(* Data: least elements, ranks, and what a start loads.                     *)

LEMMA LeastExists ==
    ASSUME NEW T \in SUBSET Nat, T # {}
    PROVE  \E i \in T : \A j \in T : i <= j
<1> DEFINE Down(x) == {y \in T : y <= x}
           F == {Down(x) : x \in T}
<1>1. F \subseteq FiniteSubsetsOf(Nat) /\ F # {}
  <2>1. ASSUME NEW x \in T PROVE Down(x) \in FiniteSubsetsOf(Nat)
    <3>1. Down(x) \in SUBSET (0 .. x) /\ Down(x) \in SUBSET Nat /\ x \in Int
      <4>1. x \in Nat /\ \A y \in Down(x) : y \in Nat /\ y <= x
        OBVIOUS
      <4>2. x \in Int /\ \A y \in Down(x) : y \in 0 .. x /\ y \in Nat
        <5> HIDE DEF Down
        <5> QED BY <4>1
      <4> HIDE DEF Down
      <4> QED BY <4>2
    <3>2. IsFiniteSet(0 .. x)
      BY <3>1, FS_Interval
    <3> HIDE DEF Down
    <3> QED BY <3>1, <3>2, FS_Subset DEF FiniteSubsetsOf
  <2> QED BY <2>1
<1>2. IsWellFoundedOn(StrictSubsetOrdering(Nat), FiniteSubsetsOf(Nat))
  BY FS_StrictSubsetOrderingWellFounded
<1>3. PICK m \in F : \A u \in F : <<u, m>> \notin StrictSubsetOrdering(Nat)
  <2> HIDE DEF F
  <2> QED BY <1>1, <1>2, WFMin
<1>4. PICK x \in T : m = Down(x)
  OBVIOUS
<1>5. ASSUME NEW y \in T, ~(x <= y) PROVE FALSE
  <2>1. y < x /\ x \in Nat /\ y \in Nat
    BY <1>5
  <2>2. x \in Down(x) /\ x \notin Down(y)
    BY <2>1
  <2>3. ASSUME NEW z \in Down(y) PROVE z \in Down(x)
    <3>1. z \in T /\ z \in Nat /\ z <= y
      OBVIOUS
    <3> QED BY <2>1, <3>1
  <2>4. Down(x) \subseteq Nat /\ Down(y) \subseteq Nat
    OBVIOUS
  <2>5. <<Down(y), Down(x)>> \in StrictSubsetOrdering(Nat)
    <3> HIDE DEF Down
    <3> QED BY <2>2, <2>3, <2>4 DEF StrictSubsetOrdering
  <2>6. Down(y) \in F
    OBVIOUS
  <2> QED
    <3> HIDE DEF Down, F
    <3> QED BY <2>5, <2>6, <1>3, <1>4
<1> QED BY <1>5

\* The elements of a finite set of numbers are its first, second, ... last.
Upto(S, i) == {j \in S : j <= i}

LEMMA RankType ==
    ASSUME NEW S \in SUBSET Nat, IsFiniteSet(S), NEW i \in S
    PROVE  Cardinality(Upto(S, i)) \in 1 .. Cardinality(S)
<1>1. Upto(S, i) \in SUBSET S /\ i \in Upto(S, i)
  BY DEF Upto
<1>2. IsFiniteSet(Upto(S, i)) /\ Cardinality(Upto(S, i)) <= Cardinality(S)
  BY <1>1, FS_Subset
<1>3. Cardinality(Upto(S, i)) \in Nat /\ Cardinality(S) \in Nat
  BY <1>2, FS_CardinalityType
<1>4. Cardinality(Upto(S, i)) # 0
  BY <1>1, <1>2, FS_EmptySet
<1> QED BY <1>2, <1>3, <1>4

LEMMA RankGrows ==
    ASSUME NEW S \in SUBSET Nat, IsFiniteSet(S), NEW i \in S, NEW j \in S, i < j
    PROVE  Cardinality(Upto(S, i)) < Cardinality(Upto(S, j))
<1>1. Upto(S, i) \in SUBSET Upto(S, j) /\ j \in Upto(S, j) /\ j \notin Upto(S, i)
  <2>1. i \in Nat /\ j \in Nat
    OBVIOUS
  <2>2. \A x \in Upto(S, i) : x \in S /\ x \in Nat /\ x <= i
    BY DEF Upto
  <2>3. \A x \in Upto(S, i) : x \in S /\ x <= j
    BY <2>1, <2>2
  <2>4. Upto(S, i) \subseteq Upto(S, j)
    BY <2>3 DEF Upto
  <2>5. j \in Upto(S, j)
    BY <2>1 DEF Upto
  <2>6. j \notin Upto(S, i)
    BY <2>1 DEF Upto
  <2> QED BY <2>4, <2>5, <2>6
<1>2. Upto(S, j) \in SUBSET S
  BY DEF Upto
<1>3. IsFiniteSet(Upto(S, j))
  BY <1>2, FS_Subset
<1>4. /\ Cardinality(Upto(S, i)) <= Cardinality(Upto(S, j))
      /\ IsFiniteSet(Upto(S, i))
      /\ Cardinality(Upto(S, i)) # Cardinality(Upto(S, j))
  BY <1>1, <1>3, FS_Subset
<1>5. Cardinality(Upto(S, i)) \in Nat /\ Cardinality(Upto(S, j)) \in Nat
  BY <1>3, <1>4, FS_CardinalityType
<1> QED BY <1>4, <1>5

LEMMA RankExists ==
    ASSUME NEW S \in SUBSET Nat, IsFiniteSet(S), NEW k \in 1 .. Cardinality(S)
    PROVE  \E i \in S : Cardinality(Upto(S, i)) = k
<1> DEFINE n == Cardinality(S)
           rank == [i \in S |-> Cardinality(Upto(S, i))]
<1>1. n \in Nat
  BY FS_CardinalityType
<1>2. IsFiniteSet(1 .. n) /\ Cardinality(1 .. n) = n
  BY <1>1, FS_Interval
<1>3. rank \in [S -> 1 .. n]
  BY RankType
<1>4. ASSUME NEW i \in S, NEW j \in S, rank[i] = rank[j] PROVE i = j
  <2>1. Cardinality(Upto(S, i)) = Cardinality(Upto(S, j))
    BY <1>4
  <2>2. Cardinality(Upto(S, i)) \in Nat
    BY RankType, <1>1
  <2>3. i \in Nat /\ j \in Nat
    OBVIOUS
  <2>4. ~(i < j) /\ ~(j < i)
    BY <2>1, <2>2, RankGrows
  <2> QED BY <2>3, <2>4
<1>5. rank \in Injection(S, 1 .. n)
  <2> HIDE DEF rank, n
  <2> QED BY <1>3, <1>4 DEF Injection, IsInjective
<1>6. rank \in Surjection(S, 1 .. n)
  <2> HIDE DEF rank
  <2> QED BY <1>2, <1>5, FS_Injection
<1>7. \E i \in S : rank[i] = k
  <2> HIDE DEF rank
  <2> QED BY <1>6 DEF Surjection
<1> QED BY <1>7

LEMMA ConstantFacts ==
    /\ IsFiniteSet(Txs) /\ IsFiniteSet(Adders)
    /\ CacheMaxSize \in Nat \ {0} /\ MaxOfBlock \in Nat \ {0}
BY PoolAssumption DEF PoolAssumption

\* What the type invariant says of the saved copy.
SavedType ==
    /\ saved.last \in Nat
    /\ DOMAIN saved.bySerial \subseteq 1 .. saved.last
    /\ \A n \in DOMAIN saved.bySerial : saved.bySerial[n] \in Txs
    /\ DOMAIN saved.byTx \subseteq Txs
    /\ \A t \in DOMAIN saved.byTx : saved.byTx[t] \in 1 .. saved.last

LEMMA SavedIsTyped == TypeInv => SavedType
BY DEF TypeInv, TypeOK, SavedType

LEMMA StoredFacts ==
    ASSUME SavedType, NEW t \in Txs, saved' = Stored(t)
    PROVE  /\ SavedType' /\ SavedShape'
           /\ saved'.last = saved.last + 1
           /\ DOMAIN saved'.bySerial = DOMAIN saved.bySerial \cup {saved.last + 1}
           /\ saved'.bySerial[saved.last + 1] = t
           /\ \A n \in DOMAIN saved.bySerial : saved'.bySerial[n] = saved.bySerial[n]
           /\ DOMAIN saved'.byTx = DOMAIN saved.byTx \cup {t}
           /\ saved'.byTx[t] = saved.last + 1
           /\ \A u \in DOMAIN saved.byTx \ {t} : saved'.byTx[u] = saved.byTx[u]
<1>1. /\ saved'.last = saved.last + 1
      /\ saved'.bySerial = [n \in DOMAIN saved.bySerial \cup {saved.last + 1} |->
                               IF n = saved.last + 1 THEN t ELSE saved.bySerial[n]]
      /\ saved'.byTx = [u \in DOMAIN saved.byTx \cup {t} |->
                               IF u = t THEN saved.last + 1 ELSE saved.byTx[u]]
      /\ saved' = [last |-> saved'.last, bySerial |-> saved'.bySerial, byTx |-> saved'.byTx]
  BY DEF Stored
<1>2. saved.last \in Nat /\ saved.last + 1 \notin DOMAIN saved.bySerial
  BY DEF SavedType
<1>3. /\ DOMAIN saved'.bySerial = DOMAIN saved.bySerial \cup {saved.last + 1}
      /\ saved'.bySerial[saved.last + 1] = t
      /\ \A n \in DOMAIN saved.bySerial : saved'.bySerial[n] = saved.bySerial[n]
  BY <1>1, <1>2
<1>4. /\ DOMAIN saved'.byTx = DOMAIN saved.byTx \cup {t}
      /\ saved'.byTx[t] = saved.last + 1
      /\ \A u \in DOMAIN saved.byTx \ {t} : saved'.byTx[u] = saved.byTx[u]
  BY <1>1
<1>5. SavedShape'
  BY <1>1 DEF SavedShape
<1>6. SavedType'
  <2>1. saved'.last \in Nat /\ 1 .. saved.last \subseteq 1 .. saved'.last
        /\ saved.last + 1 \in 1 .. saved'.last
    BY <1>1, <1>2
  <2>2. DOMAIN saved'.bySerial \subseteq 1 .. saved'.last
    BY <1>3, <2>1 DEF SavedType
  <2>3. \A n \in DOMAIN saved'.bySerial : saved'.bySerial[n] \in Txs
    BY <1>3 DEF SavedType
  <2>4. DOMAIN saved'.byTx \subseteq Txs
    BY <1>4 DEF SavedType
  <2>5. \A u \in DOMAIN saved'.byTx : saved'.byTx[u] \in 1 .. saved'.last
    BY <1>4, <2>1, <1>1 DEF SavedType
  <2> QED BY <2>1, <2>2, <2>3, <2>4, <2>5 DEF SavedType
<1> QED BY <1>1, <1>3, <1>4, <1>5, <1>6

LEMMA DeletedFacts ==
    ASSUME SavedType, SavedShape, NEW S, saved' = Deleted(S)
    PROVE  /\ SavedType' /\ SavedShape'
           /\ saved'.last = saved.last
           /\ DOMAIN saved'.bySerial =
                 DOMAIN saved.bySerial \ {saved.byTx[t] : t \in S \cap DOMAIN saved.byTx}
           /\ \A n \in DOMAIN saved'.bySerial : saved'.bySerial[n] = saved.bySerial[n]
           /\ DOMAIN saved'.byTx = DOMAIN saved.byTx \ S
           /\ \A u \in DOMAIN saved'.byTx : saved'.byTx[u] = saved.byTx[u]
<1> DEFINE gone == {saved.byTx[t] : t \in S \cap DOMAIN saved.byTx}
           r == [last |-> saved.last,
                 bySerial |-> [n \in DOMAIN saved.bySerial \ gone |-> saved.bySerial[n]],
                 byTx |-> [t \in DOMAIN saved.byTx \ S |-> saved.byTx[t]]]
<1>1. saved' = r
  <2> DEFINE q == [last |-> saved.last, bySerial |-> saved.bySerial, byTx |-> saved.byTx]
  <2>1. saved = q
    BY DEF SavedShape
  <2>2. saved' = [saved EXCEPT
                     !.bySerial = [n \in DOMAIN saved.bySerial \ gone |-> saved.bySerial[n]],
                     !.byTx = [t \in DOMAIN saved.byTx \ S |-> saved.byTx[t]]]
    BY DEF Deleted
  <2> HIDE DEF gone
  <2> QED BY <2>1, <2>2
<1>2. /\ saved'.last = saved.last
      /\ saved'.bySerial = [n \in DOMAIN saved.bySerial \ gone |-> saved.bySerial[n]]
      /\ saved'.byTx = [t \in DOMAIN saved.byTx \ S |-> saved.byTx[t]]
      /\ saved' = [last |-> saved'.last, bySerial |-> saved'.bySerial, byTx |-> saved'.byTx]
  <2> HIDE DEF gone
  <2> QED BY <1>1
<1>3. /\ DOMAIN saved'.bySerial = DOMAIN saved.bySerial \ gone
      /\ \A n \in DOMAIN saved'.bySerial : saved'.bySerial[n] = saved.bySerial[n]
      /\ DOMAIN saved'.byTx = DOMAIN saved.byTx \ S
      /\ \A u \in DOMAIN saved'.byTx : saved'.byTx[u] = saved.byTx[u]
  <2> HIDE DEF gone, r
  <2> QED BY <1>2
<1>4. SavedShape'
  <2> HIDE DEF gone, r
  <2> QED BY <1>2, <1>3 DEF SavedShape
<1>5. SavedType'
  <2> HIDE DEF gone, r
  <2> QED BY <1>2, <1>3 DEF SavedType
<1> QED BY <1>2, <1>3, <1>4, <1>5

\* A start reads the longest run of numbers without a gap that ends with the last one.
LEMMA FirstLoadedFacts ==
    ASSUME SavedType
    PROVE  /\ FirstLoaded \in 1 .. saved.last + 1
           /\ FirstLoaded .. saved.last \subseteq DOMAIN saved.bySerial
           /\ FirstLoaded = 1 \/ FirstLoaded - 1 \notin DOMAIN saved.bySerial
<1> DEFINE T == {n \in 1 .. saved.last + 1 : n .. saved.last \subseteq DOMAIN saved.bySerial}
<1>1. saved.last \in Nat
  BY DEF SavedType
<1>2. saved.last + 1 \in T
  <2>1. (saved.last + 1) .. saved.last = {}
    BY <1>1
  <2> QED BY <1>1, <2>1
<1>3. T \subseteq Nat
  BY <1>1
<1>4. PICK n \in T : \A m \in T : n <= m
  <2> HIDE DEF T
  <2> QED BY <1>2, <1>3, LeastExists
<1>5. n \in 1 .. saved.last + 1 /\ n .. saved.last \subseteq DOMAIN saved.bySerial
  OBVIOUS
<1>6. ASSUME n # 1, n - 1 \in DOMAIN saved.bySerial PROVE FALSE
  <2>1. n - 1 \in 1 .. saved.last + 1 /\ n \in Int
    BY <1>1, <1>5, <1>6
  <2>2. \A m \in (n - 1) .. saved.last : m = n - 1 \/ m \in n .. saved.last
    BY <1>1, <2>1
  <2>3. (n - 1) .. saved.last \subseteq DOMAIN saved.bySerial
    BY <1>5, <1>6, <2>2
  <2>4. n - 1 \in T
    BY <2>1, <2>3
  <2> HIDE DEF T
  <2> QED BY <1>4, <2>1, <2>4
<1> QED
  <2> HIDE DEF T
  <2> QED BY <1>5, <1>6 DEF FirstLoaded

LEMMA WalkedFacts ==
    ASSUME SavedType
    PROVE  /\ Walked \in Seq(Txs)
           /\ DOMAIN Walked = 1 .. saved.last + 1 - FirstLoaded
           /\ Elements(Walked) = {saved.bySerial[n] : n \in FirstLoaded .. saved.last}
<1> DEFINE k == saved.last + 1 - FirstLoaded
<1>1. /\ saved.last \in Nat /\ FirstLoaded \in 1 .. saved.last + 1
      /\ FirstLoaded .. saved.last \subseteq DOMAIN saved.bySerial
      /\ \A n \in FirstLoaded .. saved.last : saved.bySerial[n] \in Txs
  BY FirstLoadedFacts DEF SavedType
<1>2. k \in Nat /\ FirstLoaded \in Int
  BY <1>1
<1>3. \A i \in 1 .. k : saved.last + 1 - i \in FirstLoaded .. saved.last
  BY <1>1, <1>2
<1>4. DOMAIN Walked = 1 .. k /\ \A i \in 1 .. k : Walked[i] = saved.bySerial[saved.last + 1 - i]
  BY DEF Walked
<1>5. Walked = [i \in 1 .. k |-> Walked[i]]
  BY DEF Walked
<1>6. Walked \in [1 .. k -> Txs]
  <2> HIDE DEF k
  <2>1. \A i \in 1 .. k : Walked[i] \in Txs
    BY <1>1, <1>3, <1>4
  <2> QED BY <1>5, <2>1
<1>7. Walked \in Seq(Txs)
  <2> HIDE DEF k
  <2> QED BY <1>2, <1>6, SeqDef
<1>8. ASSUME NEW t \in Elements(Walked)
      PROVE  t \in {saved.bySerial[n] : n \in FirstLoaded .. saved.last}
  <2>1. PICK i \in 1 .. k : t = Walked[i]
    <3> HIDE DEF k
    <3> QED BY <1>4, <1>8 DEF Elements
  <2> HIDE DEF k
  <2> QED BY <1>3, <1>4, <2>1
<1>9. ASSUME NEW n \in FirstLoaded .. saved.last PROVE saved.bySerial[n] \in Elements(Walked)
  <2>1. saved.last + 1 - n \in 1 .. k
    BY <1>1, <1>2
  <2>2. saved.last + 1 - (saved.last + 1 - n) = n
    BY <1>1, <1>2
  <2>3. Walked[saved.last + 1 - n] = saved.bySerial[n]
    <3> HIDE DEF k
    <3> QED BY <1>4, <2>1, <2>2
  <2> HIDE DEF k
  <2> QED BY <1>4, <2>1, <2>3 DEF Elements
<1> QED
  <2>1. Elements(Walked) = {saved.bySerial[n] : n \in FirstLoaded .. saved.last}
    <3> HIDE DEF k
    <3> QED BY <1>8, <1>9
  <2> QED BY <1>4, <1>7, <2>1

\* A start loads what it has read and is not on the chain, each once.
LEMMA ToLoadFacts ==
    ASSUME SavedType
    PROVE  /\ ToLoad \in Seq(Txs)
           /\ Elements(ToLoad) = Elements(Walked) \ OnChain
           /\ \A i, j \in DOMAIN ToLoad : ToLoad[i] = ToLoad[j] => i = j
           /\ Len(ToLoad) = Cardinality(Elements(ToLoad))
<1> DEFINE m == Cardinality(Firsts)
<1>1. PICK k \in Nat : DOMAIN Walked = 1 .. k
  BY WalkedFacts
<1>2. Firsts \in SUBSET (1 .. k) /\ Firsts \in SUBSET Nat
  BY <1>1 DEF Firsts
<1>3. IsFiniteSet(Firsts) /\ m \in Nat
  <2>1. 1 \in Int /\ k \in Int
    OBVIOUS
  <2>2. IsFiniteSet(1 .. k)
    BY <2>1, FS_Interval
  <2>3. IsFiniteSet(Firsts)
    BY <1>2, <2>2, FS_Subset
  <2> QED BY <2>3, FS_CardinalityType
<1>4. \A i \in Firsts : Upto(Firsts, i) = {j \in Firsts : j <= i}
  BY DEF Upto
<1>5. ASSUME NEW c \in 1 .. m
      PROVE  Nth(c) \in Firsts /\ Cardinality(Upto(Firsts, Nth(c))) = c
  <2>1. \E i \in Firsts : Cardinality({j \in Firsts : j <= i}) = c
    BY <1>2, <1>3, <1>4, RankExists
  <2>2. Nth(c) \in Firsts /\ Cardinality({j \in Firsts : j <= Nth(c)}) = c
    BY <2>1 DEF Nth
  <2> QED BY <1>4, <2>2
<1>6. ASSUME NEW i \in Firsts
      PROVE  /\ Cardinality(Upto(Firsts, i)) \in 1 .. m
             /\ Nth(Cardinality(Upto(Firsts, i))) = i
  <2> DEFINE c == Cardinality(Upto(Firsts, i))
  <2>1. c \in 1 .. m
    BY <1>2, <1>3, RankType
  <2>2. Nth(c) \in Firsts /\ Cardinality(Upto(Firsts, Nth(c))) = c
    <3> HIDE DEF c, m
    <3> QED BY <1>5, <2>1
  <2>3. ~(i < Nth(c)) /\ ~(Nth(c) < i)
    <3>1. c \in Int
      BY <2>1
    <3>2. i < Nth(c) => c < Cardinality(Upto(Firsts, Nth(c)))
      BY <1>2, <1>3, <2>2, RankGrows
    <3>3. Nth(c) < i => Cardinality(Upto(Firsts, Nth(c))) < c
      BY <1>2, <1>3, <2>2, RankGrows
    <3> HIDE DEF c
    <3> QED BY <3>1, <3>2, <3>3, <2>2
  <2>4. i \in Nat /\ Nth(c) \in Nat
    BY <1>2, <2>2
  <2>5. Nth(c) = i
    <3> HIDE DEF c
    <3> QED BY <2>3, <2>4
  <2> QED BY <2>1, <2>5
<1>7. /\ ToLoad = [c \in 1 .. m |-> Walked[Nth(c)]] /\ DOMAIN ToLoad = 1 .. m
      /\ \A c \in 1 .. m : ToLoad[c] = Walked[Nth(c)]
  BY DEF ToLoad
<1> HIDE DEF m
<1>8. \A i \in Firsts : Walked[i] \in Txs /\ Walked[i] \in Elements(Walked) \ OnChain
  <2>1. \A i \in DOMAIN Walked : Walked[i] \in Txs
    BY WalkedFacts, <1>1
  <2> QED BY <2>1 DEF Firsts, Elements
<1>9. ToLoad \in Seq(Txs) /\ Len(ToLoad) = m
  <2>1. \A c \in 1 .. m : Walked[Nth(c)] \in Txs
    BY <1>5, <1>8
  <2>2. ToLoad \in [1 .. m -> Txs]
    BY <1>7, <2>1
  <2>3. ToLoad \in Seq(Txs)
    BY <1>3, <2>2, SeqDef
  <2> QED BY <2>3, <1>3, <1>7
<1>10. ASSUME NEW i \in DOMAIN ToLoad, NEW j \in DOMAIN ToLoad, ToLoad[i] = ToLoad[j]
       PROVE  i = j
  <2>1. Nth(i) \in Firsts /\ Nth(j) \in Firsts /\ Walked[Nth(i)] = Walked[Nth(j)]
    BY <1>5, <1>7, <1>10
  <2>2. /\ \A n \in 1 .. Nth(i) - 1 : Walked[n] # Walked[Nth(i)]
        /\ \A n \in 1 .. Nth(j) - 1 : Walked[n] # Walked[Nth(j)]
    BY <2>1 DEF Firsts
  <2>3. Nth(i) \in 1 .. k /\ Nth(j) \in 1 .. k
    BY <1>2, <2>1
  <2>4. Nth(i) = Nth(j)
    <3>1. Nth(i) < Nth(j) => Nth(i) \in 1 .. Nth(j) - 1
      BY <2>3
    <3>2. Nth(j) < Nth(i) => Nth(j) \in 1 .. Nth(i) - 1
      BY <2>3
    <3>3. Nth(i) \in Int /\ Nth(j) \in Int
      BY <2>3
    <3> QED BY <2>1, <2>2, <3>1, <3>2, <3>3
  <2> QED BY <1>5, <1>7, <2>4
<1>11. Elements(ToLoad) \subseteq Elements(Walked) \ OnChain
  BY <1>5, <1>7, <1>8 DEF Elements
<1>12. ASSUME NEW t \in Elements(Walked) \ OnChain PROVE t \in Elements(ToLoad)
  <2> DEFINE P == {i \in 1 .. k : Walked[i] = t}
  <2>1. P \in SUBSET Nat /\ P # {}
    BY <1>1, <1>12 DEF Elements
  <2>2. PICK i \in P : \A j \in P : i <= j
    <3> HIDE DEF P
    <3> QED BY <2>1, LeastExists
  <2>3. i \in 1 .. k /\ Walked[i] = t
    OBVIOUS
  <2>4. ASSUME NEW j \in 1 .. i - 1 PROVE Walked[j] # t
    <3>1. j \in 1 .. k /\ ~(i <= j)
      BY <2>3
    <3> QED BY <2>2, <3>1
  <2>5. i \in Firsts
    BY <1>1, <1>12, <2>3, <2>4 DEF Firsts
  <2> QED BY <1>6, <1>7, <2>3, <2>5 DEF Elements
<1>13. Len(ToLoad) = Cardinality(Elements(ToLoad))
  <2>1. ToLoad \in Bijection(1 .. m, Elements(ToLoad))
    <3>1. ToLoad \in [1 .. m -> Elements(ToLoad)]
      BY <1>7 DEF Elements
    <3>2. \A t \in Elements(ToLoad) : \E i \in 1 .. m : ToLoad[i] = t
      BY <1>7 DEF Elements
    <3>3. \A i, j \in 1 .. m : ToLoad[i] = ToLoad[j] => i = j
      BY <1>7, <1>10
    <3> QED BY <3>1, <3>2, <3>3 DEF Bijection, Injection, Surjection, IsInjective
  <2>2. ExistsBijection(1 .. m, Elements(ToLoad))
    BY <2>1 DEF ExistsBijection
  <2> QED BY <1>3, <1>9, <2>2, FS_CountingElements
<1> QED BY <1>9, <1>10, <1>11, <1>12, <1>13

-----------------------------------------------------------------------------
(* Types.                                                                   *)

\* The record sets of TypeOK, by name.
AdderRecords == {Idle} \cup [pc : AdderPcs, tx : Txs]
PackerRecords == [pc : {"idle", "packaged", "order"}, taken : Seq(Txs), seen : Nat,
                  block : Seq(Txs)]
RemovalRecords == [by : Removers, tx : Txs, counted : BOOLEAN]

LEMMA TypeFacts ==
    TypeInv <=>
        /\ caches \subseteq Txs /\ count \in Int
        /\ order \in Seq(Txs) /\ packagedOrder \in Seq(Txs)
        /\ SavedType /\ SavedShape
        /\ adder \in [Adders -> AdderRecords]
        /\ packer \in PackerRecords
        /\ storager \subseteq Txs
        /\ removals \subseteq RemovalRecords
        /\ chain \in Seq(SUBSET Txs)
        /\ arrived \in Seq(Txs) /\ undone \subseteq Txs /\ loaded \subseteq Txs
        /\ done \in DoneRecords
BY DEF TypeInv, TypeOK, SavedType, AdderRecords, PackerRecords, RemovalRecords

\* The types of a step, from those of what it changes.
LEMMA TypeStep ==
    ASSUME TypeInv,
           caches' = caches \/ caches' \subseteq Txs,
           count' = count \/ count' \in Int,
           order' = order \/ order' \in Seq(Txs),
           packagedOrder' = packagedOrder \/ packagedOrder' \in Seq(Txs),
           saved' = saved \/ (SavedType' /\ SavedShape'),
           adder' = adder \/ adder' \in [Adders -> AdderRecords],
           packer' = packer \/ packer' \in PackerRecords,
           storager' = storager \/ storager' \subseteq Txs,
           removals' = removals \/ removals' \subseteq RemovalRecords,
           chain' = chain \/ chain' \in Seq(SUBSET Txs),
           arrived' = arrived \/ arrived' \in Seq(Txs),
           undone' = undone \/ undone' \subseteq Txs,
           loaded' = loaded \/ loaded' \subseteq Txs,
           done' = done \/ done' \in DoneRecords
    PROVE  TypeInv'
<1>1. SavedType' /\ SavedShape'
  <2>1. SavedType /\ SavedShape
    BY TypeFacts
  <2> QED BY <2>1 DEF SavedType, SavedShape
<1>2. (TypeInv)' <=>
        /\ caches' \subseteq Txs /\ count' \in Int
        /\ order' \in Seq(Txs) /\ packagedOrder' \in Seq(Txs)
        /\ SavedType' /\ SavedShape'
        /\ adder' \in [Adders -> AdderRecords]
        /\ packer' \in PackerRecords
        /\ storager' \subseteq Txs
        /\ removals' \subseteq RemovalRecords
        /\ chain' \in Seq(SUBSET Txs)
        /\ arrived' \in Seq(Txs) /\ undone' \subseteq Txs /\ loaded' \subseteq Txs
        /\ done' \in DoneRecords
  BY DEF TypeInv, TypeOK, SavedType, AdderRecords, PackerRecords, RemovalRecords
<1> QED BY <1>1, <1>2, TypeFacts

\* An adder at work has a transaction; Moved gives it another state.
Moved(a, p) == [pc |-> p, tx |-> adder[a].tx]

LEMMA AdderFacts ==
    ASSUME TypeInv, NEW a \in Adders, adder[a].pc # "idle"
    PROVE  /\ adder[a] = Moved(a, adder[a].pc)
           /\ adder[a].tx \in Txs /\ adder[a].pc \in AdderPcs
           /\ \A p : [adder EXCEPT ![a].pc = p] = [adder EXCEPT ![a] = Moved(a, p)]
           /\ \A p : [adder[a] EXCEPT !.pc = p] = Moved(a, p)
           /\ \A p \in AdderPcs : Moved(a, p) \in AdderRecords
<1>1. adder[a] \in [pc : AdderPcs, tx : Txs] /\ DOMAIN adder = Adders
  BY TypeFacts DEF AdderRecords, Idle
<1>2. adder[a] = Moved(a, adder[a].pc) /\ adder[a].tx \in Txs /\ adder[a].pc \in AdderPcs
  BY <1>1 DEF Moved
<1>3. \A p : [adder[a] EXCEPT !.pc = p] = Moved(a, p)
  BY <1>1 DEF Moved
<1>4. \A p : [adder EXCEPT ![a].pc = p] = [adder EXCEPT ![a] = Moved(a, p)]
  <2>1. \A p : [adder EXCEPT ![a].pc = p] = [adder EXCEPT ![a] = [adder[a] EXCEPT !.pc = p]]
    OBVIOUS
  <2> QED BY <1>3, <2>1
<1>5. \A p \in AdderPcs : Moved(a, p) \in AdderRecords
  BY <1>2 DEF AdderRecords, Moved
<1> QED BY <1>2, <1>3, <1>4, <1>5

\* Whatever an adder at work becomes, the others stay as they are.
LEMMA AdderStep ==
    ASSUME TypeInv, NEW a \in Adders, NEW d \in AdderRecords, adder' = [adder EXCEPT ![a] = d]
    PROVE  /\ adder' \in [Adders -> AdderRecords]
           /\ adder'[a] = d /\ \A c \in Adders \ {a} : adder'[c] = adder[c]
BY TypeFacts

LEMMA UsedType ==
    ASSUME TypeInv, NEW k \in {"adds", "blocks", "rollbacks", "packages", "restarts"}
    PROVE  /\ Used(k) \in DoneRecords
           /\ k # "restarts" => Used(k).restarts = done.restarts
           /\ Used("restarts").restarts = done.restarts + 1
<1>1. /\ done.adds \in Nat /\ done.blocks \in Nat /\ done.rollbacks \in Nat
      /\ done.packages \in Nat /\ done.restarts \in Nat /\ done \in DoneRecords
  BY TypeFacts DEF DoneRecords
<1>2. CASE k = "adds"
  BY <1>1, <1>2 DEF Used, DoneRecords
<1>3. CASE k = "blocks"
  BY <1>1, <1>3 DEF Used, DoneRecords
<1>4. CASE k = "rollbacks"
  BY <1>1, <1>4 DEF Used, DoneRecords
<1>5. CASE k = "packages"
  BY <1>1, <1>5 DEF Used, DoneRecords
<1>6. CASE k = "restarts"
  BY <1>1, <1>6 DEF Used, DoneRecords
<1>7. Used("restarts").restarts = done.restarts + 1
  BY <1>1 DEF Used, DoneRecords
<1> QED BY <1>2, <1>3, <1>4, <1>5, <1>6, <1>7

\* What EXCEPT does to two fields of a packer.
LEMMA PackerExcept ==
    ASSUME NEW s, NEW q,
           packer = [pc |-> packer.pc, taken |-> packer.taken, seen |-> packer.seen,
                     block |-> packer.block]
    PROVE  [packer EXCEPT !.seen = s, !.taken = q] =
               [pc |-> packer.pc, taken |-> q, seen |-> s, block |-> packer.block]
<1> DEFINE e == [packer EXCEPT !.seen = s, !.taken = q]
           r == [pc |-> packer.pc, taken |-> q, seen |-> s, block |-> packer.block]
           F == {"pc", "taken", "seen", "block"}
<1>1. DOMAIN packer = F
  OBVIOUS
<1>2. DOMAIN e = F /\ e.pc = packer.pc /\ e.taken = q /\ e.seen = s /\ e.block = packer.block
  BY <1>1
<1>3. e = [f \in F |-> e[f]]
  BY <1>1
<1>4. /\ r = [f \in F |-> r[f]]
      /\ r.pc = packer.pc /\ r.taken = q /\ r.seen = s /\ r.block = packer.block
  OBVIOUS
<1>5. \A f \in F : e[f] = r[f]
  <2> HIDE DEF e, r
  <2> QED BY <1>2, <1>4
<1>6. e = r
  <2> HIDE DEF e, r, F
  <2> QED BY <1>3, <1>4, <1>5
<1> QED BY <1>6

LEMMA PackerFacts ==
    ASSUME TypeInv
    PROVE  /\ packer.pc \in {"idle", "packaged", "order"}
           /\ packer.taken \in Seq(Txs) /\ packer.block \in Seq(Txs) /\ packer.seen \in Nat
           /\ packer = [pc |-> packer.pc, taken |-> packer.taken, seen |-> packer.seen,
                        block |-> packer.block]
           /\ packer.pc = "packaged" => Queue = packagedOrder
           /\ packer.pc # "packaged" => Queue = order
           /\ Queue \in Seq(Txs)
<1>1. packer \in PackerRecords /\ order \in Seq(Txs) /\ packagedOrder \in Seq(Txs)
  BY TypeFacts
<1>2. /\ packer.pc \in {"idle", "packaged", "order"}
      /\ packer.taken \in Seq(Txs) /\ packer.block \in Seq(Txs) /\ packer.seen \in Nat
      /\ packer = [pc |-> packer.pc, taken |-> packer.taken, seen |-> packer.seen,
                   block |-> packer.block]
  BY <1>1 DEF PackerRecords
<1>3. /\ packer.pc = "packaged" => Queue = packagedOrder
      /\ packer.pc # "packaged" => Queue = order
  BY DEF Queue
<1> QED BY <1>1, <1>2, <1>3

\* A state of the packer, from its parts.
LEMMA PackerType ==
    ASSUME NEW pc \in {"idle", "packaged", "order"}, NEW taken \in Seq(Txs), NEW seen \in Nat,
           NEW block \in Seq(Txs)
    PROVE  [pc |-> pc, taken |-> taken, seen |-> seen, block |-> block] \in PackerRecords
BY DEF PackerRecords

\* A poll finds a transaction of the pool that is on the chain, one that is not, or one
\* that the pool no longer has.
LEMMA PollFacts ==
    ASSUME TypeInv, Poll
    PROVE  /\ Queue # <<>> /\ Head(Queue) \in Txs /\ packer.pc # "idle" /\ packer.seen < Limit
           /\ \/ /\ packer.pc = "packaged"
                 /\ packagedOrder' = Tail(packagedOrder) /\ order' = order
              \/ /\ packer.pc = "order"
                 /\ order' = Tail(order) /\ packagedOrder' = packagedOrder
           /\ \/ Head(Queue) \notin caches /\ UNCHANGED <<packer, caches, removals>>
              \/ /\ Head(Queue) \in caches /\ Head(Queue) \in OnChain
                 /\ Removed("packer", Head(Queue))
                 /\ packer' = [pc |-> packer.pc, taken |-> packer.taken,
                               seen |-> packer.seen + 1, block |-> packer.block]
              \/ /\ Head(Queue) \in caches /\ Head(Queue) \notin OnChain
                 /\ UNCHANGED <<caches, removals>>
                 /\ packer' = [pc |-> packer.pc, taken |-> Append(packer.taken, Head(Queue)),
                               seen |-> packer.seen + 1, block |-> packer.block]
           /\ packer' \in PackerRecords
<1> DEFINE t == Head(Queue)
           p == packer
           s == packer.seen + 1
           q == Append(packer.taken, t)
<1>1. Queue # <<>> /\ packer.pc # "idle" /\ packer.seen < Limit /\ ~Removing("packer")
  BY DEF Poll, Reads
<1>2. Queue \in Seq(Txs) /\ packer.taken \in Seq(Txs) /\ packer.block \in Seq(Txs)
  BY PackerFacts
<1>3. packer.pc \in {"idle", "packaged", "order"} /\ packer.seen \in Nat
  BY PackerFacts
<1>4. t \in Txs
  BY <1>1, <1>2, HeadTailProperties
<1>5. s \in Nat /\ q \in Seq(Txs)
  BY <1>2, <1>3, <1>4, AppendProperties
<1>6. packer = [pc |-> packer.pc, taken |-> packer.taken, seen |-> packer.seen,
                block |-> packer.block]
  BY PackerFacts
<1>7. [packer EXCEPT !.seen = s, !.taken = q] =
          [pc |-> packer.pc, taken |-> q, seen |-> s, block |-> packer.block]
  <2> HIDE DEF s, q
  <2> QED BY <1>6, PackerExcept
<1>8. [packer EXCEPT !.seen = s] =
            [pc |-> packer.pc, taken |-> packer.taken, seen |-> s, block |-> packer.block]
  <2> DEFINE r == [pc |-> packer.pc, taken |-> packer.taken, seen |-> packer.seen,
                   block |-> packer.block]
  <2>1. [r EXCEPT !.seen = s] =
            [pc |-> packer.pc, taken |-> packer.taken, seen |-> s, block |-> packer.block]
    <3> HIDE DEF s
    <3> QED OBVIOUS
  <2> HIDE DEF s, r
  <2>2. packer = r
    BY <1>6 DEF r
  <2> QED BY <2>1, <2>2
<1>9. \/ t \notin caches /\ UNCHANGED <<packer, caches, removals>>
      \/ t \in caches /\ t \in OnChain /\ Removed("packer", t)
         /\ packer' = [packer EXCEPT !.seen = s]
      \/ t \in caches /\ t \notin OnChain /\ UNCHANGED <<caches, removals>>
         /\ packer' = [packer EXCEPT !.seen = s, !.taken = q]
  BY DEF Poll
<1>10. \/ packer.pc = "packaged" /\ packagedOrder' = Tail(packagedOrder) /\ order' = order
       \/ packer.pc = "order" /\ order' = Tail(order) /\ packagedOrder' = packagedOrder
  BY <1>1, <1>3, PackerFacts DEF Poll
<1>11. packer' \in PackerRecords
  <2>1. [pc |-> packer.pc, taken |-> q, seen |-> s, block |-> packer.block] \in PackerRecords
    <3> HIDE DEF q, s
    <3> QED BY <1>2, <1>3, <1>5, PackerType
  <2>2. [pc |-> packer.pc, taken |-> packer.taken, seen |-> s, block |-> packer.block]
            \in PackerRecords
    <3> HIDE DEF q, s
    <3> QED BY <1>2, <1>3, <1>5, PackerType
  <2>3. packer \in PackerRecords
    BY TypeFacts
  <2> HIDE DEF q, s, t
  <2> QED BY <1>7, <1>8, <1>9, <2>1, <2>2, <2>3
<1>12. \/ t \notin caches /\ UNCHANGED <<packer, caches, removals>>
       \/ t \in caches /\ t \in OnChain /\ Removed("packer", t)
          /\ packer' = [pc |-> packer.pc, taken |-> packer.taken, seen |-> s,
                        block |-> packer.block]
       \/ t \in caches /\ t \notin OnChain /\ UNCHANGED <<caches, removals>>
          /\ packer' = [pc |-> packer.pc, taken |-> q, seen |-> s, block |-> packer.block]
  <2> HIDE DEF q, s, t
  <2> QED BY <1>7, <1>8, <1>9
<1> QED BY <1>1, <1>4, <1>10, <1>11, <1>12

LEMMA TypeInvInit == Init => TypeInv
<1> SUFFICES ASSUME Init PROVE TypeInv
  OBVIOUS
<1>1. SavedType /\ SavedShape
  BY DEF Init, NothingSaved, SavedType, SavedShape
<1>2. packer \in PackerRecords /\ done \in DoneRecords
  BY DEF Init, Resting, PackerRecords, DoneRecords
<1>3. adder \in [Adders -> AdderRecords]
  BY DEF Init, AdderRecords
<1> QED BY <1>1, <1>2, <1>3, TypeFacts DEF Init

LEMMA TypeInvNext == TypeInv /\ [Next]_vars => TypeInv'
<1> SUFFICES ASSUME TypeInv, [Next]_vars PROVE TypeInv'
  OBVIOUS
<1>1. ASSUME NEW a \in Adders, Adding(a) PROVE TypeInv'
  <2>1. ASSUME NEW t \in Txs, Check(a, t) PROVE TypeInv'
    <3>1. [pc |-> "checked", tx |-> t] \in AdderRecords
      BY DEF AdderRecords, AdderPcs
    <3>2. adder' \in [Adders -> AdderRecords]
      BY <2>1, <3>1, TypeFacts DEF Check
    <3>3. done' \in DoneRecords
      BY <2>1, UsedType DEF Check
    <3> QED BY <2>1, <3>2, <3>3, TypeStep DEF Check, pool
  <2>2. CASE Admit(a)
    <3>1. adder[a].pc # "idle"
      BY <2>2 DEF Admit
    <3>2. Moved(a, "admitted") \in AdderRecords /\ Idle \in AdderRecords
      BY <3>1, AdderFacts DEF AdderRecords, AdderPcs
    <3>3. adder' = [adder EXCEPT ![a] = IF count < CacheMaxSize
                                        THEN Moved(a, "admitted") ELSE Idle]
      BY <2>2, <3>1, AdderFacts DEF Admit
    <3>4. adder' \in [Adders -> AdderRecords]
      BY <3>2, <3>3, TypeFacts
    <3> QED BY <2>2, <3>4, TypeStep DEF Admit, pool
  <2>3. CASE Put(a)
    <3>1. adder[a].pc # "idle" /\ adder[a].tx \in Txs
      BY <2>3, AdderFacts DEF Put
    <3>2. Moved(a, "put") \in AdderRecords /\ Idle \in AdderRecords
      BY <2>3, AdderFacts DEF Put, AdderRecords, AdderPcs
    <3>3. adder' \in [Adders -> AdderRecords]
      <4>1. \/ adder' = [adder EXCEPT ![a] = Moved(a, "put")]
            \/ adder' = [adder EXCEPT ![a] = Idle]
        BY <2>3, AdderFacts DEF Put
      <4> QED BY <4>1, <3>2, TypeFacts
    <3>4. caches' \subseteq Txs
      BY <2>3, <3>1, TypeFacts DEF Put
    <3> QED BY <2>3, <3>3, <3>4, TypeStep DEF Put
  <2>4. CASE Enqueue(a)
    <3>1. adder[a].pc # "idle" /\ adder[a].tx \in Txs
      BY <2>4, AdderFacts DEF Enqueue
    <3>2. Moved(a, "queued") \in AdderRecords
      BY <2>4, AdderFacts DEF Enqueue, AdderPcs
    <3>3. adder' \in [Adders -> AdderRecords]
      <4>1. adder' = [adder EXCEPT ![a] = Moved(a, "queued")]
        BY <2>4, AdderFacts DEF Enqueue
      <4> QED BY <4>1, <3>2, TypeFacts
    <3>4. count' \in Int /\ order' \in Seq(Txs) /\ arrived' \in Seq(Txs)
      BY <2>4, <3>1, TypeFacts DEF Enqueue
    <3> QED BY <2>4, <3>3, <3>4, TypeStep DEF Enqueue
  <2>5. CASE Store(a)
    <3>1. adder[a].tx \in Txs /\ SavedType /\ saved' = Stored(adder[a].tx)
      BY <2>5, AdderFacts, SavedIsTyped DEF Store
    <3>2. SavedType' /\ SavedShape'
      BY <3>1, StoredFacts
    <3>3. adder' \in [Adders -> AdderRecords]
      BY <2>5, TypeFacts DEF Store, AdderRecords
    <3> QED BY <2>5, <3>2, <3>3, TypeStep DEF Store, pool
  <2> QED BY <1>1, <2>1, <2>2, <2>3, <2>4, <2>5 DEF Adding
<1>2. ASSUME NEW b \in SUBSET Txs, SaveBlock(b) PROVE TypeInv'
  <2>1. chain' \in Seq(SUBSET Txs) /\ storager' \subseteq Txs
    BY <1>2, TypeFacts DEF SaveBlock
  <2>2. done' \in DoneRecords
    BY <1>2, UsedType DEF SaveBlock
  <2> QED BY <1>2, <2>1, <2>2, TypeStep DEF SaveBlock, pool
<1>3. ASSUME NEW t \in storager, RemoveSaved(t) PROVE TypeInv'
  <2>1. caches' \subseteq Txs /\ storager' \subseteq Txs
    BY <1>3, TypeFacts DEF RemoveSaved, Removed
  <2>2. removals' \subseteq RemovalRecords
    <3>1. [by |-> "storager", tx |-> t, counted |-> t \in caches] \in RemovalRecords
      <4>1. t \in Txs /\ (t \in caches) \in BOOLEAN
        BY TypeFacts
      <4> QED BY <4>1 DEF RemovalRecords, Removers
    <3> QED BY <1>3, <3>1, TypeFacts DEF RemoveSaved, Removed
  <2> QED BY <1>3, <2>1, <2>2, TypeStep DEF RemoveSaved
<1>4. CASE Package
  <2>1. packer' \in PackerRecords
    <3>1. packer' = [pc |-> "packaged", taken |-> <<>>, seen |-> 0, block |-> <<>>]
      BY <1>4 DEF Package, Resting
    <3>2. <<>> \in Seq(Txs)
      OBVIOUS
    <3> QED BY <3>1, <3>2, PackerType
  <2>2. done' \in DoneRecords
    BY <1>4, UsedType DEF Package
  <2> QED BY <1>4, <2>1, <2>2, TypeStep DEF Package, pool
<1>5. CASE Poll
  <2>1. Queue # <<>> /\ Queue \in Seq(Txs) /\ Head(Queue) \in Txs
    BY <1>5, PollFacts, PackerFacts
  <2>2. /\ order' \in Seq(Txs) \/ order' = order
        /\ packagedOrder' \in Seq(Txs) \/ packagedOrder' = packagedOrder
    <3>1. Tail(Queue) \in Seq(Txs)
      BY <2>1, HeadTailProperties
    <3> QED BY <1>5, <3>1, PollFacts, PackerFacts
  <2>3. caches' \subseteq Txs
    BY <1>5, TypeFacts DEF Poll, Removed
  <2>4. removals' \subseteq RemovalRecords
    <3>1. [by |-> "packer", tx |-> Head(Queue), counted |-> Head(Queue) \in caches]
              \in RemovalRecords
      BY <2>1 DEF RemovalRecords, Removers
    <3> QED BY <1>5, <3>1, TypeFacts DEF Poll, Removed
  <2>5. packer' \in PackerRecords
    BY <1>5, PollFacts
  <2> QED BY <1>5, <2>2, <2>3, <2>4, <2>5, TypeStep DEF Poll
<1>6. CASE EndQueue
  <2>1. packer.block \o packer.taken \in Seq(Txs) /\ packagedOrder' \in Seq(Txs)
    BY <1>6, PackerFacts, TypeFacts, ConcatProperties DEF EndQueue
  <2>2. packer' \in PackerRecords
    BY <1>6, <2>1 DEF EndQueue, PackerRecords
  <2> QED BY <1>6, <2>1, <2>2, TypeStep DEF EndQueue
<1>7. ASSUME NEW r \in removals, EndRemoval(r) PROVE TypeInv'
  <2>1. SavedType' /\ SavedShape'
    BY <1>7, TypeFacts, DeletedFacts DEF EndRemoval
  <2>2. count' \in Int /\ removals' \subseteq RemovalRecords
    BY <1>7, TypeFacts DEF EndRemoval
  <2> QED BY <1>7, <2>1, <2>2, TypeStep DEF EndRemoval
<1>8. CASE RollBack
  <2>1. chain \in Seq(SUBSET Txs) /\ chain # <<>>
    BY <1>8, TypeFacts DEF RollBack
  <2>2. Len(chain) \in Nat \ {0} /\ chain[Len(chain)] \in SUBSET Txs
    BY <2>1
  <2>3. chain' \in Seq(SUBSET Txs)
    BY <1>8, <2>1, <2>2 DEF RollBack
  <2>4. undone' \subseteq Txs
    BY <1>8, <2>2, TypeFacts DEF RollBack
  <2>5. done' \in DoneRecords
    BY <1>8, UsedType DEF RollBack
  <2> QED BY <1>8, <2>3, <2>4, <2>5, TypeStep DEF RollBack, pool
<1>9. CASE Restart
  <2>1. SavedType /\ SavedShape
    BY TypeFacts
  <2>2. SavedType' /\ SavedShape'
    BY <1>9, <2>1, DeletedFacts DEF Restart
  <2>3. ToLoad \in Seq(Txs) /\ Len(ToLoad) \in Int
    BY <2>1, ToLoadFacts
  <2>4. Elements(ToLoad) \subseteq Txs
    BY <2>3 DEF Elements
  <2>5. packer' \in PackerRecords /\ adder' \in [Adders -> AdderRecords]
    BY <1>9 DEF Restart, Resting, PackerRecords, AdderRecords
  <2>6. done' \in DoneRecords
    BY <1>9, UsedType DEF Restart
  <2>7. /\ caches' = Elements(ToLoad) /\ count' = Len(ToLoad) /\ order' = ToLoad
        /\ packagedOrder' = <<>> /\ loaded' = Elements(ToLoad)
        /\ storager' = {} /\ removals' = {} /\ UNCHANGED <<chain, arrived, undone>>
    BY <1>9 DEF Restart
  <2> QED BY <2>2, <2>3, <2>4, <2>5, <2>6, <2>7, TypeStep
<1>10. CASE UNCHANGED vars
  BY <1>10, TypeStep DEF vars
<1> QED BY <1>1, <1>2, <1>3, <1>4, <1>5, <1>6, <1>7, <1>8, <1>9, <1>10
        DEF Next, Storing, Packing

-----------------------------------------------------------------------------
(* What is settled, and the saved copy.                                     *)

\* Blocks come and go at the end of the chain.
LEMMA ChainSteps ==
    ASSUME TypeInv, [Next]_vars
    PROVE  \/ \E b \in SUBSET Txs : SaveBlock(b) /\ OnChain' = OnChain \cup b
           \/ /\ RollBack /\ OnChain' \subseteq OnChain
              /\ OnChain \subseteq OnChain' \cup undone'
           \/ UNCHANGED <<chain, undone>> /\ OnChain' = OnChain
<1>1. chain \in Seq(SUBSET Txs)
  BY TypeFacts
<1>2. ASSUME NEW b \in SUBSET Txs, SaveBlock(b) PROVE OnChain' = OnChain \cup b
  <2>1. /\ chain' = Append(chain, b) /\ DOMAIN chain = 1 .. Len(chain) /\ Len(chain) \in Nat
        /\ DOMAIN chain' = 1 .. Len(chain) + 1 /\ chain'[Len(chain) + 1] = b
        /\ \A i \in 1 .. Len(chain) : chain'[i] = chain[i]
    BY <1>1, <1>2 DEF SaveBlock
  <2>2. \A i : i \in 1 .. Len(chain) + 1 <=> i \in 1 .. Len(chain) \/ i = Len(chain) + 1
    BY <2>1
  <2>3. Elements(chain') = Elements(chain) \cup {b}
    BY <2>1, <2>2 DEF Elements
  <2> QED BY <2>3 DEF OnChain
<1>3. ASSUME RollBack
      PROVE  OnChain' \subseteq OnChain /\ OnChain \subseteq OnChain' \cup undone'
  <2>1. /\ chain # <<>> /\ chain' = SubSeq(chain, 1, Len(chain) - 1)
        /\ undone' = undone \cup chain[Len(chain)]
    BY <1>3 DEF RollBack
  <2>2. /\ DOMAIN chain = 1 .. Len(chain) /\ Len(chain) \in Nat \ {0}
        /\ DOMAIN chain' = 1 .. Len(chain) - 1
        /\ \A i \in 1 .. Len(chain) - 1 : chain'[i] = chain[i]
    BY <1>1, <2>1
  <2>3. \A i : i \in 1 .. Len(chain) <=> i \in 1 .. Len(chain) - 1 \/ i = Len(chain)
    BY <2>2
  <2>4. Elements(chain) = Elements(chain') \cup {chain[Len(chain)]}
    BY <2>2, <2>3 DEF Elements
  <2> QED BY <2>1, <2>4 DEF OnChain
<1>4. UNCHANGED <<chain, undone>> => OnChain' = OnChain
  BY DEF OnChain
<1>5. \/ \E b \in SUBSET Txs : SaveBlock(b)
      \/ RollBack
      \/ UNCHANGED <<chain, undone>>
  BY DEF Next, Adding, Check, Admit, Put, Enqueue, Store, Storing, RemoveSaved, Packing, Package,
         Poll, EndQueue, EndRemoval, Restart, vars
<1> QED BY <1>2, <1>3, <1>4, <1>5

\* What is settled stays so.
LEMMA SettledGrows ==
    ASSUME TypeInv, [Next]_vars
    PROVE  /\ Settled \subseteq Settled' /\ undone \subseteq undone'
           /\ OnChain \subseteq OnChain' \cup undone'
<1>1. undone \subseteq undone'
  BY ChainSteps DEF SaveBlock, RollBack
<1>2. OnChain \subseteq OnChain' \cup undone'
  BY ChainSteps
<1> QED BY <1>1, <1>2 DEF Settled

LEMMA SavedInvInit == Init => SavedInv
BY DEF Init, SavedInv, NothingSaved

LEMMA SavedInvNext == TypeInv /\ SavedInv /\ [Next]_vars => SavedInv'
<1> SUFFICES ASSUME TypeInv, SavedInv, [Next]_vars PROVE SavedInv'
  OBVIOUS
<1>1. Settled \subseteq Settled'
  BY SettledGrows
<1>2. SavedType /\ SavedShape
  BY TypeFacts
<1>3. ASSUME saved' = saved, storager' \subseteq Settled', \A r \in removals' : r.tx \in Settled'
      PROVE  SavedInv'
  <2>1. \A t \in DOMAIN saved.byTx :
           saved.byTx[t] \in DOMAIN saved.bySerial /\ saved.bySerial[saved.byTx[t]] = t
    BY DEF SavedInv
  <2>2. \A n \in DOMAIN saved.bySerial : saved.bySerial[n] \in Settled' \cup DOMAIN saved.byTx
    BY <1>1 DEF SavedInv
  <2> QED BY <1>3, <2>1, <2>2 DEF SavedInv
<1>4. storager \subseteq Settled' /\ \A r \in removals : r.tx \in Settled'
  BY <1>1 DEF SavedInv
<1>5. ASSUME NEW S, saved' = Deleted(S), S \cap DOMAIN saved.byTx \subseteq Settled,
             storager' \subseteq storager, removals' \subseteq removals
      PROVE  SavedInv'
  <2> DEFINE gone == {saved.byTx[t] : t \in S \cap DOMAIN saved.byTx}
  <2>1. /\ DOMAIN saved'.bySerial = DOMAIN saved.bySerial \ gone
        /\ \A n \in DOMAIN saved'.bySerial : saved'.bySerial[n] = saved.bySerial[n]
        /\ DOMAIN saved'.byTx = DOMAIN saved.byTx \ S
        /\ \A u \in DOMAIN saved'.byTx : saved'.byTx[u] = saved.byTx[u]
    BY <1>2, <1>5, DeletedFacts
  <2>2. ASSUME NEW u \in DOMAIN saved.byTx \ S PROVE saved.byTx[u] \notin gone
    BY DEF SavedInv
  <2>3. \A t \in DOMAIN saved'.byTx :
            saved'.byTx[t] \in DOMAIN saved'.bySerial /\ saved'.bySerial[saved'.byTx[t]] = t
    <3> HIDE DEF gone
    <3> QED BY <2>1, <2>2 DEF SavedInv
  <2>4. \A n \in DOMAIN saved'.bySerial : saved'.bySerial[n] \in Settled' \cup DOMAIN saved'.byTx
    <3> HIDE DEF gone
    <3> QED BY <1>1, <1>5, <2>1 DEF SavedInv
  <2> HIDE DEF gone
  <2> QED BY <1>4, <1>5, <2>3, <2>4 DEF SavedInv
<1>6. ASSUME NEW a \in Adders, Adding(a) PROVE SavedInv'
  <2>1. CASE Store(a)
    <3> DEFINE t == adder[a].tx
    <3>1. t \in Txs /\ saved' = Stored(t) /\ storager' = storager /\ removals' = removals
      BY <2>1, AdderFacts DEF Store
    <3>2. /\ DOMAIN saved'.bySerial = DOMAIN saved.bySerial \cup {saved.last + 1}
          /\ saved'.bySerial[saved.last + 1] = t
          /\ \A n \in DOMAIN saved.bySerial : saved'.bySerial[n] = saved.bySerial[n]
          /\ DOMAIN saved'.byTx = DOMAIN saved.byTx \cup {t}
          /\ saved'.byTx[t] = saved.last + 1
          /\ \A u \in DOMAIN saved.byTx \ {t} : saved'.byTx[u] = saved.byTx[u]
      <4> HIDE DEF t
      <4> QED BY <1>2, <3>1, StoredFacts
    <3> HIDE DEF t
    <3>3. \A u \in DOMAIN saved'.byTx :
              saved'.byTx[u] \in DOMAIN saved'.bySerial /\ saved'.bySerial[saved'.byTx[u]] = u
      BY <3>2 DEF SavedInv
    <3>4. \A n \in DOMAIN saved'.bySerial : saved'.bySerial[n] \in Settled' \cup DOMAIN saved'.byTx
      BY <1>1, <3>2 DEF SavedInv
    <3> QED BY <1>4, <3>1, <3>3, <3>4 DEF SavedInv
  <2>2. CASE ~Store(a)
    <3>1. UNCHANGED <<saved, storager, removals>>
      BY <1>6, <2>2 DEF Adding, Check, Admit, Put, Enqueue, pool
    <3> QED BY <1>3, <1>4, <3>1
  <2> QED BY <2>1, <2>2
<1>7. ASSUME NEW b \in SUBSET Txs, SaveBlock(b) PROVE SavedInv'
  <2>1. b \subseteq OnChain'
    <3>1. chain' = Append(chain, b) /\ chain \in Seq(SUBSET Txs)
      BY <1>7, TypeFacts DEF SaveBlock
    <3>2. Len(chain) + 1 \in DOMAIN chain' /\ chain'[Len(chain) + 1] = b
      BY <3>1
    <3> QED BY <3>2 DEF OnChain, Elements
  <2>2. storager' = b /\ UNCHANGED <<saved, removals>>
    BY <1>7 DEF SaveBlock
  <2> QED BY <1>3, <1>4, <2>1, <2>2 DEF Settled
<1>8. ASSUME NEW t \in storager, RemoveSaved(t) PROVE SavedInv'
  <2>1. /\ saved' = saved /\ storager' \subseteq storager
        /\ removals' = removals \cup {[by |-> "storager", tx |-> t, counted |-> t \in caches]}
    BY <1>8 DEF RemoveSaved, Removed
  <2>2. t \in Settled'
    BY <1>4
  <2> QED BY <1>3, <1>4, <2>1, <2>2
<1>9. CASE Poll
  <2>1. saved' = saved /\ storager' = storager
    BY <1>9 DEF Poll
  <2>2. \A r \in removals' : r.tx \in Settled'
    <3>1. CASE removals' = removals
      BY <1>4, <3>1
    <3>2. CASE Head(Queue) \in OnChain /\ Removed("packer", Head(Queue))
      BY <1>1, <1>4, <3>2 DEF Removed, Settled
    <3> QED BY <1>9, <3>1, <3>2, PollFacts
  <2> QED BY <1>3, <1>4, <2>1, <2>2
<1>10. CASE Package \/ EndQueue \/ RollBack \/ UNCHANGED vars
  <2>1. UNCHANGED <<saved, storager, removals>>
    BY <1>10 DEF Package, EndQueue, RollBack, vars
  <2> QED BY <1>3, <1>4, <2>1
<1>11. ASSUME NEW r \in removals, EndRemoval(r) PROVE SavedInv'
  <2>1. saved' = Deleted({r.tx}) /\ storager' = storager /\ removals' \subseteq removals
    BY <1>11 DEF EndRemoval
  <2>2. {r.tx} \cap DOMAIN saved.byTx \subseteq Settled
    BY DEF SavedInv
  <2> QED BY <1>5, <2>1, <2>2
<1>12. CASE Restart
  <2>1. saved' = Deleted(Elements(Walked) \cap OnChain) /\ storager' = {} /\ removals' = {}
    BY <1>12 DEF Restart
  <2>2. (Elements(Walked) \cap OnChain) \cap DOMAIN saved.byTx \subseteq Settled
    BY DEF Settled
  <2> QED BY <1>5, <2>1, <2>2
<1> QED BY <1>6, <1>7, <1>8, <1>9, <1>10, <1>11, <1>12 DEF Next, Storing, Packing

-----------------------------------------------------------------------------
(* The counter and the limit.                                               *)

Counted == {r \in removals : r.counted}

LEMMA CountIs ==
    CountInStep <=>
        count = Cardinality(caches) + Cardinality(Counted) - Cardinality(AddersAt({"put"}))
BY DEF CountInStep, Counted

LEMMA FiniteFacts ==
    ASSUME TypeInv, IsFiniteSet(removals)
    PROVE  /\ IsFiniteSet(caches) /\ Cardinality(caches) \in Nat
           /\ IsFiniteSet(Counted) /\ Cardinality(Counted) \in Nat
           /\ \A pcs : /\ IsFiniteSet(AddersAt(pcs)) /\ Cardinality(AddersAt(pcs)) \in Nat
                       /\ Cardinality(AddersAt(pcs)) <= Cardinality(Adders)
           /\ Cardinality(Adders) \in Nat
<1>1. IsFiniteSet(Txs) /\ IsFiniteSet(Adders) /\ caches \in SUBSET Txs
  BY ConstantFacts, TypeFacts
<1>2. IsFiniteSet(caches) /\ Counted \in SUBSET removals
  BY <1>1, FS_Subset DEF Counted
<1>3. IsFiniteSet(Counted)
  BY <1>2, FS_Subset
<1>4. ASSUME NEW pcs
      PROVE  /\ IsFiniteSet(AddersAt(pcs))
             /\ Cardinality(AddersAt(pcs)) <= Cardinality(Adders)
  <2>1. AddersAt(pcs) \in SUBSET Adders
    BY DEF AddersAt
  <2> QED BY <1>1, <2>1, FS_Subset
<1> QED BY <1>1, <1>2, <1>3, <1>4, FS_CardinalityType

\* Where an adder has gone, seen from the sets of adders.
LEMMA AddersAtStep ==
    ASSUME TypeInv, NEW a \in Adders, NEW d \in AdderRecords, adder' = [adder EXCEPT ![a] = d],
           NEW pc
    PROVE  AddersAt({pc})' = IF d.pc = pc THEN AddersAt({pc}) \cup {a} ELSE AddersAt({pc}) \ {a}
<1>1. adder'[a] = d /\ \A c \in Adders \ {a} : adder'[c] = adder[c]
  BY AdderStep
<1> QED BY <1>1 DEF AddersAt

\* A step of an adder, seen from the sets of adders and the map.
LEMMA AddingSteps ==
    ASSUME TypeInv, NEW a \in Adders, Adding(a)
    PROVE  LET put == AddersAt({"put"})
               adm == AddersAt({"admitted"})
           IN  /\ UNCHANGED <<removals, loaded>>
               /\ \/ /\ UNCHANGED <<caches, count>> /\ put' = put
                     /\ adm' \subseteq adm
                  \/ /\ UNCHANGED <<caches, count>> /\ put' = put
                     /\ count < CacheMaxSize
                     /\ a \notin put /\ a \notin adm /\ adm' = adm \cup {a}
                  \/ /\ UNCHANGED count
                     /\ a \notin put /\ a \in adm /\ adm' = adm \ {a} /\ put' = put \cup {a}
                     /\ adder[a].tx \notin caches /\ caches' = caches \cup {adder[a].tx}
                  \/ /\ UNCHANGED caches /\ count' = count + 1
                     /\ a \in put /\ adm' = adm /\ put' = put \ {a}
<1> DEFINE put == AddersAt({"put"})
           adm == AddersAt({"admitted"})
<1>1. UNCHANGED <<removals, loaded>>
  BY DEF Adding, Check, Admit, Put, Enqueue, Store, pool
<1>2. /\ a \in put <=> adder[a].pc = "put"
      /\ a \in adm <=> adder[a].pc = "admitted"
  BY DEF AddersAt
<1>3. ASSUME NEW d \in AdderRecords, adder' = [adder EXCEPT ![a] = d]
      PROVE  /\ put' = IF d.pc = "put" THEN put \cup {a} ELSE put \ {a}
             /\ adm' = IF d.pc = "admitted" THEN adm \cup {a} ELSE adm \ {a}
  BY <1>3, AddersAtStep
<1>4. Idle \in AdderRecords /\ Idle.pc = "idle"
  BY DEF AdderRecords, Idle
<1>5. ASSUME NEW t \in Txs, Check(a, t)
      PROVE  UNCHANGED <<caches, count>> /\ put' = put /\ adm' \subseteq adm
  <2> DEFINE d == [pc |-> "checked", tx |-> t]
  <2>1. d \in AdderRecords /\ d.pc = "checked"
    BY DEF AdderRecords, AdderPcs
  <2>2. adder' = [adder EXCEPT ![a] = d] /\ adder[a].pc = "idle" /\ UNCHANGED <<caches, count>>
    BY <1>5 DEF Check, pool
  <2> HIDE DEF d
  <2>3. /\ put' = IF d.pc = "put" THEN put \cup {a} ELSE put \ {a}
        /\ adm' = IF d.pc = "admitted" THEN adm \cup {a} ELSE adm \ {a}
    BY <1>3, <2>1, <2>2
  <2> HIDE DEF put, adm
  <2> QED BY <1>2, <2>1, <2>2, <2>3
<1>6. ASSUME adder[a].pc # "idle", NEW pc \in AdderPcs, adder' = [adder EXCEPT ![a] = Moved(a, pc)]
      PROVE  /\ put' = IF pc = "put" THEN put \cup {a} ELSE put \ {a}
             /\ adm' = IF pc = "admitted" THEN adm \cup {a} ELSE adm \ {a}
  <2>1. Moved(a, pc) \in AdderRecords /\ Moved(a, pc).pc = pc
    <3>1. Moved(a, pc) \in AdderRecords
      BY <1>6, AdderFacts
    <3> QED BY <3>1 DEF Moved
  <2> QED BY <1>3, <1>6, <2>1
<1>7. {"checked", "admitted", "put", "queued"} = AdderPcs
  BY DEF AdderPcs
<1>8. ASSUME Admit(a)
      PROVE  /\ UNCHANGED <<caches, count>> /\ put' = put /\ a \notin put /\ a \notin adm
             /\ \/ adm' \subseteq adm
                \/ count < CacheMaxSize /\ adm' = adm \cup {a}
  <2>1. adder[a].pc = "checked" /\ UNCHANGED <<caches, count>>
    BY <1>8 DEF Admit, pool
  <2>2. \/ count < CacheMaxSize /\ adder' = [adder EXCEPT ![a] = Moved(a, "admitted")]
        \/ adder' = [adder EXCEPT ![a] = Idle]
    BY <1>8, <2>1, AdderFacts DEF Admit
  <2> HIDE DEF put, adm
  <2>3. CASE adder' = [adder EXCEPT ![a] = Idle]
    <3>1. put' = put \ {a} /\ adm' = adm \ {a}
      BY <1>3, <1>4, <2>3
    <3> QED BY <1>2, <2>1, <3>1
  <2>4. CASE count < CacheMaxSize /\ adder' = [adder EXCEPT ![a] = Moved(a, "admitted")]
    <3>1. put' = put \ {a} /\ adm' = adm \cup {a}
      BY <1>6, <1>7, <2>1, <2>4
    <3> QED BY <1>2, <2>1, <2>4, <3>1
  <2> QED BY <2>2, <2>3, <2>4
<1>9. ASSUME Put(a)
      PROVE  /\ UNCHANGED count /\ a \notin put /\ a \in adm
             /\ \/ UNCHANGED caches /\ put' = put /\ adm' \subseteq adm
                \/ /\ adm' = adm \ {a} /\ put' = put \cup {a}
                   /\ adder[a].tx \notin caches /\ caches' = caches \cup {adder[a].tx}
  <2>1. adder[a].pc = "admitted" /\ UNCHANGED count
    BY <1>9 DEF Put
  <2>2. \/ UNCHANGED caches /\ adder' = [adder EXCEPT ![a] = Idle]
        \/ /\ adder' = [adder EXCEPT ![a] = Moved(a, "put")]
           /\ adder[a].tx \notin caches /\ caches' = caches \cup {adder[a].tx}
    BY <1>9, <2>1, AdderFacts DEF Put
  <2> HIDE DEF put, adm
  <2>3. CASE UNCHANGED caches /\ adder' = [adder EXCEPT ![a] = Idle]
    <3>1. put' = put \ {a} /\ adm' = adm \ {a}
      BY <1>3, <1>4, <2>3
    <3> QED BY <1>2, <2>1, <2>3, <3>1
  <2>4. CASE /\ adder' = [adder EXCEPT ![a] = Moved(a, "put")]
             /\ adder[a].tx \notin caches /\ caches' = caches \cup {adder[a].tx}
    <3>1. put' = put \cup {a} /\ adm' = adm \ {a}
      BY <1>6, <1>7, <2>1, <2>4
    <3> QED BY <1>2, <2>1, <2>4, <3>1
  <2> QED BY <2>2, <2>3, <2>4
<1>10. ASSUME Enqueue(a)
       PROVE  /\ UNCHANGED caches /\ count' = count + 1
              /\ a \in put /\ adm' = adm /\ put' = put \ {a}
  <2>1. /\ adder[a].pc = "put" /\ UNCHANGED caches /\ count' = count + 1
        /\ adder' = [adder EXCEPT ![a] = Moved(a, "queued")]
    BY <1>10, AdderFacts DEF Enqueue
  <2> HIDE DEF put, adm
  <2>2. put' = put \ {a} /\ adm' = adm \ {a}
    BY <1>6, <1>7, <2>1
  <2> QED BY <1>2, <2>1, <2>2
<1>11. ASSUME Store(a)
       PROVE  UNCHANGED <<caches, count>> /\ put' = put /\ adm' \subseteq adm
  <2>1. /\ adder[a].pc = "queued" /\ UNCHANGED <<caches, count>>
        /\ adder' = [adder EXCEPT ![a] = Idle]
    BY <1>11 DEF Store, pool
  <2> HIDE DEF put, adm
  <2>2. put' = put \ {a} /\ adm' = adm \ {a}
    BY <1>3, <1>4, <2>1
  <2> QED BY <1>2, <2>1, <2>2
<1> HIDE DEF put, adm
<1> QED
  <2>1. (\E t \in Txs : Check(a, t)) \/ Admit(a) \/ Put(a) \/ Enqueue(a) \/ Store(a)
    BY DEF Adding
  <2>2. CASE \E t \in Txs : Check(a, t)
    BY <1>1, <1>5, <2>2 DEF put, adm
  <2>3. CASE Admit(a)
    BY <1>1, <1>8, <2>3 DEF put, adm
  <2>4. CASE Put(a)
    BY <1>1, <1>9, <2>4 DEF put, adm
  <2>5. CASE Enqueue(a)
    BY <1>1, <1>10, <2>5 DEF put, adm
  <2>6. CASE Store(a)
    BY <1>1, <1>11, <2>6 DEF put, adm
  <2> QED BY <2>1, <2>2, <2>3, <2>4, <2>5, <2>6

\* What has left the map is noted in the same call.
LEMMA RemovedCount ==
    ASSUME TypeInv, IsFiniteSet(removals), NEW by, NEW t, ~Removing(by), Removed(by, t)
    PROVE  /\ IsFiniteSet(removals')
           /\ Cardinality(caches') \in Nat /\ Cardinality(caches') <= Cardinality(caches)
           /\ Cardinality(Counted') \in Nat
           /\ Cardinality(caches') + Cardinality(Counted') =
                 Cardinality(caches) + Cardinality(Counted)
<1> DEFINE r == [by |-> by, tx |-> t, counted |-> t \in caches]
<1>1. r \notin removals
  BY DEF Removing
<1>2. removals' = removals \cup {r} /\ caches' = caches \ {t}
  BY DEF Removed
<1>3. IsFiniteSet(removals')
  <2> HIDE DEF r
  <2> QED BY <1>2, FS_AddElement
<1>4. r.counted <=> t \in caches
  OBVIOUS
<1>5. Counted' = IF t \in caches THEN Counted \cup {r} ELSE Counted
  <2> HIDE DEF r
  <2> QED BY <1>2, <1>4 DEF Counted
<1>6. r \notin Counted
  BY <1>1 DEF Counted
<1>7. /\ IsFiniteSet(caches) /\ IsFiniteSet(Counted)
      /\ Cardinality(caches) \in Nat /\ Cardinality(Counted) \in Nat
  BY FiniteFacts
<1> HIDE DEF r
<1>8. /\ IsFiniteSet(caches \ {t}) /\ IsFiniteSet(Counted \cup {r})
      /\ Cardinality(caches \ {t}) = IF t \in caches THEN Cardinality(caches) - 1
                                                     ELSE Cardinality(caches)
      /\ Cardinality(Counted \cup {r}) = Cardinality(Counted) + 1
  BY <1>6, <1>7, FS_AddElement, FS_RemoveElement
<1>9. Cardinality(caches \ {t}) \in Nat /\ Cardinality(Counted \cup {r}) \in Nat
  BY <1>8, FS_CardinalityType
<1>10. CASE t \in caches
  BY <1>2, <1>3, <1>5, <1>7, <1>8, <1>9, <1>10
<1>11. CASE t \notin caches
  BY <1>2, <1>3, <1>5, <1>7, <1>8, <1>9, <1>11
<1> QED BY <1>10, <1>11

\* Sums, for numbers of a step (the provers know less of primed numbers than of others).
LEMMA LessIsLess ==
    \A a, b, c, d \in Int : (c <= b /\ a + b <= d) => (a + c <= d /\ c + a <= d)
OBVIOUS

\* The packer and the storager remove one at a time.
LEMMA RemovalSteps ==
    ASSUME TypeInv, [Next]_vars
    PROVE  \/ \E a \in Adders : Adding(a)
           \/ /\ \E by, t : ~Removing(by) /\ Removed(by, t)
              /\ UNCHANGED <<count, adder, loaded>>
           \/ \E r \in removals : EndRemoval(r)
           \/ Restart
           \/ UNCHANGED <<caches, count, removals, adder, loaded>>
<1>1. CASE Storing
  BY <1>1 DEF Storing, SaveBlock, RemoveSaved, pool
<1>2. CASE Poll
  <2>1. UNCHANGED <<count, adder, loaded>> /\ ~Removing("packer")
    BY <1>2 DEF Poll
  <2>2. UNCHANGED <<caches, removals>> \/ Removed("packer", Head(Queue))
    BY <1>2, PollFacts
  <2> QED BY <2>1, <2>2
<1>3. CASE Package \/ EndQueue \/ RollBack \/ UNCHANGED vars
  BY <1>3 DEF Package, EndQueue, RollBack, vars, pool
<1> QED BY <1>1, <1>2, <1>3 DEF Next, Packing

LEMMA CountInit == Init => CountInv /\ AdmittedBounded
<1> SUFFICES ASSUME Init PROVE CountInv /\ AdmittedBounded
  OBVIOUS
<1>1. Counted = {} /\ AddersAt({"put"}) = {} /\ AddersAt({"admitted"}) = {}
  BY DEF Init, Counted, AddersAt, Idle
<1>2. Cardinality({}) = 0 /\ IsFiniteSet({})
  BY FS_EmptySet
<1>3. CountInv
  <2>1. caches = {} /\ count = 0 /\ removals = {}
    BY DEF Init
  <2>2. /\ Cardinality(caches) = 0 /\ Cardinality(Counted) = 0
        /\ Cardinality(AddersAt({"put"})) = 0
    BY <1>1, <1>2, <2>1, Zenon
  <2>3. CountInStep
    BY <2>1, <2>2, CountIs
  <2> QED BY <1>2, <2>1, <2>3 DEF CountInv
<1>4. Cardinality(Adders) \in Nat /\ CacheMaxSize \in Nat \ {0}
  BY ConstantFacts, FS_CardinalityType
<1>5. AdmittedBounded
  <2>1. caches = {} /\ loaded = {}
    BY DEF Init
  <2>2. Cardinality(caches) = 0 /\ Cardinality(AddersAt({"admitted"})) = 0
    BY <1>1, <1>2, <2>1, Zenon
  <2>3. 0 <= Larger(Cardinality(loaded), CacheMaxSize + Cardinality(Adders) - 1)
    BY <1>2, <1>4, <2>1 DEF Larger
  <2> QED BY <2>2, <2>3 DEF AdmittedBounded
<1> QED BY <1>3, <1>5

LEMMA CountNext ==
    TypeInv /\ TypeInv' /\ CountInv /\ AdmittedBounded /\ [Next]_vars
        => CountInv' /\ AdmittedBounded'
<1> SUFFICES ASSUME TypeInv, TypeInv', CountInv, AdmittedBounded, [Next]_vars
             PROVE  CountInv' /\ AdmittedBounded'
  OBVIOUS
<1> DEFINE put == AddersAt({"put"})
           adm == AddersAt({"admitted"})
           in == Cardinality(caches)
           out == Cardinality(Counted)
           p == Cardinality(put)
           m == Cardinality(adm)
           all == Cardinality(Adders)
           bound == Larger(Cardinality(loaded), CacheMaxSize + all - 1)
<1>1. /\ IsFiniteSet(caches) /\ IsFiniteSet(put) /\ IsFiniteSet(adm)
      /\ in \in Nat /\ out \in Nat /\ p \in Nat /\ m \in Nat /\ all \in Nat
  BY FiniteFacts DEF CountInv
<1>2. IsFiniteSet(removals) /\ count = in + out - p /\ in + m <= bound
  BY CountIs DEF CountInv, AdmittedBounded
<1>3. CacheMaxSize \in Nat \ {0} /\ IsFiniteSet(Adders)
  BY ConstantFacts
<1>4. /\ (CountInv)' <=> IsFiniteSet(removals') /\ count' = in' + out' - p'
      /\ (AdmittedBounded)' <=> in' + m' <= bound'
  BY DEF CountInv, CountInStep, AdmittedBounded, Counted
<1>5. bound >= CacheMaxSize + all - 1 /\ bound \in Int
  <2>1. IsFiniteSet(Txs) /\ loaded \in SUBSET Txs
    BY ConstantFacts, TypeFacts
  <2>2. Cardinality(loaded) \in Nat
    BY <2>1, FS_Subset, FS_CardinalityType
  <2> QED BY <1>1, <1>3, <2>2 DEF Larger
<1>6. removals' = removals => Counted' = Counted
  BY DEF Counted
<1>7. loaded' = loaded => bound' = bound
  OBVIOUS
<1>8. put \cap adm = {} /\ put \cup adm \in SUBSET Adders
  BY DEF AddersAt
<1>9. ASSUME NEW a \in Adders, Adding(a) PROVE CountInv' /\ AdmittedBounded'
  <2> HIDE DEF put, adm, bound
  <2>1. UNCHANGED <<removals, loaded>> /\ out' = out /\ bound' = bound
    BY <1>6, <1>7, <1>9, AddingSteps
  <2>2. \/ /\ UNCHANGED <<caches, count>> /\ put' = put
           /\ adm' \subseteq adm
        \/ /\ UNCHANGED <<caches, count>> /\ put' = put
           /\ count < CacheMaxSize
           /\ a \notin put /\ a \notin adm /\ adm' = adm \cup {a}
        \/ /\ UNCHANGED count
           /\ a \notin put /\ a \in adm /\ adm' = adm \ {a} /\ put' = put \cup {a}
           /\ adder[a].tx \notin caches /\ caches' = caches \cup {adder[a].tx}
        \/ /\ UNCHANGED caches /\ count' = count + 1
           /\ a \in put /\ adm' = adm /\ put' = put \ {a}
    BY <1>9, AddingSteps DEF put, adm
  <2>3. CASE /\ UNCHANGED <<caches, count>> /\ put' = put
             /\ adm' \subseteq adm
    <3>1. m' <= m /\ m' \in Nat
      BY <1>1, <2>3, FS_Subset, FS_CardinalityType
    <3>2. in' = in /\ p' = p /\ count' = count
      BY <2>3
    <3> HIDE DEF in, out, p, m, all
    <3>3. in' + m' <= bound'
      <4>1. in \in Int /\ m \in Int /\ m' \in Int /\ m' <= m /\ bound \in Int /\ in + m <= bound
        BY <1>1, <1>2, <1>5, <3>1
      <4>2. in + m' <= bound
        BY <4>1, LessIsLess
      <4> QED BY <2>1, <3>2, <4>2
    <3>4. count' = in' + out' - p' /\ IsFiniteSet(removals')
      BY <1>2, <2>1, <3>2
    <3> QED BY <1>4, <3>3, <3>4
  <2>4. CASE /\ UNCHANGED <<caches, count>> /\ put' = put
             /\ count < CacheMaxSize
             /\ a \notin put /\ a \notin adm /\ adm' = adm \cup {a}
    <3>1. m' = m + 1
      BY <1>1, <2>4, FS_AddElement
    <3>2. in' = in /\ p' = p /\ count' = count /\ count < CacheMaxSize
      BY <2>4
    <3>3. p + m + 1 <= all
      <4>1. /\ IsFiniteSet(put \cup adm) /\ a \notin put \cup adm
            /\ Cardinality(put \cup adm) = p + m
        <5>1. Cardinality(put \cup adm) = p + m - Cardinality(put \cap adm)
          BY <1>1, FS_Union
        <5>2. Cardinality(put \cap adm) = 0
          BY <1>8, FS_EmptySet
        <5>3. IsFiniteSet(put \cup adm)
          BY <1>1, FS_Union
        <5> HIDE DEF p, m
        <5> QED BY <1>1, <2>4, <5>1, <5>2, <5>3
      <4>2. (put \cup adm) \cup {a} \in SUBSET Adders
        BY <1>8
      <4>3. Cardinality((put \cup adm) \cup {a}) <= all
        BY <1>3, <4>2, FS_Subset
      <4> QED BY <4>1, <4>3, FS_AddElement
    <3>4. out \in Nat /\ in + p + m >= in + m
      BY <1>1
    <3> HIDE DEF in, out, p, m, all
    <3>5. in <= CacheMaxSize - 1 + p
      BY <1>1, <1>2, <1>3, <3>2
    <3> QED BY <1>1, <1>2, <1>3, <1>4, <1>5, <2>1, <3>1, <3>2, <3>3, <3>5
  <2>5. CASE /\ UNCHANGED count
             /\ a \notin put /\ a \in adm /\ adm' = adm \ {a} /\ put' = put \cup {a}
             /\ adder[a].tx \notin caches /\ caches' = caches \cup {adder[a].tx}
    <3>1. m' = m - 1 /\ p' = p + 1 /\ in' = in + 1 /\ count' = count
      BY <1>1, <2>5, FS_AddElement, FS_RemoveElement
    <3> HIDE DEF in, out, p, m
    <3> QED BY <1>1, <1>2, <1>4, <1>5, <2>1, <3>1
  <2>6. CASE /\ UNCHANGED caches /\ count' = count + 1
             /\ a \in put /\ adm' = adm /\ put' = put \ {a}
    <3>1. m' = m /\ p' = p - 1 /\ in' = in /\ count' = count + 1
      BY <1>1, <2>6, FS_RemoveElement
    <3> HIDE DEF in, out, p, m
    <3> QED BY <1>1, <1>2, <1>4, <1>5, <2>1, <3>1
  <2> QED BY <2>2, <2>3, <2>4, <2>5, <2>6
<1>10. ASSUME NEW by, NEW t, ~Removing(by), Removed(by, t), UNCHANGED <<count, adder, loaded>>
       PROVE  CountInv' /\ AdmittedBounded'
  <2>1. /\ IsFiniteSet(removals') /\ in' + out' = in + out /\ in' <= in
        /\ in' \in Nat /\ out' \in Nat
    BY <1>2, <1>10, RemovedCount
  <2>2. p' = p /\ m' = m /\ count' = count /\ bound' = bound
    BY <1>10 DEF AddersAt
  <2> HIDE DEF put, adm, bound, in, out, p, m, all
  <2>3. in' + m <= bound
    <3>1. /\ in \in Int /\ m \in Int /\ in' \in Int /\ bound \in Int
          /\ in' <= in /\ m + in <= bound
      BY <1>1, <1>2, <1>5, <2>1
    <3> QED BY <3>1, LessIsLess
  <2>4. in' + m' <= bound'
    BY <2>2, <2>3
  <2>5. count = in' + out' - p
    <3>1. in' + out' = in + out /\ count = in + out - p
      BY <1>2, <2>1
    <3>2. in \in Int /\ out \in Int /\ in' \in Int /\ out' \in Int /\ p \in Int
      BY <1>1, <2>1
    <3>3. PICK x \in Int, y \in Int : x = in' /\ y = out'
      BY <3>2
    <3>4. x + y = in + out
      BY <3>1, <3>3, Zenon
    <3>5. in + out - p = x + y - p
      BY <3>2, <3>4
    <3> QED BY <3>1, <3>3, <3>5, Zenon
  <2>6. count' = in' + out' - p'
    BY <2>2, <2>5
  <2> QED BY <1>4, <2>1, <2>4, <2>6
<1>11. ASSUME NEW r \in removals, EndRemoval(r) PROVE CountInv' /\ AdmittedBounded'
  <2>1. /\ removals' = removals \ {r} /\ count' = IF r.counted THEN count - 1 ELSE count
        /\ UNCHANGED <<caches, adder, loaded>>
    BY <1>11 DEF EndRemoval
  <2>2. p' = p /\ m' = m /\ in' = in /\ bound' = bound
    BY <2>1 DEF AddersAt
  <2>3. IsFiniteSet(removals') /\ IsFiniteSet(Counted)
    BY <1>2, <2>1, FiniteFacts, FS_RemoveElement
  <2>4. out' = IF r.counted THEN out - 1 ELSE out
    <3>1. Counted' = IF r.counted THEN Counted \ {r} ELSE Counted
      BY <2>1 DEF Counted
    <3>2. r.counted => r \in Counted
      BY DEF Counted
    <3> QED BY <2>3, <3>1, <3>2, FS_RemoveElement
  <2> HIDE DEF put, adm, bound, in, out, p, m
  <2> QED BY <1>1, <1>2, <1>4, <1>5, <2>1, <2>2, <2>3, <2>4
<1>12. CASE Restart
  <2>1. /\ caches' = Elements(ToLoad) /\ count' = Len(ToLoad) /\ loaded' = caches'
        /\ removals' = {} /\ adder' = [a \in Adders |-> Idle]
    BY <1>12 DEF Restart
  <2>2. put' = {} /\ adm' = {} /\ Counted' = {}
    BY <2>1 DEF AddersAt, Idle, Counted
  <2>3. p' = 0 /\ m' = 0 /\ out' = 0 /\ IsFiniteSet(removals')
    BY <2>1, <2>2, FS_EmptySet
  <2>4. count' = in'
    BY <2>1, ToLoadFacts, SavedIsTyped
  <2>5. IsFiniteSet(Txs) /\ caches' \in SUBSET Txs
    BY ConstantFacts, TypeFacts DEF TypeInv, TypeOK
  <2>6. in' \in Nat
    BY <2>5, FS_Subset, FS_CardinalityType
  <2>7. in' <= bound'
    BY <1>1, <1>3, <2>1, <2>6 DEF Larger
  <2> HIDE DEF put, adm, bound, in, out, p, m, all
  <2>8. count' = in' + out' - p' /\ in' + m' <= bound'
    <3>1. \A n \in Nat : n + 0 = n /\ n = n + 0 - 0
      OBVIOUS
    <3> QED BY <2>3, <2>4, <2>6, <2>7, <3>1, Zenon
  <2> QED BY <1>4, <2>3, <2>8
<1>13. CASE UNCHANGED <<caches, count, removals, adder, loaded>>
  <2>1. /\ p' = p /\ m' = m /\ in' = in /\ out' = out /\ bound' = bound
        /\ count' = count /\ removals' = removals
    BY <1>13 DEF AddersAt, Counted
  <2> HIDE DEF put, adm, bound, in, out, p, m
  <2> QED BY <1>2, <1>4, <2>1
<1> QED BY <1>9, <1>10, <1>11, <1>12, <1>13, RemovalSteps

-----------------------------------------------------------------------------
(* The line.                                                                *)

LEMMA ElementsOfConcat ==
    ASSUME NEW S, NEW s \in Seq(S), NEW t \in Seq(S)
    PROVE  Elements(s \o t) = Elements(s) \cup Elements(t)
<1>1. /\ s \o t \in Seq(S) /\ Len(s \o t) = Len(s) + Len(t)
      /\ \A i \in 1 .. Len(s) + Len(t) : (s \o t)[i] = IF i <= Len(s) THEN s[i] ELSE t[i - Len(s)]
  BY ConcatProperties
<1>2. /\ DOMAIN s = 1 .. Len(s) /\ DOMAIN t = 1 .. Len(t) /\ Len(s) \in Nat /\ Len(t) \in Nat
      /\ DOMAIN (s \o t) = 1 .. Len(s) + Len(t)
  BY <1>1, LenProperties
<1>3. ASSUME NEW i \in 1 .. Len(s) PROVE s[i] \in Elements(s \o t)
  <2>1. i \in 1 .. Len(s) + Len(t) /\ i <= Len(s)
    BY <1>2
  <2> QED BY <1>1, <1>2, <2>1 DEF Elements
<1>4. ASSUME NEW i \in 1 .. Len(t) PROVE t[i] \in Elements(s \o t)
  <2>1. /\ Len(s) + i \in 1 .. Len(s) + Len(t) /\ ~(Len(s) + i <= Len(s))
        /\ Len(s) + i - Len(s) = i
    BY <1>2
  <2> QED BY <1>1, <1>2, <2>1 DEF Elements
<1>5. ASSUME NEW i \in 1 .. Len(s) + Len(t) PROVE (s \o t)[i] \in Elements(s) \cup Elements(t)
  <2>1. i <= Len(s) => i \in 1 .. Len(s)
    BY <1>2
  <2>2. ~(i <= Len(s)) => i - Len(s) \in 1 .. Len(t)
    BY <1>2
  <2> QED BY <1>1, <1>2, <2>1, <2>2 DEF Elements
<1>6. Elements(s \o t) \subseteq Elements(s) \cup Elements(t)
  BY <1>2, <1>5 DEF Elements
<1>7. Elements(s) \subseteq Elements(s \o t) /\ Elements(t) \subseteq Elements(s \o t)
  BY <1>2, <1>3, <1>4 DEF Elements
<1> QED BY <1>6, <1>7

LEMMA LineTypes ==
    ASSUME TypeInv
    PROVE  /\ Packed \in Seq(Txs) /\ Waiting \in Seq(Txs) /\ Line \in Seq(Txs)
           /\ Len(Packed) \in Nat /\ Len(Waiting) \in Nat /\ Len(Line) = Len(Packed) + Len(Waiting)
           /\ DOMAIN Packed = 1 .. Len(Packed) /\ DOMAIN Line = 1 .. Len(Line)
           /\ \A i \in 1 .. Len(Packed) : Line[i] = Packed[i]
<1>1. /\ packer.taken \in Seq(Txs) /\ packer.block \in Seq(Txs)
      /\ order \in Seq(Txs) /\ packagedOrder \in Seq(Txs)
  BY PackerFacts, TypeFacts
<1>2. Packed \in Seq(Txs)
  BY <1>1, ConcatProperties DEF Packed
<1>3. packagedOrder \o order \in Seq(Txs)
  BY <1>1, ConcatProperties
<1>4. Waiting \in Seq(Txs)
  BY <1>1, <1>3 DEF Waiting
<1>5. /\ Line \in Seq(Txs) /\ Len(Line) = Len(Packed) + Len(Waiting)
      /\ \A i \in 1 .. Len(Packed) + Len(Waiting) :
             Line[i] = IF i <= Len(Packed) THEN Packed[i] ELSE Waiting[i - Len(Packed)]
  BY <1>2, <1>4, ConcatProperties DEF Line
<1>6. /\ Len(Packed) \in Nat /\ Len(Waiting) \in Nat
      /\ DOMAIN Packed = 1 .. Len(Packed) /\ DOMAIN Line = 1 .. Len(Line)
  BY <1>2, <1>4, <1>5, LenProperties
<1>7. ASSUME NEW i \in 1 .. Len(Packed) PROVE Line[i] = Packed[i]
  <2>1. i \in 1 .. Len(Packed) + Len(Waiting) /\ i <= Len(Packed)
    BY <1>6
  <2> QED BY <1>5, <2>1
<1> QED BY <1>2, <1>4, <1>5, <1>6, <1>7

\* By the time the packer leaves the packaged queue it has read all of it.
LEMMA AllRead ==
    ASSUME TypeInv, PackInv, EndQueue, packer.pc = "packaged"
    PROVE  packagedOrder = <<>> /\ packer.block = <<>>
<1>1. Queue = <<>> \/ ~(packer.seen < Limit)
  BY DEF EndQueue, Reads
<1>2. Queue = packagedOrder /\ Limit = MaxOfBlock
  BY PackerFacts DEF Limit
<1>3. packer.block = <<>> /\ Len(packagedOrder) + packer.seen <= MaxOfBlock
  BY DEF PackInv
<1>4. /\ packer.seen \in Nat /\ MaxOfBlock \in Nat /\ Len(packagedOrder) \in Nat
      /\ packagedOrder \in Seq(Txs)
  BY PackerFacts, ConstantFacts, TypeFacts, LenProperties
<1>5. ASSUME ~(packer.seen < MaxOfBlock) PROVE Len(packagedOrder) = 0
  BY <1>3, <1>4, <1>5
<1>6. Len(packagedOrder) = 0 => packagedOrder = <<>>
  BY <1>4, EmptySeq
<1> QED BY <1>1, <1>2, <1>3, <1>5, <1>6

LEMMA PackInvInit == Init => PackInv
<1>1. MaxOfBlock \in Nat
  BY ConstantFacts
<1> QED BY <1>1 DEF Init, PackInv, Resting

LEMMA PackInvNext == TypeInv /\ PackInv /\ [Next]_vars => PackInv'
<1> SUFFICES ASSUME TypeInv, PackInv, [Next]_vars PROVE PackInv'
  OBVIOUS
<1>1. /\ packer.pc \in {"idle", "packaged", "order"} /\ packer.seen \in Nat
      /\ packer.taken \in Seq(Txs) /\ packer.block \in Seq(Txs)
  BY PackerFacts
<1>2. packagedOrder \in Seq(Txs) /\ order \in Seq(Txs) /\ MaxOfBlock \in Nat
  BY TypeFacts, ConstantFacts
<1>3. Len(packer.taken) \in Nat /\ Len(packer.block) \in Nat /\ Len(packagedOrder) \in Nat
  BY <1>1, <1>2, LenProperties
<1>4. ASSUME UNCHANGED <<packer, packagedOrder>> PROVE PackInv'
  BY <1>4 DEF PackInv
<1>5. CASE Package
  <2>1. /\ packer'.pc = "packaged" /\ packer'.taken = <<>> /\ packer'.seen = 0
        /\ packer'.block = <<>> /\ packagedOrder' = packagedOrder
    BY <1>5 DEF Package, Resting, pool
  <2>2. Len(packagedOrder) + packer.seen <= MaxOfBlock
    BY <1>5 DEF Package, PackInv
  <2>3. Len(packagedOrder) + 0 <= MaxOfBlock /\ Len(<<>>) = 0
    BY <1>1, <1>2, <1>3, <2>2
  <2> QED BY <2>1, <2>3 DEF PackInv
<1>6. CASE Poll
  <2>1. packer.pc # "idle" /\ packer.seen < Limit /\ Queue # <<>>
    BY <1>6, PollFacts
  <2>2. \/ packer' = packer
        \/ /\ packer'.pc = packer.pc /\ packer'.seen = packer.seen + 1
           /\ packer'.block = packer.block
           /\ \/ packer'.taken = packer.taken
              \/ packer'.taken = Append(packer.taken, Head(Queue))
    BY <1>6, PollFacts
  <2>3. Len(packer'.taken) <= packer'.seen
    <3>1. Len(packer.taken) <= packer.seen
      BY DEF PackInv
    <3>2. Head(Queue) \in Txs
      BY <1>6, PollFacts
    <3>3. Len(Append(packer.taken, Head(Queue))) = Len(packer.taken) + 1
      BY <1>1, <3>2, AppendProperties
    <3> QED BY <1>1, <1>3, <2>2, <3>1, <3>3
  <2>4. CASE packer.pc = "packaged"
    <3>1. packagedOrder' = Tail(packagedOrder) /\ packagedOrder # <<>>
      BY <1>6, <2>1, <2>4, PollFacts, PackerFacts
    <3>2. Len(packagedOrder') = Len(packagedOrder) - 1
      BY <1>2, <3>1, HeadTailProperties
    <3>3. packer.block = <<>> /\ Len(packagedOrder) + packer.seen <= MaxOfBlock
      BY <2>4 DEF PackInv
    <3>4. packer'.pc = "packaged" /\ packer'.block = <<>>
      BY <2>2, <2>4, <3>3
    <3>5. packer'.seen = packer.seen \/ packer'.seen = packer.seen + 1
      BY <2>2
    <3>6. Len(packagedOrder') + packer'.seen <= MaxOfBlock
      BY <1>1, <1>2, <1>3, <3>2, <3>3, <3>5
    <3> QED BY <2>3, <3>4, <3>6 DEF PackInv
  <2>5. CASE packer.pc = "order"
    <3>1. packagedOrder' = packagedOrder
      BY <1>6, <2>5, PollFacts
    <3>2. packer.block = packagedOrder /\ Len(packer.block) + packer.seen <= MaxOfBlock
      BY <2>5 DEF PackInv
    <3>3. packer'.pc = "order" /\ packer'.block = packer.block
      BY <2>2, <2>5
    <3>4. packer.seen < MaxOfBlock - Len(packer.block)
      BY <2>1, <2>5 DEF Limit
    <3>5. packer'.seen = packer.seen \/ packer'.seen = packer.seen + 1
      BY <2>2
    <3>6. Len(packer.block) + packer'.seen <= MaxOfBlock
      BY <1>1, <1>2, <1>3, <3>2, <3>4, <3>5
    <3> QED BY <2>3, <3>1, <3>2, <3>3, <3>6 DEF PackInv
  <2> QED BY <1>1, <2>1, <2>4, <2>5
<1>7. CASE EndQueue
  <2> DEFINE b == packer.block \o packer.taken
  <2>1. /\ packer'.taken = <<>> /\ packer'.seen = 0 /\ packer'.block = b
        /\ packer'.pc \in {"order", "idle"} /\ packagedOrder' = packagedOrder \o packer.taken
        /\ packer.pc # "idle"
    BY <1>7 DEF EndQueue
  <2>2. packer.block = packagedOrder
    <3>1. CASE packer.pc = "packaged"
      BY <1>7, <3>1, AllRead
    <3>2. CASE packer.pc = "order"
      BY <3>2 DEF PackInv
    <3> QED BY <1>1, <2>1, <3>1, <3>2
  <2>3. Len(packer.block) + packer.seen <= MaxOfBlock
    <3>1. packer.pc # "packaged" => Len(packer.block) + packer.seen <= MaxOfBlock
      BY DEF PackInv
    <3>2. packer.pc = "packaged" => Len(packagedOrder) + packer.seen <= MaxOfBlock
      BY DEF PackInv
    <3> QED BY <2>2, <3>1, <3>2
  <2>4. Len(packer.taken) <= packer.seen
    BY DEF PackInv
  <2>5. Len(b) = Len(packer.block) + Len(packer.taken)
    BY <1>1, ConcatProperties
  <2>6. Len(b) + 0 <= MaxOfBlock
    <3>1. /\ Len(packer.block) \in Int /\ Len(packer.taken) \in Int /\ packer.seen \in Int
          /\ MaxOfBlock \in Int
      BY <1>1, <1>2, <1>3
    <3>2. Len(packer.block) + Len(packer.taken) <= MaxOfBlock
      BY <2>3, <2>4, <3>1, LessIsLess
    <3>3. Len(packer.block) + Len(packer.taken) + 0 = Len(packer.block) + Len(packer.taken)
      BY <3>1
    <3> HIDE DEF b
    <3> QED BY <2>5, <3>2, <3>3, Zenon
  <2>7. Len(<<>>) = 0
    OBVIOUS
  <2> QED BY <2>1, <2>2, <2>6, <2>7 DEF PackInv
<1>8. CASE Restart
  <2>1. /\ packagedOrder' = <<>> /\ packer'.pc = "idle" /\ packer'.taken = <<>>
        /\ packer'.seen = 0 /\ packer'.block = <<>>
    BY <1>8 DEF Restart, Resting
  <2>2. Len(<<>>) = 0 /\ 0 + 0 <= MaxOfBlock
    BY <1>2
  <2> QED BY <2>1, <2>2 DEF PackInv
<1>9. \/ Package \/ Poll \/ EndQueue \/ Restart
      \/ UNCHANGED <<packer, packagedOrder>>
  BY DEF Next, Adding, Check, Admit, Put, Enqueue, Store, Storing, SaveBlock, RemoveSaved, Packing,
         RollBack, EndRemoval, vars, pool
<1> QED BY <1>4, <1>5, <1>6, <1>7, <1>8, <1>9

\* What a step does to the line: it leaves it alone (and what is packed as well, or packs
\* the next one), puts one at its end, takes one out of it that the pool does not have any
\* more, begins a new block, or is a start.
Past(k, i) == IF i < k THEN i ELSE i + 1

LineStays == Line' = Line /\ Packed' = Packed
LinePacks ==
    LET k == Len(Packed) + 1
    IN  /\ k \in DOMAIN Line /\ Line[k] \in caches \ OnChain
        /\ Line' = Line /\ Packed' = Append(Packed, Line[k]) /\ UNCHANGED caches
LineLosesOne ==
    \E k \in DOMAIN Line :
        /\ k > Len(Packed) /\ Line[k] \notin caches'
        /\ Packed' = Packed /\ Len(Line') = Len(Line) - 1
        /\ \A i \in 1 .. Len(Line) - 1 : Line'[i] = Line[Past(k, i)]
LineGrows(a) ==
    Enqueue(a) /\ Line' = Append(Line, adder[a].tx) /\ Packed' = Packed

\* The head of what waits, seen from the line.
LEMMA TailOfLine ==
    ASSUME NEW S, NEW p \in Seq(S), NEW w \in Seq(S), w # <<>>
    PROVE  LET k == Len(p) + 1
           IN  /\ k \in DOMAIN (p \o w) /\ (p \o w)[k] = Head(w)
               /\ Len(p \o Tail(w)) = Len(p \o w) - 1
               /\ \A i \in 1 .. Len(p \o w) - 1 : (p \o Tail(w))[i] = (p \o w)[Past(k, i)]
               /\ Append(p, Head(w)) \o Tail(w) = p \o w
<1> DEFINE k == Len(p) + 1
           n == Len(p)
           m == Len(w)
           h == Head(w)
           r == Tail(w)
<1>1. n \in Nat /\ m \in Nat \ {0} /\ h \in S /\ h = w[1]
  BY LenProperties, EmptySeq, HeadTailProperties
<1>2. r \in Seq(S) /\ Len(r) = m - 1 /\ \A i \in 1 .. m - 1 : r[i] = w[i + 1]
  BY HeadTailProperties
<1>3. /\ Len(p \o w) = n + m /\ p \o w \in Seq(S)
      /\ \A i \in 1 .. n + m : (p \o w)[i] = IF i <= n THEN p[i] ELSE w[i - n]
  BY ConcatProperties
<1> HIDE DEF r, h
<1>4. /\ Len(p \o r) = n + (m - 1) /\ p \o r \in Seq(S)
      /\ \A i \in 1 .. n + (m - 1) : (p \o r)[i] = IF i <= n THEN p[i] ELSE r[i - n]
  <2>1. /\ Len(p \o r) = n + Len(r) /\ p \o r \in Seq(S)
        /\ \A i \in 1 .. n + Len(r) : (p \o r)[i] = IF i <= n THEN p[i] ELSE r[i - n]
    BY <1>2, ConcatProperties
  <2> QED BY <1>2, <2>1, Zenon
<1>5. /\ Append(p, h) \in Seq(S) /\ Len(Append(p, h)) = n + 1
      /\ \A i \in 1 .. n : Append(p, h)[i] = p[i]
      /\ Append(p, h)[n + 1] = h
  BY <1>1, AppendProperties
<1>6. /\ Len(Append(p, h) \o r) = n + 1 + (m - 1) /\ Append(p, h) \o r \in Seq(S)
      /\ \A i \in 1 .. n + 1 + (m - 1) : (Append(p, h) \o r)[i] =
             IF i <= n + 1 THEN Append(p, h)[i] ELSE r[i - (n + 1)]
  <2> DEFINE q == Append(p, h)
  <2> HIDE DEF q
  <2>1. /\ Len(q \o r) = Len(q) + Len(r) /\ q \o r \in Seq(S)
        /\ \A i \in 1 .. Len(q) + Len(r) :
               (q \o r)[i] = IF i <= Len(q) THEN q[i] ELSE r[i - Len(q)]
    BY <1>2, <1>5, ConcatProperties DEF q
  <2>2. Len(q) = n + 1
    BY <1>5 DEF q
  <2> QED BY <1>2, <2>1, <2>2, Zenon DEF q
<1> HIDE DEF n, m
<1>7. k = n + 1 /\ k \in 1 .. n + m /\ ~(k <= n) /\ k - n = 1
  BY <1>1 DEF n
<1>8. k \in DOMAIN (p \o w) /\ (p \o w)[k] = h
  <2>1. DOMAIN (p \o w) = 1 .. n + m
    BY <1>3, LenProperties
  <2> QED BY <1>1, <1>3, <1>7, <2>1
<1>9. Len(p \o r) = Len(p \o w) - 1
  BY <1>1, <1>3, <1>4
<1>10. ASSUME NEW i \in 1 .. Len(p \o w) - 1
       PROVE  (p \o r)[i] = (p \o w)[Past(k, i)]
  <2>1. i \in 1 .. n + (m - 1) /\ i \in 1 .. n + m /\ i + 1 \in 1 .. n + m
    BY <1>1, <1>3
  <2>2. CASE i <= n
    <3>1. i < k
      BY <1>1, <1>7, <2>1, <2>2
    <3> QED BY <1>3, <1>4, <2>1, <2>2, <3>1 DEF Past
  <2>3. CASE ~(i <= n)
    <3>1. ~(i < k) /\ ~(i + 1 <= n) /\ i - n \in 1 .. m - 1 /\ (i + 1) - n = i - n + 1
      BY <1>1, <1>7, <2>1, <2>3
    <3>2. (p \o r)[i] = r[i - n] /\ r[i - n] = w[i - n + 1]
      BY <1>2, <1>4, <2>1, <2>3, <3>1
    <3>3. (p \o w)[i + 1] = w[i - n + 1]
      <4>1. PICK j \in 1 .. n + m : j = i + 1
        BY <2>1
      <4>2. ~(j <= n)
        BY <3>1, <4>1
      <4>3. (p \o w)[j] = w[j - n]
        BY <1>3, <4>2
      <4>4. j - n = i - n + 1
        BY <3>1, <4>1
      <4> QED BY <4>1, <4>3, <4>4, Zenon
    <3> QED BY <3>1, <3>2, <3>3 DEF Past
  <2> QED BY <2>2, <2>3
<1>11. Append(p, h) \o r = p \o w
  <2>1. Len(Append(p, h) \o r) = Len(p \o w)
    BY <1>1, <1>3, <1>6
  <2>2. ASSUME NEW i \in 1 .. Len(p \o w)
        PROVE  (p \o w)[i] = (Append(p, h) \o r)[i]
    <3>1. i \in 1 .. n + m /\ i \in 1 .. n + 1 + (m - 1)
      BY <1>1, <1>3
    <3>2. CASE i <= n
      <4>1. i \in 1 .. n /\ i <= n + 1
        BY <1>1, <3>1, <3>2
      <4> QED BY <1>3, <1>5, <1>6, <3>1, <3>2, <4>1
    <3>3. CASE i = n + 1
      <4>1. i <= n + 1 /\ ~(i <= n) /\ i - n = 1
        BY <1>1, <3>3
      <4> QED BY <1>1, <1>3, <1>5, <1>6, <3>1, <3>3, <4>1
    <3>4. CASE i > n + 1
      <4>1. /\ ~(i <= n + 1) /\ ~(i <= n) /\ i - (n + 1) \in 1 .. m - 1
            /\ i - n = i - (n + 1) + 1
        BY <1>1, <3>1, <3>4
      <4> QED BY <1>2, <1>3, <1>6, <3>1, <4>1
    <3>5. i <= n \/ i = n + 1 \/ i > n + 1
      <4>1. i \in Int /\ n \in Int
        BY <1>1, <3>1
      <4> QED BY <4>1
    <3> QED BY <3>2, <3>3, <3>4, <3>5
  <2> QED BY <1>3, <1>6, <2>1, <2>2, SeqEqual
<1> QED BY <1>8, <1>9, <1>10, <1>11 DEF n, m, h, r

LEMMA AppendConcat ==
    ASSUME NEW S, NEW s \in Seq(S), NEW t \in Seq(S), NEW e \in S
    PROVE  s \o Append(t, e) = Append(s \o t, e)
<1>1. Append(t, e) = t \o <<e>> /\ s \o t \in Seq(S) /\ <<e>> \in Seq(S)
  BY AppendIsConcat, ConcatProperties
<1>2. Append(s \o t, e) = (s \o t) \o <<e>>
  BY <1>1, AppendIsConcat
<1>3. (s \o t) \o <<e>> = s \o (t \o <<e>>)
  BY <1>1, ConcatAssociative
<1> QED BY <1>1, <1>2, <1>3, Zenon

LEMMA HeadTailConcat ==
    ASSUME NEW S, NEW s \in Seq(S), NEW t \in Seq(S), s # <<>>
    PROVE  /\ s \o t # <<>> /\ Head(s \o t) = Head(s)
           /\ Tail(s \o t) = Tail(s) \o t
<1> DEFINE n == Len(s)
           m == Len(t)
           r == Tail(s)
           c == s \o t
<1>1. n \in Nat \ {0} /\ m \in Nat /\ Head(s) = s[1]
  BY LenProperties, EmptySeq
<1>2. c \in Seq(S) /\ Len(c) = n + m
      /\ \A i \in 1 .. n + m : c[i] = IF i <= n THEN s[i] ELSE t[i - n]
  BY ConcatProperties
<1>3. r \in Seq(S) /\ Len(r) = n - 1 /\ \A i \in 1 .. n - 1 : r[i] = s[i + 1]
  BY HeadTailProperties
<1> HIDE DEF r
<1>4. r \o t \in Seq(S) /\ Len(r \o t) = (n - 1) + m
      /\ \A i \in 1 .. (n - 1) + m : (r \o t)[i] = IF i <= n - 1 THEN r[i] ELSE t[i - (n - 1)]
  <2>1. r \o t \in Seq(S) /\ Len(r \o t) = Len(r) + m
        /\ \A i \in 1 .. Len(r) + m : (r \o t)[i] = IF i <= Len(r) THEN r[i] ELSE t[i - Len(r)]
    BY <1>3, ConcatProperties
  <2> QED BY <1>3, <2>1, Zenon
<1> HIDE DEF n, m, c
<1>5. c # <<>>
  <2>1. Len(c) # 0
    BY <1>1, <1>2
  <2> QED BY <2>1
<1>6. Head(c) = s[1]
  <2>1. 1 \in 1 .. n + m /\ 1 <= n
    BY <1>1
  <2>2. Head(c) = c[1]
    OBVIOUS
  <2> QED BY <1>2, <2>1, <2>2
<1>7. Tail(c) \in Seq(S) /\ Len(Tail(c)) = n + m - 1
      /\ \A i \in 1 .. n + m - 1 : Tail(c)[i] = c[i + 1]
  <2>1. /\ Tail(c) \in Seq(S) /\ Len(Tail(c)) = Len(c) - 1
        /\ \A i \in 1 .. Len(Tail(c)) : Tail(c)[i] = c[i + 1]
    BY <1>2, <1>5, HeadTailProperties
  <2>2. Len(c) - 1 = n + m - 1
    BY <1>1, <1>2
  <2> QED BY <2>1, <2>2, Zenon
<1>8. Tail(c) = r \o t
  <2>1. Len(Tail(c)) = Len(r \o t)
    BY <1>1, <1>4, <1>7
  <2>2. ASSUME NEW i \in 1 .. Len(Tail(c)) PROVE Tail(c)[i] = (r \o t)[i]
    <3>1. i \in 1 .. n + m - 1 /\ i \in 1 .. (n - 1) + m /\ i + 1 \in 1 .. n + m
      BY <1>1, <1>7
    <3>2. Tail(c)[i] = c[i + 1]
      BY <1>7, <3>1
    <3>3. CASE i <= n - 1
      <4>1. i + 1 <= n /\ i \in 1 .. n - 1
        BY <1>1, <3>1, <3>3
      <4> QED BY <1>2, <1>3, <1>4, <3>1, <3>2, <3>3, <4>1
    <3>4. CASE ~(i <= n - 1)
      <4>1. PICK j \in 1 .. n + m : j = i + 1
        BY <3>1
      <4>2. ~(j <= n) /\ j - n = i - (n - 1)
        BY <1>1, <3>1, <3>4, <4>1
      <4>3. c[j] = t[j - n]
        BY <1>2, <4>2
      <4>4. (r \o t)[i] = t[i - (n - 1)]
        BY <1>4, <3>1, <3>4
      <4> QED BY <3>2, <4>1, <4>2, <4>3, <4>4, Zenon
    <3> QED BY <3>3, <3>4
  <2> QED BY <1>4, <1>7, <2>1, <2>2, SeqEqual
<1> QED BY <1>1, <1>5, <1>6, <1>8 DEF c, r

\* Queueing puts a transaction at the end of the line.
LEMMA EnqueueGrows ==
    ASSUME TypeInv, NEW a \in Adders, Enqueue(a)
    PROVE  LineGrows(a)
<1>1. packagedOrder \in Seq(Txs) /\ order \in Seq(Txs)
  BY TypeFacts
<1>2. Packed \in Seq(Txs) /\ Waiting \in Seq(Txs) /\ Line = Packed \o Waiting
  BY LineTypes DEF Line
<1> DEFINE t == adder[a].tx
<1>3. t \in Txs /\ order' = Append(order, t) /\ packagedOrder' = packagedOrder /\ packer' = packer
  BY AdderFacts DEF Enqueue
<1>4. <<t>> \in Seq(Txs) /\ order' = order \o <<t>>
  BY <1>1, <1>3, AppendIsConcat
<1> HIDE DEF t
<1>5. Waiting' = Waiting \o <<t>>
  <2>1. (packagedOrder \o order) \o <<t>> = packagedOrder \o (order \o <<t>>)
    BY <1>1, <1>4, ConcatAssociative
  <2> QED BY <1>3, <1>4, <2>1 DEF Waiting
<1>6. Packed' = Packed
  BY <1>3 DEF Packed
<1>7. Line' = Line \o <<t>>
  <2>1. Packed \o (Waiting \o <<t>>) = (Packed \o Waiting) \o <<t>>
    BY <1>2, <1>4, ConcatAssociative
  <2> QED BY <1>5, <1>6, <2>1 DEF Line
<1>8. Line' = Append(Line, t)
  BY <1>3, <1>7, LineTypes, AppendIsConcat
<1> QED BY <1>6, <1>8 DEF LineGrows, t

LEMMA LineSteps ==
    ASSUME TypeInv, PackInv, [Next]_vars
    PROVE  \/ LineStays /\ UNCHANGED <<packer, arrived, loaded>>
           \/ LineStays /\ EndQueue
           \/ LinePacks /\ Poll
           \/ LineLosesOne /\ Poll
           \/ Line' = Line /\ Packed' = <<>> /\ Package
           \/ \E a \in Adders : LineGrows(a)
           \/ Restart
<1>1. /\ packer.pc \in {"idle", "packaged", "order"} /\ packer.seen \in Nat
      /\ packer.taken \in Seq(Txs) /\ packer.block \in Seq(Txs)
      /\ packagedOrder \in Seq(Txs) /\ order \in Seq(Txs)
  BY PackerFacts, TypeFacts
<1>2. Packed \in Seq(Txs) /\ Waiting \in Seq(Txs) /\ Line = Packed \o Waiting
  BY LineTypes DEF Line
<1>3. ASSUME UNCHANGED <<packer, order, packagedOrder>> PROVE LineStays
  BY <1>3 DEF LineStays, Line, Packed, Waiting
<1>4. CASE Package
  <2>1. /\ packer'.pc = "packaged" /\ packer'.taken = <<>> /\ packer'.block = <<>>
        /\ order' = order /\ packagedOrder' = packagedOrder /\ packer.pc = "idle"
    BY <1>4 DEF Package, Resting, pool
  <2>2. packer.block = packagedOrder /\ packer.taken = <<>>
    BY <2>1 DEF PackInv
  <2>3. Line = packagedOrder \o order
    <3>1. packagedOrder \o <<>> = packagedOrder
      BY <1>1, ConcatEmptySeq
    <3> QED BY <2>1, <2>2, <3>1 DEF Line, Packed, Waiting
  <2>4. <<>> \o <<>> = <<>>
    OBVIOUS
  <2>5. Packed' = <<>>
    BY <2>1, <2>4 DEF Packed
  <2>6. Line' = packagedOrder \o order
    <3>1. packagedOrder \o order \in Seq(Txs)
      BY <1>1, ConcatProperties
    <3>2. <<>> \o (packagedOrder \o order) = packagedOrder \o order
      BY <3>1, ConcatEmptySeq
    <3> QED BY <2>1, <2>5, <3>2 DEF Line, Waiting
  <2> QED BY <1>4, <2>3, <2>5, <2>6
<1>5. CASE EndQueue
  <2>1. /\ packer'.taken = <<>> /\ packer'.block = Packed /\ order' = order
        /\ packer'.pc \in {"order", "idle"} /\ packer.pc # "idle"
    BY <1>5 DEF EndQueue, Packed
  <2>2. Packed' = Packed
    <3>1. Packed \o <<>> = Packed
      BY <1>2, ConcatEmptySeq
    <3>2. Packed' = packer'.block \o packer'.taken
      BY DEF Packed
    <3> QED BY <2>1, <3>1, <3>2
  <2>3. Waiting = order
    <3>1. CASE packer.pc = "packaged"
      <4>1. packagedOrder = <<>>
        BY <1>5, <3>1, AllRead
      <4>2. <<>> \o order = order
        BY <1>1, ConcatEmptySeq
      <4> QED BY <4>1, <4>2, <3>1 DEF Waiting
    <3> QED BY <3>1 DEF Waiting
  <2>4. Waiting' = order
    BY <2>1 DEF Waiting
  <2>5. LineStays
    BY <2>2, <2>3, <2>4 DEF LineStays, Line
  <2> QED BY <1>5, <2>5
<1>6. CASE Poll
  <2> DEFINE h == Head(Queue)
  <2>1. Queue # <<>> /\ Queue \in Seq(Txs) /\ h \in Txs
    BY <1>6, PollFacts, PackerFacts
  <2>2. Waiting # <<>> /\ Head(Waiting) = h /\ Waiting' = Tail(Waiting)
    <3>1. CASE packer.pc = "packaged"
      <4>1. Queue = packagedOrder /\ packagedOrder' = Tail(packagedOrder) /\ order' = order
        BY <1>6, <3>1, PollFacts, PackerFacts
      <4>2. Waiting = packagedOrder \o order /\ packagedOrder # <<>>
        BY <2>1, <3>1, <4>1 DEF Waiting
      <4>3. packer'.pc = "packaged"
        BY <1>6, <3>1, PollFacts
      <4>4. Waiting' = Tail(packagedOrder) \o order
        BY <4>1, <4>3 DEF Waiting
      <4>5. /\ packagedOrder \o order # <<>> /\ Head(packagedOrder \o order) = Head(packagedOrder)
            /\ Tail(packagedOrder \o order) = Tail(packagedOrder) \o order
        BY <1>1, <4>2, HeadTailConcat
      <4> QED BY <4>1, <4>2, <4>4, <4>5
    <3>2. CASE packer.pc = "order"
      <4>1. Queue = order /\ order' = Tail(order) /\ packagedOrder' = packagedOrder
        BY <1>6, <3>2, PollFacts, PackerFacts
      <4>2. Waiting = order
        BY <3>2 DEF Waiting
      <4>3. packer'.pc = "order"
        BY <1>6, <3>2, PollFacts
      <4>4. Waiting' = Tail(order)
        BY <4>1, <4>3 DEF Waiting
      <4> QED BY <2>1, <4>1, <4>2, <4>4
    <3> QED BY <1>1, <1>6, <3>1, <3>2, PollFacts
  <2> DEFINE k == Len(Packed) + 1
  <2>3. /\ k \in DOMAIN Line /\ Line[k] = h
        /\ Len(Packed \o Tail(Waiting)) = Len(Line) - 1
        /\ \A i \in 1 .. Len(Line) - 1 : (Packed \o Tail(Waiting))[i] = Line[Past(k, i)]
        /\ Append(Packed, h) \o Tail(Waiting) = Line
    BY <1>2, <2>2, TailOfLine
  <2>4. CASE h \in caches /\ h \notin OnChain
    <3>1. /\ packer'.taken = Append(packer.taken, h) /\ packer'.block = packer.block
          /\ UNCHANGED caches
      BY <1>6, <2>4, PollFacts
    <3>2. Packed' = Append(Packed, h)
      <4>1. packer.block \o Append(packer.taken, h) = Append(packer.block \o packer.taken, h)
        <5>1. packer.block \in Seq(Txs) /\ packer.taken \in Seq(Txs) /\ h \in Txs
          BY <1>1, <2>1
        <5> HIDE DEF h
        <5>2. PICK x \in Seq(Txs), y \in Seq(Txs), z \in Txs :
                  x = packer.block /\ y = packer.taken /\ z = h
          BY <5>1
        <5>3. x \o Append(y, z) = Append(x \o y, z)
          BY AppendConcat
        <5> QED BY <5>2, <5>3, Zenon
      <4>2. Packed' = packer'.block \o packer'.taken
        BY DEF Packed
      <4> QED BY <3>1, <4>1, <4>2 DEF Packed
    <3>3. Line' = Packed' \o Waiting'
      BY DEF Line
    <3> HIDE DEF h
    <3>4. LinePacks
      BY <2>2, <2>3, <2>4, <3>1, <3>2, <3>3 DEF LinePacks
    <3> QED BY <1>6, <3>4
  <2>5. CASE h \notin caches \/ h \in OnChain
    <3>1. packer'.taken = packer.taken /\ packer'.block = packer.block
      BY <1>6, <2>5, PollFacts
    <3>2. Packed' = Packed
      BY <3>1 DEF Packed
    <3>3. Line' = Packed \o Tail(Waiting)
      BY <2>2, <3>2 DEF Line
    <3>4. k > Len(Packed)
      <4>1. Len(Packed) \in Nat
        BY LineTypes
      <4> QED BY <4>1
    <3>5. h \notin caches'
      BY <1>6, <2>5, PollFacts DEF Removed
    <3> HIDE DEF h, k
    <3>6. LineLosesOne
      BY <2>3, <3>2, <3>3, <3>4, <3>5 DEF LineLosesOne
    <3> QED BY <1>6, <3>6
  <2> QED BY <2>4, <2>5
<1>7. \A a \in Adders : Enqueue(a) => LineGrows(a)
  BY EnqueueGrows
<1>8. \/ Package \/ Poll \/ EndQueue \/ Restart \/ \E a \in Adders : Enqueue(a)
      \/ UNCHANGED <<packer, order, packagedOrder, arrived, loaded>>
  BY DEF Next, Adding, Check, Admit, Put, Store, Storing, SaveBlock, RemoveSaved, Packing,
         RollBack, EndRemoval, vars, pool
<1> QED BY <1>3, <1>4, <1>5, <1>6, <1>7, <1>8

\* Who is about to queue or to save: it was so before, or has just put or queued.
LEMMA AdderHistory ==
    ASSUME TypeInv, [Next]_vars, ~Restart, NEW a \in Adders
    PROVE  /\ \/ adder'[a] = adder[a]
              \/ /\ Adding(a) /\ \A c \in Adders \ {a} : adder'[c] = adder[c]
                 /\ \/ adder'[a].pc \notin {"put", "queued"} /\ adder[a].pc \notin {"put", "queued"}
                    \/ /\ adder'[a].pc = "put" /\ adder'[a].tx = adder[a].tx
                       /\ adder[a].tx \notin caches /\ caches' = caches \cup {adder[a].tx}
                    \/ /\ Enqueue(a) /\ adder[a].pc = "put"
                       /\ adder'[a].pc = "queued" /\ adder'[a].tx = adder[a].tx
                    \/ Store(a) /\ adder[a].pc = "queued" /\ adder'[a].pc = "idle"
<1>1. ASSUME ~Adding(a) PROVE adder'[a] = adder[a]
  <2>1. ASSUME NEW c \in Adders \ {a}, Adding(c) PROVE adder'[a] = adder[a]
    <3>1. \E d : adder' = [adder EXCEPT ![c] = d]
      <4>1. CASE \E t \in Txs : Check(c, t)
        BY <4>1 DEF Check
      <4>2. CASE Admit(c)
        BY <4>2 DEF Admit
      <4>3. CASE Put(c)
        <5>1. CASE adder' = [adder EXCEPT ![c] = Idle]
          BY <5>1
        <5>2. CASE adder' = [adder EXCEPT ![c] = Moved(c, "put")]
          BY <5>2
        <5> QED BY <4>3, <5>1, <5>2, AdderFacts DEF Put
      <4>4. CASE Enqueue(c)
        BY <4>4, AdderFacts DEF Enqueue
      <4>5. CASE Store(c)
        BY <4>5 DEF Store
      <4> QED BY <2>1, <4>1, <4>2, <4>3, <4>4, <4>5 DEF Adding
    <3> QED BY <3>1, TypeFacts
  <2>2. ASSUME ~(\E c \in Adders : Adding(c)) PROVE adder' = adder
    BY <2>2 DEF Next, Storing, SaveBlock, RemoveSaved, Packing, Package, Poll, EndQueue,
                RollBack, EndRemoval, vars
  <2> QED BY <1>1, <2>1, <2>2
<1>2. ASSUME NEW d \in AdderRecords, adder' = [adder EXCEPT ![a] = d]
      PROVE  adder'[a] = d /\ \A c \in Adders \ {a} : adder'[c] = adder[c]
  BY <1>2, AdderStep
<1>3. Idle \in AdderRecords /\ Idle.pc = "idle"
  BY DEF AdderRecords, Idle
<1>4. ASSUME adder[a].pc # "idle", NEW pc \in AdderPcs
      PROVE  /\ Moved(a, pc) \in AdderRecords
             /\ Moved(a, pc).pc = pc /\ Moved(a, pc).tx = adder[a].tx
  BY <1>4, AdderFacts DEF Moved
<1>5. "admitted" \in AdderPcs /\ "put" \in AdderPcs /\ "queued" \in AdderPcs
  BY DEF AdderPcs
<1>6. ASSUME NEW t \in Txs, Check(a, t)
      PROVE  /\ \A c \in Adders \ {a} : adder'[c] = adder[c]
             /\ adder'[a].pc \notin {"put", "queued"} /\ adder[a].pc \notin {"put", "queued"}
  <2> DEFINE d == [pc |-> "checked", tx |-> t]
  <2>1. d \in AdderRecords /\ d.pc = "checked"
    BY DEF AdderRecords, AdderPcs
  <2>2. adder' = [adder EXCEPT ![a] = d] /\ adder[a].pc = "idle"
    BY <1>6 DEF Check
  <2> HIDE DEF d
  <2> QED BY <1>2, <2>1, <2>2
<1>7. ASSUME Admit(a)
      PROVE  /\ \A c \in Adders \ {a} : adder'[c] = adder[c]
             /\ adder'[a].pc \notin {"put", "queued"} /\ adder[a].pc \notin {"put", "queued"}
  <2>1. adder[a].pc = "checked"
    BY <1>7 DEF Admit
  <2>2. \/ adder' = [adder EXCEPT ![a] = Moved(a, "admitted")]
        \/ adder' = [adder EXCEPT ![a] = Idle]
    BY <1>7, <2>1, AdderFacts DEF Admit
  <2> QED BY <1>2, <1>3, <1>4, <1>5, <2>1, <2>2
<1>8. ASSUME Put(a)
      PROVE  /\ \A c \in Adders \ {a} : adder'[c] = adder[c]
             /\ \/ adder'[a].pc \notin {"put", "queued"} /\ adder[a].pc \notin {"put", "queued"}
                \/ /\ adder'[a].pc = "put" /\ adder'[a].tx = adder[a].tx
                   /\ adder[a].tx \notin caches /\ caches' = caches \cup {adder[a].tx}
  <2>1. adder[a].pc = "admitted"
    BY <1>8 DEF Put
  <2>2. \/ adder' = [adder EXCEPT ![a] = Idle]
        \/ /\ adder' = [adder EXCEPT ![a] = Moved(a, "put")]
           /\ adder[a].tx \notin caches /\ caches' = caches \cup {adder[a].tx}
    BY <1>8, <2>1, AdderFacts DEF Put
  <2> QED BY <1>2, <1>3, <1>4, <1>5, <2>1, <2>2
<1>9. ASSUME Enqueue(a)
      PROVE  /\ \A c \in Adders \ {a} : adder'[c] = adder[c]
             /\ adder[a].pc = "put" /\ adder'[a].pc = "queued" /\ adder'[a].tx = adder[a].tx
  <2>1. adder[a].pc = "put" /\ adder' = [adder EXCEPT ![a] = Moved(a, "queued")]
    BY <1>9, AdderFacts DEF Enqueue
  <2> QED BY <1>2, <1>4, <1>5, <2>1
<1>10. ASSUME Store(a)
       PROVE  /\ \A c \in Adders \ {a} : adder'[c] = adder[c]
              /\ adder[a].pc = "queued" /\ adder'[a].pc = "idle"
  BY <1>2, <1>3, <1>10 DEF Store
<1>11. CASE Adding(a)
  BY <1>6, <1>7, <1>8, <1>9, <1>10, <1>11 DEF Adding
<1> QED BY <1>1, <1>11

\* Only what is settled leaves the map, but for a start.
LEMMA CachesKept ==
    ASSUME TypeInv, SavedInv, [Next]_vars, ~Restart
    PROVE  /\ caches \ Settled \subseteq caches'
           /\ caches' \subseteq caches \/ \E a \in Adders : Put(a)
<1>1. ASSUME NEW a \in Adders, Adding(a)
      PROVE  caches \subseteq caches' /\ (caches' = caches \/ Put(a))
  BY <1>1 DEF Adding, Check, Admit, Put, Enqueue, Store, pool
<1>2. ASSUME Poll PROVE caches \ Settled \subseteq caches' /\ caches' \subseteq caches
  BY <1>2, PollFacts DEF Removed, Settled
<1>3. ASSUME NEW t \in storager, RemoveSaved(t)
      PROVE  caches \ Settled \subseteq caches' /\ caches' \subseteq caches
  BY <1>3 DEF RemoveSaved, Removed, SavedInv
<1>4. \/ \E a \in Adders : Adding(a)
      \/ Poll
      \/ \E t \in storager : RemoveSaved(t)
      \/ caches' = caches
  BY DEF Next, Storing, SaveBlock, Packing, Package, EndQueue, RollBack, EndRemoval, vars, pool
<1> QED BY <1>1, <1>2, <1>3, <1>4

\* But for what is queued and for a start, the line is a part of what it was, in the same
\* order.
LineKeeps ==
    \E f \in [DOMAIN Line' -> DOMAIN Line] :
        /\ \A i \in DOMAIN Line' : Line'[i] = Line[f[i]]
        /\ \A i, j \in DOMAIN Line' : i < j => f[i] < f[j]

LEMMA LineTyped == TypeInv => DOMAIN Line = 1 .. Len(Line) /\ Len(Line) \in Nat
BY LineTypes

LEMMA LineParts ==
    ASSUME TypeInv, TypeInv', PackInv, [Next]_vars
    PROVE  \/ LineKeeps /\ UNCHANGED <<arrived, loaded>>
           \/ Restart
           \/ \E a \in Adders : LineGrows(a)
<1>1. DOMAIN Line = 1 .. Len(Line) /\ Len(Line) \in Nat
  BY LineTypes
<1>2. (DOMAIN Line = 1 .. Len(Line) /\ Len(Line) \in Nat)'
  BY LineTyped, PTL
<1>3. ASSUME Line' = Line PROVE LineKeeps
  <2> DEFINE f == [i \in DOMAIN Line' |-> i]
  <2>1. f \in [DOMAIN Line' -> DOMAIN Line]
    BY <1>3
  <2>2. \A i \in DOMAIN Line' : Line'[i] = Line[f[i]]
    BY <1>3
  <2>3. \A i, j \in DOMAIN Line' : i < j => f[i] < f[j]
    OBVIOUS
  <2> HIDE DEF f
  <2> QED BY <2>1, <2>2, <2>3 DEF LineKeeps
<1>4. ASSUME LineLosesOne PROVE LineKeeps
  <2>1. PICK k \in DOMAIN Line :
            /\ Len(Line') = Len(Line) - 1
            /\ \A i \in 1 .. Len(Line) - 1 : Line'[i] = Line[Past(k, i)]
    BY <1>4 DEF LineLosesOne
  <2> DEFINE f == [i \in DOMAIN Line' |-> Past(k, i)]
  <2>2. PICK n \in Nat : n = Len(Line)
    BY <1>1
  <2>3. k \in 1 .. n /\ DOMAIN Line = 1 .. n
    BY <1>1, <2>2
  <2>4. DOMAIN Line' = 1 .. n - 1
    BY <1>2, <2>1, <2>2, Zenon
  <2>5. \A i \in 1 .. n - 1 : Past(k, i) \in 1 .. n
    BY <2>3 DEF Past
  <2>6. f \in [DOMAIN Line' -> DOMAIN Line]
    BY <2>3, <2>4, <2>5
  <2>7. \A i \in DOMAIN Line' : Line'[i] = Line[f[i]]
    <3>1. \A i \in 1 .. n - 1 : Line'[i] = Line[Past(k, i)]
      BY <2>1, <2>2, Zenon
    <3> QED BY <2>4, <3>1
  <2>8. \A i, j \in 1 .. n - 1 : i < j => Past(k, i) < Past(k, j)
    BY <2>3 DEF Past
  <2>9. \A i, j \in DOMAIN Line' : i < j => f[i] < f[j]
    BY <2>4, <2>8
  <2> HIDE DEF f
  <2> QED BY <2>6, <2>7, <2>9 DEF LineKeeps
<1>5. ASSUME Package \/ Poll \/ EndQueue PROVE UNCHANGED <<arrived, loaded>>
  BY <1>5 DEF Package, Poll, EndQueue
<1> QED BY <1>3, <1>4, <1>5, LineSteps DEF LineStays, LinePacks

\* A start begins with what it loads.
LEMMA RestartFacts ==
    ASSUME TypeInv, Restart
    PROVE  /\ Line' = ToLoad /\ Packed' = <<>>
           /\ packer'.pc = "idle" /\ packagedOrder' = <<>> /\ order' = ToLoad
           /\ caches' = Elements(ToLoad) /\ loaded' = Elements(ToLoad)
           /\ saved' = Deleted(Elements(Walked) \cap OnChain)
           /\ UNCHANGED <<chain, arrived, undone>> /\ Settled' = Settled
           /\ \A a \in Adders : adder'[a].pc = "idle"
<1>1. /\ packer'.pc = "idle" /\ packer'.taken = <<>> /\ packer'.block = <<>>
      /\ packagedOrder' = <<>> /\ order' = ToLoad
      /\ caches' = Elements(ToLoad) /\ loaded' = Elements(ToLoad)
      /\ saved' = Deleted(Elements(Walked) \cap OnChain)
      /\ UNCHANGED <<chain, arrived, undone>>
      /\ adder' = [a \in Adders |-> Idle]
  BY DEF Restart, Resting
<1>2. \A a \in Adders : adder'[a].pc = "idle"
  BY <1>1 DEF Idle
<1>3. Settled' = Settled
  BY <1>1 DEF Settled, OnChain
<1>4. <<>> \o <<>> = <<>>
  OBVIOUS
<1>5. Packed' = <<>>
  BY <1>1, <1>4 DEF Packed
<1>6. ToLoad \in Seq(Txs)
  BY TypeFacts, ToLoadFacts
<1>7. <<>> \o ToLoad = ToLoad
  BY <1>6, ConcatEmptySeq
<1>8. Line' = ToLoad
  BY <1>1, <1>5, <1>7 DEF Line, Waiting
<1> QED BY <1>1, <1>2, <1>3, <1>5, <1>8

LEMMA LineInvInit == Init => LineInv
<1> SUFFICES ASSUME Init PROVE LineInv
  OBVIOUS
<1>1. <<>> \o <<>> = <<>>
  OBVIOUS
<1>2. Packed = <<>> /\ Line = <<>>
  BY <1>1 DEF Init, Resting, Packed, Waiting, Line
<1>3. AddersAt({"put"}) = {}
  BY DEF Init, AddersAt, Idle
<1> QED BY <1>2, <1>3 DEF LineInv, OnceInLine, LineInMap, PutOnce, OncePacked

\* Who is about to queue a transaction that is not settled was so before, or has just put it.
LEMMA PutHistory ==
    ASSUME TypeInv, [Next]_vars, ~Restart, NEW a \in AddersAt({"put"})'
    PROVE  /\ a \in Adders
           /\ \/ a \in AddersAt({"put"}) /\ adder'[a] = adder[a]
              \/ /\ \A c \in Adders \ {a} : adder'[c] = adder[c]
                 /\ adder'[a].tx \notin caches /\ caches' = caches \cup {adder'[a].tx}
<1>1. a \in Adders /\ adder'[a].pc = "put"
  BY DEF AddersAt
<1>2. CASE adder'[a] = adder[a]
  BY <1>1, <1>2 DEF AddersAt
<1>3. CASE adder'[a] # adder[a]
  BY <1>1, <1>3, AdderHistory
<1> QED BY <1>1, <1>2, <1>3

LEMMA PutOnceNext ==
    ASSUME TypeInv, SavedInv, PutOnce, [Next]_vars, ~Restart
    PROVE  PutOnce'
<1>1. Settled \subseteq Settled' /\ caches \ Settled \subseteq caches'
  BY SettledGrows, CachesKept
<1> SUFFICES ASSUME NEW a \in AddersAt({"put"})', adder'[a].tx \notin Settled'
             PROVE  /\ adder'[a].tx \in caches'
                    /\ \A c \in AddersAt({"put"})' : adder'[c].tx = adder'[a].tx => c = a
  BY DEF PutOnce
<1>2. CASE a \in AddersAt({"put"}) /\ adder'[a] = adder[a]
  <2>1. adder[a].tx \in caches /\ adder[a].tx \notin Settled
    BY <1>1, <1>2 DEF PutOnce
  <2>2. ASSUME NEW c \in AddersAt({"put"})', adder'[c].tx = adder'[a].tx PROVE c = a
    <3>1. c \in AddersAt({"put"}) /\ adder'[c] = adder[c]
      BY <1>2, <2>1, <2>2, PutHistory
    <3> QED BY <1>2, <2>1, <2>2, <3>1 DEF PutOnce
  <2> QED BY <1>1, <1>2, <2>1, <2>2
<1>3. CASE /\ \A c \in Adders \ {a} : adder'[c] = adder[c]
           /\ adder'[a].tx \notin caches /\ caches' = caches \cup {adder'[a].tx}
  <2>1. ASSUME NEW c \in AddersAt({"put"})', adder'[c].tx = adder'[a].tx, c # a PROVE FALSE
    <3>1. c \in Adders /\ adder'[c].pc = "put"
      BY DEF AddersAt
    <3>2. adder'[c] = adder[c] /\ c \in AddersAt({"put"})
      BY <1>3, <2>1, <3>1 DEF AddersAt
    <3>3. adder[c].tx \in caches
      BY <1>1, <2>1, <3>2 DEF PutOnce
    <3> QED BY <1>3, <2>1, <3>2, <3>3
  <2> QED BY <1>3, <2>1
<1> QED BY <1>2, <1>3, PutHistory

LEMMA LineMapNext ==
    ASSUME TypeInv, TypeInv', SavedInv, PackInv, LineInv, [Next]_vars, ~Restart
    PROVE  OnceInLine' /\ LineInMap'
<1>1. Settled \subseteq Settled' /\ caches \ Settled \subseteq caches'
  BY SettledGrows, CachesKept
<1>2. ASSUME NEW i \in DOMAIN Line, Line[i] \notin Settled'
      PROVE  /\ Line[i] \in caches'
             /\ \A a \in AddersAt({"put"})' : adder'[a].tx # Line[i]
  <2>1. Line[i] \in caches /\ \A a \in AddersAt({"put"}) : adder[a].tx # Line[i]
    BY <1>1, <1>2 DEF LineInv, LineInMap
  <2>2. ASSUME NEW a \in AddersAt({"put"})' PROVE adder'[a].tx # Line[i]
    BY <2>1, PutHistory
  <2> QED BY <1>1, <1>2, <2>1, <2>2
<1>3. CASE LineKeeps
  <2>1. PICK f \in [DOMAIN Line' -> DOMAIN Line] :
            /\ \A i \in DOMAIN Line' : Line'[i] = Line[f[i]]
            /\ \A i, j \in DOMAIN Line' : i < j => f[i] < f[j]
    BY <1>3 DEF LineKeeps
  <2>2. LineInMap'
    BY <1>2, <2>1 DEF LineInMap
  <2>3. ASSUME NEW i \in DOMAIN Line', NEW j \in DOMAIN Line', Line'[i] = Line'[j], i # j
        PROVE  Line'[i] \in Settled'
    <3>1. f[i] # f[j]
      <4>1. \A k \in DOMAIN Line' : k \in Int
        <5>1. (DOMAIN Line = 1 .. Len(Line) /\ Len(Line) \in Nat)'
          BY LineTyped, PTL
        <5> QED BY <5>1
      <4>2. \A k \in DOMAIN Line : k \in Int
        BY LineTypes
      <4>3. i < j \/ j < i
        BY <2>3, <4>1
      <4>4. f[i] \in Int /\ f[j] \in Int
        BY <4>2
      <4> QED BY <2>1, <4>3, <4>4
    <3> QED BY <1>1, <2>1, <2>3, <3>1 DEF LineInv, OnceInLine
  <2> QED BY <2>2, <2>3 DEF OnceInLine
<1>4. ASSUME NEW a \in Adders, LineGrows(a) PROVE OnceInLine' /\ LineInMap'
  <2> DEFINE t == adder[a].tx
             n == Len(Line)
  <2>1. Enqueue(a) /\ a \in AddersAt({"put"}) /\ t \in Txs /\ Line' = Append(Line, t)
    BY <1>4, AdderFacts DEF LineGrows, Enqueue, AddersAt
  <2>2. /\ Line \in Seq(Txs) /\ n \in Nat /\ DOMAIN Line = 1 .. n
    BY LineTypes
  <2>3. /\ DOMAIN Line' = DOMAIN Line \cup {n + 1}
        /\ \A i \in DOMAIN Line : Line'[i] = Line[i]
        /\ Line'[n + 1] = t /\ n + 1 \notin DOMAIN Line
    <3> HIDE DEF t
    <3> QED BY <2>1, <2>2, AppendProperties
  <2>4. \A i \in DOMAIN Line : Line[i] = t => t \in Settled
    BY <2>1 DEF LineInv, LineInMap
  <2>5. t \notin Settled =>
            t \in caches /\ \A c \in AddersAt({"put"}) : adder[c].tx = t => c = a
    BY <2>1 DEF LineInv, PutOnce
  <2>6. adder'[a].pc = "queued"
    BY <2>1, AdderFacts, TypeFacts DEF Enqueue, Moved
  <2>7. ASSUME t \notin Settled', NEW c \in AddersAt({"put"})' PROVE adder'[c].tx # t
    <3>1. c \in Adders /\ adder'[c].pc = "put" /\ c # a
      BY <2>6 DEF AddersAt
    <3>2. adder'[c] = adder[c] \/ adder'[c].tx \notin caches
      BY PutHistory
    <3>3. CASE adder'[c] = adder[c]
      BY <1>1, <2>5, <2>7, <3>1, <3>3 DEF AddersAt
    <3>4. CASE adder'[c].tx \notin caches
      BY <1>1, <2>5, <2>7, <3>4
    <3> QED BY <3>2, <3>3, <3>4
  <2>8. t \notin Settled' => t \in caches'
    BY <1>1, <2>5
  <2> HIDE DEF t, n
  <2>9. OnceInLine'
    BY <1>1, <2>3, <2>4 DEF LineInv, OnceInLine
  <2>10. LineInMap'
    BY <1>2, <2>3, <2>7, <2>8 DEF LineInMap
  <2> QED BY <2>9, <2>10
<1> QED BY <1>3, <1>4, LineParts

LEMMA OncePackedNext ==
    ASSUME TypeInv, PackInv, LineInv, [Next]_vars
    PROVE  OncePacked'
<1>1. undone \subseteq undone'
  BY SettledGrows
<1>2. CASE Packed' = Packed
  BY <1>1, <1>2 DEF LineInv, OncePacked
<1>3. CASE Packed' = <<>>
  BY <1>3 DEF OncePacked
<1>4. CASE LinePacks
  <2> DEFINE k == Len(Packed) + 1
  <2>1. k \in DOMAIN Line /\ Line[k] \notin OnChain /\ Packed' = Append(Packed, Line[k])
    BY <1>4 DEF LinePacks
  <2>2. /\ Packed \in Seq(Txs) /\ Line \in Seq(Txs) /\ Len(Packed) \in Nat
        /\ DOMAIN Packed = 1 .. Len(Packed) /\ \A i \in DOMAIN Packed : Line[i] = Packed[i]
        /\ DOMAIN Packed \subseteq DOMAIN Line
    BY LineTypes
  <2>3. Line[k] \in Txs
    BY <2>1, <2>2
  <2>4. /\ DOMAIN Packed' = DOMAIN Packed \cup {k} /\ k \notin DOMAIN Packed
        /\ \A i \in DOMAIN Packed : Packed'[i] = Packed[i]
        /\ Packed'[k] = Line[k]
    BY <2>1, <2>2, <2>3, AppendProperties
  <2> HIDE DEF k
  <2>5. \A i \in DOMAIN Packed : Packed[i] = Line[k] => Line[k] \in undone
    <3>1. \A i \in DOMAIN Packed : Line[i] = Line[k] => Line[k] \in Settled
      BY <2>1, <2>2, <2>4 DEF LineInv, OnceInLine
    <3> QED BY <2>1, <2>2, <3>1 DEF Settled
  <2> QED BY <1>1, <2>4, <2>5 DEF LineInv, OncePacked
<1>5. CASE Restart
  BY <1>3, <1>5, RestartFacts
<1> QED BY <1>2, <1>3, <1>4, <1>5, LineSteps DEF LineStays, LineLosesOne, LineGrows

LEMMA LineInvNext ==
    TypeInv /\ TypeInv' /\ SavedInv /\ PackInv /\ LineInv /\ [Next]_vars => LineInv'
<1> SUFFICES ASSUME TypeInv, TypeInv', SavedInv, PackInv, LineInv, [Next]_vars
             PROVE  LineInv'
  OBVIOUS
<1>1. CASE ~Restart
  BY <1>1, LineMapNext, PutOnceNext, OncePackedNext DEF LineInv
<1>2. CASE Restart
  <2>1. /\ Elements(ToLoad) = Elements(Walked) \ OnChain
        /\ \A i, j \in DOMAIN ToLoad : ToLoad[i] = ToLoad[j] => i = j
    BY TypeFacts, ToLoadFacts
  <2>2. Line' = ToLoad /\ caches' = Elements(ToLoad)
    BY <1>2, RestartFacts
  <2>3. AddersAt({"put"})' = {}
    BY <1>2, RestartFacts DEF AddersAt
  <2>4. OnceInLine'
    BY <2>1, <2>2 DEF OnceInLine
  <2>5. LineInMap'
    BY <2>2, <2>3 DEF LineInMap, Elements
  <2>6. PutOnce'
    BY <2>3 DEF PutOnce
  <2> QED BY <2>4, <2>5, <2>6, OncePackedNext DEF LineInv
<1> QED BY <1>1, <1>2

-----------------------------------------------------------------------------
(* The order of arrival.                                                    *)

\* What has arrived has arrived for the last time.
LEMMA LastExists ==
    ASSUME NEW s \in Seq(Txs), NEW t \in Elements(s)
    PROVE  \E i \in DOMAIN s : s[i] = t /\ \A k \in DOMAIN s : k > i => s[k] # t
<1> DEFINE n == Len(s)
           T == {n - i : i \in {k \in DOMAIN s : s[k] = t}}
<1>1. n \in Nat /\ DOMAIN s = 1 .. n
  BY LenProperties
<1>2. \E k \in DOMAIN s : s[k] = t
  BY DEF Elements
<1> HIDE DEF n
<1>3. T \in SUBSET Nat /\ T # {}
  BY <1>1, <1>2
<1>4. PICK m \in T : \A j \in T : m <= j
  <2> HIDE DEF T
  <2> QED BY <1>3, LeastExists
<1>5. PICK i \in DOMAIN s : s[i] = t /\ m = n - i
  OBVIOUS
<1>6. ASSUME NEW k \in DOMAIN s, k > i PROVE s[k] # t
  <2>1. SUFFICES ASSUME s[k] = t PROVE FALSE
    OBVIOUS
  <2>2. n - k \in T
    BY <2>1
  <2>3. n - i <= n - k
    <3> HIDE DEF T
    <3> QED BY <1>4, <1>5, <2>2
  <2>4. i \in Int /\ k \in Int /\ n \in Int
    BY <1>1
  <2> HIDE DEF T
  <2> QED BY <1>6, <2>3, <2>4
<1> QED BY <1>5, <1>6

\* What one more arrival changes: nothing for the others, and it comes after them.
LEMMA OneMoreArrives ==
    ASSUME NEW s \in Seq(Txs), NEW t \in Txs
    PROVE  /\ Elements(Append(s, t)) = Elements(s) \cup {t}
           /\ \A u, v : u # t /\ Earlier(s, u, v) => Earlier(Append(s, t), u, v)
           /\ \A u \in Elements(s) \ {t} : Earlier(Append(s, t), u, t)
<1> DEFINE n == Len(s)
           r == Append(s, t)
<1>1. n \in Nat /\ DOMAIN s = 1 .. n
  BY LenProperties
<1>2. /\ DOMAIN r = DOMAIN s \cup {n + 1}
      /\ \A i \in DOMAIN s : r[i] = s[i] /\ i < n + 1
      /\ r[n + 1] = t
  BY <1>1, AppendProperties
<1> HIDE DEF n, r
<1>3. Elements(r) = Elements(s) \cup {t}
  BY <1>2 DEF Elements
<1>4. ASSUME NEW u, NEW v, u # t, Earlier(s, u, v) PROVE Earlier(r, u, v)
  <2>1. PICK i \in DOMAIN s, j \in DOMAIN s :
            /\ s[i] = u /\ s[j] = v /\ i < j
            /\ \A k \in DOMAIN s : k > i => s[k] # u
    BY <1>4 DEF Earlier
  <2>2. \A k \in DOMAIN r : k > i => r[k] # u
    BY <1>2, <1>4, <2>1
  <2> QED BY <1>2, <2>1, <2>2 DEF Earlier
<1>5. ASSUME NEW u \in Elements(s) \ {t} PROVE Earlier(r, u, t)
  <2>1. PICK i \in DOMAIN s : s[i] = u /\ \A k \in DOMAIN s : k > i => s[k] # u
    BY LastExists
  <2>2. \A k \in DOMAIN r : k > i => r[k] # u
    BY <1>2, <2>1
  <2> QED BY <1>2, <2>1, <2>2 DEF Earlier
<1> QED BY <1>3, <1>4, <1>5 DEF r

LEMMA ArrivalSteps ==
    ASSUME TypeInv, [Next]_vars
    PROVE  /\ \/ arrived' = arrived
              \/ \E a \in Adders : Enqueue(a) /\ adder[a].tx \in Txs
                                   /\ arrived' = Append(arrived, adder[a].tx)
           /\ Elements(arrived) \subseteq Elements(arrived')
           /\ \A a \in Adders : Enqueue(a) => adder[a].tx \in Elements(arrived')
<1>1. ASSUME NEW a \in Adders, Enqueue(a)
      PROVE  adder[a].tx \in Txs /\ arrived' = Append(arrived, adder[a].tx)
  BY <1>1, AdderFacts DEF Enqueue
<1>2. arrived' = arrived \/ \E a \in Adders : Enqueue(a)
  BY DEF Next, Adding, Check, Admit, Put, Store, Storing, SaveBlock, RemoveSaved, Packing, Package,
         Poll, EndQueue, EndRemoval, RollBack, Restart, vars
<1>3. ASSUME NEW a \in Adders, Enqueue(a)
      PROVE  Elements(arrived') = Elements(arrived) \cup {adder[a].tx}
  <2>1. arrived \in Seq(Txs)
    BY TypeFacts
  <2> QED BY <1>1, <1>3, <2>1, OneMoreArrives
<1>4. CASE arrived' = arrived
  BY <1>1, <1>3, <1>4
<1>5. CASE \E a \in Adders : Enqueue(a)
  BY <1>1, <1>3, <1>5
<1> QED BY <1>2, <1>4, <1>5

LEMMA OrderInvInit == Init => OrderInv
<1> SUFFICES ASSUME Init PROVE OrderInv
  OBVIOUS
<1>1. <<>> \o <<>> = <<>>
  OBVIOUS
<1>2. Line = <<>>
  BY <1>1 DEF Init, Resting, Packed, Waiting, Line
<1>3. AddersAt({"queued"}) = {}
  BY DEF Init, AddersAt, Idle
<1>4. DOMAIN saved.bySerial = {}
  BY DEF Init, NothingSaved
<1> QED BY <1>2, <1>3, <1>4 DEF OrderInv, LineInOrder, AllArrived, Elements

LEMMA LineInOrderNext ==
    ASSUME TypeInv, TypeInv', PackInv, LineInv, OrderInv, [Next]_vars
    PROVE  LineInOrder' /\ Elements(Line') \subseteq Elements(arrived')
<1>1. Settled \subseteq Settled' /\ Elements(arrived) \subseteq Elements(arrived')
  BY SettledGrows, ArrivalSteps
<1>2. CASE LineKeeps /\ UNCHANGED <<arrived, loaded>>
  <2>1. PICK f \in [DOMAIN Line' -> DOMAIN Line] :
            /\ \A i \in DOMAIN Line' : Line'[i] = Line[f[i]]
            /\ \A i, j \in DOMAIN Line' : i < j => f[i] < f[j]
    BY <1>2 DEF LineKeeps
  <2>2. ASSUME NEW i \in DOMAIN Line', NEW j \in DOMAIN Line', i < j,
               {Line'[i], Line'[j]} \cap Settled' = {}, ~({Line'[i], Line'[j]} \subseteq loaded')
        PROVE  Earlier(arrived', Line'[i], Line'[j])
    <3>1. Line'[i] = Line[f[i]] /\ Line'[j] = Line[f[j]] /\ f[i] < f[j]
      BY <2>1, <2>2
    <3>2. Earlier(arrived, Line[f[i]], Line[f[j]])
      BY <1>1, <1>2, <2>2, <3>1 DEF OrderInv, LineInOrder
    <3>3. arrived' = arrived
      BY <1>2
    <3> QED BY <3>1, <3>2, <3>3
  <2>3. LineInOrder'
    BY <2>2 DEF LineInOrder
  <2>4. Elements(Line') \subseteq Elements(Line)
    BY <2>1 DEF Elements
  <2> QED BY <1>1, <2>3, <2>4 DEF OrderInv, AllArrived
<1>3. ASSUME NEW a \in Adders, LineGrows(a)
      PROVE  LineInOrder' /\ Elements(Line') \subseteq Elements(arrived')
  <2> DEFINE t == adder[a].tx
             n == Len(Line)
  <2>1. /\ a \in AddersAt({"put"}) /\ t \in Txs /\ Line' = Append(Line, t)
        /\ arrived' = Append(arrived, t) /\ loaded' = loaded
    BY <1>3, AdderFacts DEF LineGrows, Enqueue, AddersAt
  <2>2. Line \in Seq(Txs) /\ n \in Nat /\ DOMAIN Line = 1 .. n
    BY LineTypes
  <2>3. \A i \in DOMAIN Line : Line[i] = t => t \in Settled
    BY <2>1 DEF LineInv, LineInMap
  <2> HIDE DEF t
  <2>4. /\ DOMAIN Line' = DOMAIN Line \cup {n + 1}
        /\ \A i \in DOMAIN Line : Line'[i] = Line[i] /\ i < n + 1
        /\ Line'[n + 1] = t
    BY <2>1, <2>2, AppendProperties
  <2>5. /\ Elements(arrived') = Elements(arrived) \cup {t}
        /\ \A u, v : u # t /\ Earlier(arrived, u, v) => Earlier(arrived', u, v)
        /\ \A u \in Elements(arrived) \ {t} : Earlier(arrived', u, t)
    <3>1. arrived \in Seq(Txs)
      BY TypeFacts
    <3> QED BY <2>1, <3>1, OneMoreArrives
  <2> HIDE DEF n
  <2>6. ASSUME NEW i \in DOMAIN Line', NEW j \in DOMAIN Line', i < j,
               {Line'[i], Line'[j]} \cap Settled' = {}, ~({Line'[i], Line'[j]} \subseteq loaded')
        PROVE  Earlier(arrived', Line'[i], Line'[j])
    <3>1. n + 1 \in Int /\ i \in DOMAIN Line
      <4>1. j \in DOMAIN Line \/ j = n + 1
        BY <2>4
      <4> QED BY <2>2, <2>4, <2>6, <4>1
    <3>2. Line'[i] = Line[i] /\ Line[i] # t
      BY <1>1, <2>3, <2>4, <2>6, <3>1
    <3>3. CASE j \in DOMAIN Line
      <4>1. Earlier(arrived, Line[i], Line[j]) /\ Line'[j] = Line[j]
        BY <1>1, <2>1, <2>4, <2>6, <3>1, <3>2, <3>3 DEF OrderInv, LineInOrder
      <4> QED BY <2>5, <3>2, <4>1
    <3>4. CASE j = n + 1
      <4>1. Line[i] \in Elements(arrived) \ {t}
        BY <3>1, <3>2 DEF OrderInv, AllArrived, Elements
      <4> QED BY <2>4, <2>5, <3>2, <3>4, <4>1
    <3> QED BY <2>4, <3>3, <3>4
  <2>7. LineInOrder'
    BY <2>6 DEF LineInOrder
  <2>8. Elements(Line') = Elements(Line) \cup {t}
    BY <2>4 DEF Elements
  <2> QED BY <2>5, <2>7, <2>8 DEF OrderInv, AllArrived
<1>4. CASE Restart
  <2>1. Line' = ToLoad /\ loaded' = Elements(ToLoad) /\ arrived' = arrived
    BY <1>4, RestartFacts
  <2>2. /\ Elements(ToLoad) = Elements(Walked) \ OnChain
        /\ Elements(Walked) = {saved.bySerial[n] : n \in FirstLoaded .. saved.last}
        /\ FirstLoaded .. saved.last \subseteq DOMAIN saved.bySerial
    BY TypeFacts, ToLoadFacts, WalkedFacts, FirstLoadedFacts
  <2>3. Elements(Line') \subseteq Elements(arrived')
    BY <2>1, <2>2 DEF OrderInv, AllArrived
  <2>4. \A i \in DOMAIN Line' : Line'[i] \in loaded'
    BY <2>1 DEF Elements
  <2> QED BY <2>3, <2>4 DEF LineInOrder
<1> QED BY <1>2, <1>3, <1>4, LineParts

\* What a step does to the saved copy: a queued transaction is added, or some are deleted.
LEMMA SavedSteps ==
    ASSUME TypeInv, [Next]_vars
    PROVE  \/ saved' = saved
           \/ \E a \in Adders : Store(a) /\ saved' = Stored(adder[a].tx)
                                /\ adder[a].pc = "queued" /\ adder[a].tx \in Txs
           \/ Restart
           \/ \E r \in removals : EndRemoval(r) /\ saved' = Deleted({r.tx})
<1>1. ASSUME NEW a \in Adders, Store(a)
      PROVE  saved' = Stored(adder[a].tx) /\ adder[a].pc = "queued" /\ adder[a].tx \in Txs
  BY <1>1, AdderFacts DEF Store
<1>2. ASSUME NEW r \in removals, EndRemoval(r) PROVE saved' = Deleted({r.tx})
  BY <1>2 DEF EndRemoval
<1>3. \/ saved' = saved \/ Restart \/ \E a \in Adders : Store(a)
      \/ \E r \in removals : EndRemoval(r)
  BY DEF Next, Adding, Check, Admit, Put, Enqueue, Storing, SaveBlock, RemoveSaved, Packing,
         Package, Poll, EndQueue, RollBack, vars
<1> QED BY <1>1, <1>2, <1>3

LEMMA OrderInvNext ==
    TypeInv /\ TypeInv' /\ PackInv /\ LineInv /\ OrderInv /\ [Next]_vars => OrderInv'
<1> SUFFICES ASSUME TypeInv, TypeInv', PackInv, LineInv, OrderInv, [Next]_vars
             PROVE  OrderInv'
  OBVIOUS
<1>1. Elements(arrived) \subseteq Elements(arrived')
  BY ArrivalSteps
<1>2. SavedType /\ SavedShape
  BY TypeFacts
<1>3. ASSUME NEW S, saved' = Deleted(S)
      PROVE  \A n \in DOMAIN saved'.bySerial : saved'.bySerial[n] \in Elements(arrived')
  <2>1. /\ DOMAIN saved'.bySerial \subseteq DOMAIN saved.bySerial
        /\ \A n \in DOMAIN saved'.bySerial : saved'.bySerial[n] = saved.bySerial[n]
    BY <1>2, <1>3, DeletedFacts
  <2> QED BY <1>1, <2>1 DEF OrderInv, AllArrived
<1>4. ASSUME NEW a \in Adders, saved' = Stored(adder[a].tx), adder[a].pc = "queued",
             adder[a].tx \in Txs
      PROVE  \A n \in DOMAIN saved'.bySerial : saved'.bySerial[n] \in Elements(arrived')
  <2>1. adder[a].tx \in Elements(arrived)
    BY <1>4 DEF OrderInv, AllArrived, AddersAt
  <2>2. PICK t \in Txs : t = adder[a].tx
    BY <1>4
  <2>3. /\ DOMAIN saved'.bySerial = DOMAIN saved.bySerial \cup {saved.last + 1}
        /\ saved'.bySerial[saved.last + 1] = t
        /\ \A n \in DOMAIN saved.bySerial : saved'.bySerial[n] = saved.bySerial[n]
    <3>1. saved' = Stored(t)
      BY <1>4, <2>2
    <3> QED BY <1>2, <3>1, StoredFacts
  <2> QED BY <1>1, <2>1, <2>2, <2>3 DEF OrderInv, AllArrived
<1>5. \A n \in DOMAIN saved'.bySerial : saved'.bySerial[n] \in Elements(arrived')
  <2>1. CASE saved' = saved
    BY <1>1, <2>1 DEF OrderInv, AllArrived
  <2>2. CASE Restart
    BY <1>3, <2>2, RestartFacts
  <2> QED BY <1>3, <1>4, <2>1, <2>2, SavedSteps
<1>6. ASSUME NEW a \in AddersAt({"queued"})' PROVE adder'[a].tx \in Elements(arrived')
  <2>1. a \in Adders /\ adder'[a].pc = "queued"
    BY DEF AddersAt
  <2>2. ~Restart
    BY <2>1, RestartFacts
  <2>3. adder'[a] = adder[a] \/ (Enqueue(a) /\ adder'[a].tx = adder[a].tx)
    BY <2>1, <2>2, AdderHistory
  <2>4. CASE adder'[a] = adder[a]
    BY <1>1, <2>1, <2>4 DEF OrderInv, AllArrived, AddersAt
  <2>5. CASE Enqueue(a) /\ adder'[a].tx = adder[a].tx
    BY <2>1, <2>5, ArrivalSteps
  <2> QED BY <2>3, <2>4, <2>5
<1> QED BY <1>5, <1>6, LineInOrderNext DEF OrderInv, AllArrived

-----------------------------------------------------------------------------
(* Nothing stranded, nothing lost.                                          *)

\* What is in the map waits in the line, or is about to.
Reachable ==
    \A t \in caches : \/ t \in Elements(Line)
                      \/ \E a \in AddersAt({"put"}) : adder[a].tx = t

LEMMA LineElements ==
    ASSUME TypeInv, PackInv
    PROVE  Elements(Line) =
               Elements(order) \cup Elements(packagedOrder) \cup Elements(packer.taken)
<1>1. /\ order \in Seq(Txs) /\ packagedOrder \in Seq(Txs) /\ packer.block \in Seq(Txs)
      /\ packer.taken \in Seq(Txs)
  BY TypeFacts, PackerFacts
<1>2. Packed \in Seq(Txs) /\ Waiting \in Seq(Txs)
  BY LineTypes
<1>3. Elements(Line) = Elements(Packed) \cup Elements(Waiting)
  BY <1>2, ElementsOfConcat DEF Line
<1>4. Elements(Packed) = Elements(packer.block) \cup Elements(packer.taken)
  BY <1>1, ElementsOfConcat DEF Packed
<1>5. CASE packer.pc = "packaged"
  <2>1. Elements(packer.block) = {}
    BY <1>5 DEF PackInv, Elements
  <2>2. Elements(Waiting) = Elements(packagedOrder) \cup Elements(order)
    BY <1>1, <1>5, ElementsOfConcat DEF Waiting
  <2> QED BY <1>3, <1>4, <2>1, <2>2
<1>6. CASE packer.pc # "packaged"
  BY <1>3, <1>4, <1>6 DEF PackInv, Waiting
<1> QED BY <1>5, <1>6

LEMMA StrandedIs == TypeInv /\ PackInv => (Reachable <=> NothingStranded)
BY LineElements DEF Reachable, NothingStranded

\* What comes into the map is put there, or loaded by a start.
LEMMA CachesGrow ==
    ASSUME TypeInv, SavedInv, [Next]_vars, ~Restart, NEW t \in caches' \ caches
    PROVE  \E a \in AddersAt({"put"})' : adder'[a].tx = t
<1>1. PICK a \in Adders : Put(a)
  BY CachesKept
<1>2. /\ adder' = [adder EXCEPT ![a] = Moved(a, "put")]
      /\ caches' = caches \cup {adder[a].tx} /\ Moved(a, "put") \in AdderRecords
  BY <1>1, AdderFacts DEF Put, AdderPcs
<1>3. adder'[a] = Moved(a, "put")
  BY <1>2, AdderStep
<1>4. adder'[a].pc = "put" /\ adder'[a].tx = adder[a].tx
  BY <1>3 DEF Moved
<1>5. a \in AddersAt({"put"})'
  BY <1>4 DEF AddersAt
<1> QED BY <1>2, <1>4, <1>5

\* What is in the line stays there as long as it is in the map.
LEMMA LineKept ==
    ASSUME TypeInv, TypeInv', PackInv, [Next]_vars, ~Restart,
           NEW t \in Elements(Line) \cap caches'
    PROVE  t \in Elements(Line')
<1>1. CASE Line' = Line
  BY <1>1
<1>2. ASSUME NEW a \in Adders, LineGrows(a) PROVE t \in Elements(Line')
  <2>1. PICK e \in Txs : Line' = Append(Line, e)
    BY <1>2, AdderFacts DEF LineGrows, Enqueue
  <2>2. Line \in Seq(Txs)
    BY LineTypes
  <2>3. Elements(Line') = Elements(Line) \cup {e}
    BY <2>1, <2>2, OneMoreArrives
  <2> QED BY <2>3
<1>3. CASE LineLosesOne
  <2>1. PICK n \in Nat : n = Len(Line)
    BY LineTypes
  <2>2. DOMAIN Line = 1 .. n
    BY <2>1, LineTypes
  <2>3. PICK k \in 1 .. n :
            /\ Line[k] \notin caches'
            /\ Len(Line') = n - 1
            /\ \A i \in 1 .. n - 1 : Line'[i] = Line[Past(k, i)]
    BY <1>3, <2>1, <2>2, Zenon DEF LineLosesOne
  <2>4. DOMAIN Line' = 1 .. n - 1
    <3>1. (DOMAIN Line = 1 .. Len(Line) /\ Len(Line) \in Nat)'
      BY LineTyped, PTL
    <3> QED BY <2>3, <3>1, Zenon
  <2>5. PICK i \in 1 .. n : Line[i] = t
    BY <2>2 DEF Elements
  <2>6. i # k
    BY <2>3, <2>5
  <2>7. \E j \in 1 .. n - 1 : Past(k, j) = i
    <3>1. CASE i < k
      <4>1. i \in 1 .. n - 1 /\ Past(k, i) = i
        BY <3>1 DEF Past
      <4> QED BY <4>1
    <3>2. CASE i > k
      <4>1. i - 1 \in 1 .. n - 1 /\ ~(i - 1 < k) /\ (i - 1) + 1 = i
        BY <3>2
      <4>2. Past(k, i - 1) = i
        BY <4>1 DEF Past
      <4> QED BY <4>1, <4>2
    <3>3. i < k \/ i > k
      BY <2>6
    <3> QED BY <3>1, <3>2, <3>3
  <2>8. PICK j \in 1 .. n - 1 : Past(k, j) = i
    BY <2>7
  <2>9. Line'[j] = t
    BY <2>3, <2>5, <2>8
  <2> QED BY <2>4, <2>9 DEF Elements
<1> QED BY <1>1, <1>2, <1>3, LineSteps DEF LineStays, LinePacks

LEMMA ReachableNext ==
    ASSUME TypeInv, TypeInv', SavedInv, PackInv, Reachable, [Next]_vars
    PROVE  Reachable'
<1> SUFFICES ASSUME NEW t \in caches'
             PROVE  \/ t \in Elements(Line')
                    \/ \E a \in AddersAt({"put"})' : adder'[a].tx = t
  BY DEF Reachable
<1>1. CASE Restart
  BY <1>1, RestartFacts
<1>2. CASE ~Restart /\ t \notin caches
  BY <1>2, CachesGrow
<1>3. CASE ~Restart /\ t \in Elements(Line)
  BY <1>3, LineKept
<1>4. ASSUME ~Restart, NEW a \in AddersAt({"put"}), adder[a].tx = t
      PROVE  \/ t \in Elements(Line')
             \/ \E c \in AddersAt({"put"})' : adder'[c].tx = t
  <2>1. a \in Adders /\ adder[a].pc = "put"
    BY DEF AddersAt
  <2>2. (adder'[a].pc = "put" /\ adder'[a].tx = adder[a].tx) \/ Enqueue(a)
    BY <1>4, <2>1, AdderHistory
  <2>3. CASE adder'[a].pc = "put" /\ adder'[a].tx = adder[a].tx
    BY <1>4, <2>1, <2>3 DEF AddersAt
  <2>4. CASE Enqueue(a)
    <3>1. Line' = Append(Line, t) /\ t \in Txs
      BY <1>4, <2>1, <2>4, EnqueueGrows, AdderFacts DEF LineGrows
    <3>2. Line \in Seq(Txs)
      BY LineTypes
    <3> QED BY <3>1, <3>2, OneMoreArrives
  <2> QED BY <2>2, <2>3, <2>4
<1> QED BY <1>1, <1>2, <1>3, <1>4 DEF Reachable

LEMMA StrandedNext ==
    TypeInv /\ TypeInv' /\ SavedInv /\ PackInv /\ PackInv' /\ NothingStranded /\ [Next]_vars
        => NothingStranded'
<1>1. StrandedIs'
  BY StrandedIs, PTL
<1> QED BY <1>1, StrandedIs, ReachableNext

LEMMA PoolIsSavedInit == Init => PoolIsSaved
BY DEF Init, PoolIsSaved

LEMMA PoolIsSavedNext ==
    TypeInv /\ SavedInv /\ SavedInv' /\ PoolIsSaved /\ [Next]_vars => PoolIsSaved'
<1> SUFFICES ASSUME TypeInv, SavedInv, SavedInv', PoolIsSaved, [Next]_vars,
                    NEW t \in caches' \ Settled'
             PROVE  \/ \E a \in AddersAt({"put", "queued"})' : adder'[a].tx = t
                    \/ t \in DOMAIN saved'.byTx
  BY DEF PoolIsSaved, SavedInv
<1>1. SavedType /\ SavedShape /\ t \notin Settled
  BY TypeFacts, SettledGrows
<1>2. CASE Restart
  <2>1. /\ t \in Elements(ToLoad) /\ saved' = Deleted(Elements(Walked) \cap OnChain)
    BY <1>2, RestartFacts
  <2>2. PICK n \in DOMAIN saved.bySerial : t = saved.bySerial[n]
    BY <1>1, <2>1, ToLoadFacts, WalkedFacts, FirstLoadedFacts
  <2>3. t \in DOMAIN saved.byTx /\ t \notin OnChain
    BY <1>1, <2>2 DEF SavedInv, Settled
  <2>4. DOMAIN saved'.byTx = DOMAIN saved.byTx \ (Elements(Walked) \cap OnChain)
    BY <1>1, <2>1, DeletedFacts
  <2> QED BY <2>3, <2>4
<1>3. CASE ~Restart /\ t \notin caches
  BY <1>3, CachesGrow DEF AddersAt
<1>4. ASSUME ~Restart, NEW a \in AddersAt({"put", "queued"}), adder[a].tx = t
      PROVE  \/ \E c \in AddersAt({"put", "queued"})' : adder'[c].tx = t
             \/ t \in DOMAIN saved'.byTx
  <2>1. a \in Adders /\ adder[a].pc \in {"put", "queued"}
    BY DEF AddersAt
  <2>2. \/ adder'[a] = adder[a]
        \/ adder'[a].pc \in {"put", "queued"} /\ adder'[a].tx = adder[a].tx
        \/ Store(a)
    BY <1>4, <2>1, AdderHistory
  <2>3. CASE Store(a)
    <3>1. saved' = Stored(t) /\ t \in Txs
      BY <1>4, <2>1, <2>3, AdderFacts DEF Store
    <3> QED BY <1>1, <3>1, StoredFacts
  <2>4. CASE adder'[a].pc \in {"put", "queued"} /\ adder'[a].tx = adder[a].tx
    BY <1>4, <2>1, <2>4 DEF AddersAt
  <2> QED BY <2>1, <2>2, <2>3, <2>4
<1>5. CASE ~Restart /\ t \in DOMAIN saved.byTx
  <2>1. CASE saved' = saved
    BY <1>5, <2>1
  <2>2. ASSUME NEW a \in Adders, saved' = Stored(adder[a].tx), adder[a].tx \in Txs
        PROVE  t \in DOMAIN saved'.byTx
    <3>1. PICK u \in Txs : u = adder[a].tx
      BY <2>2
    <3>2. saved' = Stored(u)
      BY <2>2, <3>1
    <3> QED BY <1>1, <1>5, <3>2, StoredFacts
  <2>3. ASSUME NEW r \in removals, saved' = Deleted({r.tx}) PROVE t \in DOMAIN saved'.byTx
    <3>1. DOMAIN saved'.byTx = DOMAIN saved.byTx \ {r.tx}
      BY <1>1, <2>3, DeletedFacts
    <3>2. r.tx # t
      BY <1>1 DEF SavedInv
    <3> QED BY <1>5, <3>1, <3>2
  <2> QED BY <1>5, <2>1, <2>2, <2>3, SavedSteps
<1> QED BY <1>1, <1>2, <1>3, <1>4, <1>5 DEF PoolIsSaved

-----------------------------------------------------------------------------
(* The invariant, and the properties it gives.                              *)

LEMMA InvariantInit == Init => Invariant
<1> SUFFICES ASSUME Init PROVE Invariant
  OBVIOUS
<1>1. NothingStranded
  BY DEF Init, NothingStranded
<1> QED BY <1>1, TypeInvInit, SavedInvInit, CountInit, PackInvInit, LineInvInit, OrderInvInit,
           PoolIsSavedInit DEF Invariant

LEMMA InvariantNext == Invariant /\ [Next]_vars => Invariant'
<1> SUFFICES ASSUME Invariant, [Next]_vars PROVE Invariant'
  OBVIOUS
<1>1. /\ TypeInv /\ SavedInv /\ CountInv /\ AdmittedBounded
      /\ PackInv /\ LineInv /\ OrderInv /\ NothingStranded /\ PoolIsSaved
  BY DEF Invariant
<1>2. TypeInv'
  BY <1>1, TypeInvNext
<1>3. SavedInv' /\ PackInv'
  BY <1>1, SavedInvNext, PackInvNext
<1>4. CountInv' /\ AdmittedBounded'
  BY <1>1, <1>2, CountNext
<1>5. LineInv' /\ OrderInv'
  BY <1>1, <1>2, LineInvNext, OrderInvNext
<1>6. NothingStranded' /\ PoolIsSaved'
  BY <1>1, <1>2, <1>3, StrandedNext, PoolIsSavedNext
<1> QED BY <1>2, <1>3, <1>4, <1>5, <1>6 DEF Invariant

LEMMA InvariantCorrect == Spec => []Invariant
BY InvariantInit, InvariantNext, PTL DEF Spec

\* Each variable of the pool, of its saved copy and of the actors that share it keeps its
\* type: a serial number that is noted is one that was given.
THEOREM TypeCorrect == Spec => []TypeOK
<1>1. Invariant => TypeOK
  BY DEF Invariant, TypeInv
<1> QED BY <1>1, InvariantCorrect, PTL

\* transactionCount is the size of the map, but for the adds and removals that are half
\* done, whatever the adders, the storager, the blocker and restarts interleave.
THEOREM CountInStepCorrect == Spec => []CountInStep
<1>1. Invariant => CountInStep
  BY DEF Invariant, CountInv
<1> QED BY <1>1, InvariantCorrect, PTL

\* The map overruns max_cache_num by no more than one less than the adders at work, or by
\* what a start has loaded: the check of hasOverflowed is not atomic with the put.
THEOREM OverrunCorrect == Spec => []OverrunBounded
<1>1. ASSUME Invariant PROVE OverrunBounded
  <2>1. TypeInv /\ IsFiniteSet(removals) /\ AdmittedBounded
    BY <1>1 DEF Invariant, CountInv
  <2>2. /\ Cardinality(caches) \in Nat /\ Cardinality(AddersAt({"admitted"})) \in Nat
        /\ Cardinality(Adders) \in Nat
    BY <2>1, FiniteFacts
  <2>3. Cardinality(loaded) \in Nat
    <3>1. IsFiniteSet(loaded)
      BY <2>1, TypeFacts, ConstantFacts, FS_Subset
    <3> QED BY <3>1, FS_CardinalityType
  <2>4. CacheMaxSize \in Nat
    BY ConstantFacts
  <2>5. Larger(Cardinality(loaded), CacheMaxSize + Cardinality(Adders) - 1) \in Int
    BY <2>2, <2>3, <2>4 DEF Larger
  <2>6. \A x, y, m \in Int : x + y <= m /\ y >= 0 => x <= m
    OBVIOUS
  <2>7. Cardinality(AddersAt({"admitted"})) >= 0
    BY <2>2
  <2> QED BY <2>1, <2>2, <2>5, <2>6, <2>7 DEF AdmittedBounded, OverrunBounded
<1> QED BY <1>1, InvariantCorrect, PTL

\* Every transaction of the map is in one of the two queues, with the blocker, or with the
\* adder that is about to queue it: none is counted for ever and never packed.
THEOREM StrandedCorrect == Spec => []NothingStranded
<1>1. Invariant => NothingStranded
  BY DEF Invariant
<1> QED BY <1>1, InvariantCorrect, PTL

\* Every transaction of the map that was never on the chain is in the saved copy, under
\* the number noted for it, or its adder is about to save it.
THEOREM SavedCorrect == Spec => []PoolIsSaved
<1>1. Invariant => PoolIsSaved
  BY DEF Invariant
<1> QED BY <1>1, InvariantCorrect, PTL

\* A block is packed within its limit, and has no transaction twice that was never rolled
\* back, although ids leave a queue for another one while blocks are saved.
THEOREM PackedOnceCorrect == Spec => []PackedOnce
<1>1. ASSUME Invariant PROVE PackedOnce
  <2>1. TypeInv /\ PackInv /\ OncePacked
    BY <1>1 DEF Invariant, LineInv
  <2>2. /\ packer.block \in Seq(Txs) /\ packer.taken \in Seq(Txs) /\ packer.seen \in Nat
        /\ MaxOfBlock \in Nat /\ packagedOrder \in Seq(Txs)
    BY <2>1, PackerFacts, TypeFacts, ConstantFacts
  <2>3. Len(packer.block) + packer.seen <= MaxOfBlock /\ Len(packer.taken) <= packer.seen
    <3>1. CASE packer.pc = "packaged"
      <4>1. /\ packer.block = <<>> /\ Len(packagedOrder) + packer.seen <= MaxOfBlock
            /\ Len(packer.taken) <= packer.seen
        BY <2>1, <3>1 DEF PackInv
      <4>2. Len(packer.block) = 0 /\ Len(packagedOrder) \in Nat
        BY <2>2, <4>1
      <4> QED BY <2>2, <4>1, <4>2
    <3>2. CASE packer.pc # "packaged"
      BY <2>1, <3>2 DEF PackInv
    <3> QED BY <3>1, <3>2
  <2>4. Len(Packed) <= MaxOfBlock
    <3>1. Len(Packed) = Len(packer.block) + Len(packer.taken)
      BY <2>2, ConcatProperties DEF Packed
    <3>2. Len(packer.block) \in Int /\ Len(packer.taken) \in Int /\ MaxOfBlock \in Int
          /\ packer.seen \in Int
      BY <2>2
    <3>3. Len(packer.block) + Len(packer.taken) <= MaxOfBlock
      BY <2>3, <3>2, LessIsLess
    <3> QED BY <3>1, <3>3, Zenon
  <2> QED BY <2>1, <2>4 DEF PackedOnce, OncePacked, Packed
<1> QED BY <1>1, InvariantCorrect, PTL

\* What is packed is in the order in which it was queued, whatever attempts at a block were
\* made before, but for what was on the chain and for two that a start has loaded.
THEOREM PackedInOrderCorrect == Spec => []PackedInOrderUnlessLoaded
<1>1. ASSUME Invariant PROVE PackedInOrderUnlessLoaded
  <2>1. TypeInv /\ LineInOrder
    BY <1>1 DEF Invariant, OrderInv
  <2>2. packer.block \in Seq(Txs) /\ packer.taken \in Seq(Txs)
    BY <2>1, PackerFacts
  <2>3. /\ DOMAIN Packed = 1 .. Len(Packed) /\ DOMAIN Line = 1 .. Len(Line)
        /\ \A i \in 1 .. Len(Packed) : i \in DOMAIN Line /\ Line[i] = Packed[i]
    BY <2>1, LineTypes
  <2>4. \A i \in DOMAIN packer.block : i \in DOMAIN Packed /\ Packed[i] = packer.block[i]
    <3>1. PICK b, q \in Seq(Txs) : b = packer.block /\ q = packer.taken
      BY <2>2
    <3>2. \A i \in DOMAIN b : i \in DOMAIN (b \o q) /\ (b \o q)[i] = b[i]
      BY ConcatProperties, LenProperties
    <3> QED BY <3>1, <3>2 DEF Packed
  <2>5. \A i \in DOMAIN packer.block : i \in DOMAIN Line /\ Line[i] = packer.block[i]
    BY <2>3, <2>4
  <2>6. \A t, u : Earlier(arrived, t, u) => Before(t, u)
    BY DEF Earlier, Before
  <2> QED BY <2>1, <2>5, <2>6 DEF LineInOrder, PackedInOrderUnlessLoaded
<1> QED BY <1>1, InvariantCorrect, PTL

\* loadTransactionFromLevelDB brings back what was saved and is not on the chain, if no
\* number is missing between it and the last one.
KeepsPoolUnlessGap ==
    done'.restarts # done.restarts =>
        \A t \in DOMAIN saved.byTx \ Settled :
            saved.byTx[t] .. saved.last \subseteq DOMAIN saved.bySerial => t \in caches'

LEMMA RestartCounted ==
    ASSUME TypeInv, [Next]_vars, done'.restarts # done.restarts
    PROVE  Restart
<1>1. CASE \E a \in Adders, t \in Txs : Check(a, t)
  BY <1>1, UsedType DEF Check
<1>2. CASE \E b \in SUBSET Txs : SaveBlock(b)
  BY <1>2, UsedType DEF SaveBlock
<1>3. CASE RollBack
  BY <1>3, UsedType DEF RollBack
<1>4. CASE Package
  BY <1>4, UsedType DEF Package
<1>5. \/ \E a \in Adders, t \in Txs : Check(a, t)
      \/ \E b \in SUBSET Txs : SaveBlock(b)
      \/ RollBack \/ Package \/ Restart
      \/ done' = done
  BY DEF Next, Adding, Admit, Put, Enqueue, Store, Storing, RemoveSaved, Packing, Poll, EndQueue,
         EndRemoval, vars
<1> QED BY <1>1, <1>2, <1>3, <1>4, <1>5

\* A crash at any point and the start after it keep what was saved without a gap.
THEOREM RestartCorrect == Spec => RestartKeepsPoolUnlessGap
<1>1. ASSUME Invariant, [Next]_vars PROVE KeepsPoolUnlessGap
  <2>1. TypeInv /\ SavedInv /\ SavedType
    BY <1>1, SavedIsTyped DEF Invariant
  <2> SUFFICES ASSUME Restart, NEW t \in DOMAIN saved.byTx \ Settled,
                      saved.byTx[t] .. saved.last \subseteq DOMAIN saved.bySerial
               PROVE  t \in caches'
    BY <1>1, <2>1, RestartCounted DEF KeepsPoolUnlessGap
  <2>2. PICK n, m, l \in Int : n = saved.byTx[t] /\ m = FirstLoaded /\ l = saved.last
    BY <2>1, FirstLoadedFacts DEF SavedType
  <2>3. n \in 1 .. l /\ m \in 1 .. l + 1 /\ (m = 1 \/ m - 1 \notin DOMAIN saved.bySerial)
    BY <2>1, <2>2, FirstLoadedFacts DEF SavedType
  <2>4. n \in m .. l
    <3>1. ASSUME n < m PROVE FALSE
      <4>1. m - 1 \in n .. l /\ m # 1
        BY <2>3, <3>1
      <4> QED BY <2>2, <2>3, <4>1
    <3> QED BY <2>3, <3>1
  <2>5. saved.bySerial[n] = t
    BY <2>1, <2>2 DEF SavedInv
  <2>6. Elements(Walked) = {saved.bySerial[k] : k \in m .. l}
    BY <2>1, <2>2, WalkedFacts
  <2>7. t \in Elements(Walked) /\ t \notin OnChain
    BY <2>4, <2>5, <2>6 DEF Settled
  <2> QED BY <2>1, <2>7, ToLoadFacts, RestartFacts
<1>2. [][KeepsPoolUnlessGap]_vars => RestartKeepsPoolUnlessGap
  BY PTL DEF RestartKeepsPoolUnlessGap, KeepsPoolUnlessGap
<1> QED BY <1>1, <1>2, InvariantCorrect, PTL DEF Spec
=============================================================================
