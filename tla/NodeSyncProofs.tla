---------------------------- MODULE NodeSyncProofs ----------------------------
(***************************************************************************)
(* What a node that synchronises keeps true of itself, for any nodes,      *)
(* heights, mailboxes and faults.                                          *)
(*                                                                         *)
(* The blocks on disk and the status in memory lie on one line, which ends *)
(* in the block being saved or in the status (LineInv).  Of the blocks in  *)
(* the cache that the storager has no reason to leave there, not more are  *)
(* outside the reach of its loop than messages wait for it (ToldInv).  A   *)
(* rollback that waits was planned against a block that a quorum holds and *)
(* that is not on the line (PlanInv).                                      *)
(***************************************************************************)
EXTENDS NodeSync, FiniteSetTheorems, SequenceTheorems, TLAPS

Marks == {"main", "fork"}
Heights == 0 .. MaxHeight
CacheRecords == [block : Chains, from : Nodes]

StoragerRecords ==
    {IdleStorager}
    \cup [pc : {"loop"}, loop : 1 .. MaxHeight + 1, max : 1 .. MaxHeight, local : Heights]
    \cup [pc : {"saved"}, loop : 1 .. MaxHeight, max : 1 .. MaxHeight, block : Chains]

AskingRecords ==
    UNION {[pc : {"asking"}, startup : BOOLEAN, height : Heights, wait : SUBSET Nodes,
            answers : [S -> Chains]] : S \in SUBSET Nodes}
ActingRecords ==
    [pc : {"acting"}, startup : BOOLEAN, to : -1 .. MaxHeight, start : Heights,
     end : Heights, server : Nodes]
FetchingRecords ==
    [pc : {"fetching"}, next : 1 .. MaxHeight, end : 1 .. MaxHeight, server : Nodes,
     retried : BOOLEAN]
RequesterRecords ==
    {IdleRequester} \cup AskingRecords \cup ActingRecords \cup FetchingRecords

FullMessages ==
    [type : {"batch"}] \cup [type : {"restore"}, block : Chains \ {<<>>}, from : Nodes]

TypeInv ==
    /\ TypeOK
    /\ DOMAIN cache \subseteq 1 .. MaxHeight /\ cache \in [DOMAIN cache -> CacheRecords]
    /\ inbox \in Seq(FullMessages)
    /\ storager \in StoragerRecords /\ requester \in RequesterRecords

\* The other nodes are on the chain of the network.
PeersInv ==
    \A p \in Nodes \ {Me} : disk[p] = Main(Len(disk[p])) /\ Len(disk[p]) <= net

LineInv ==
    /\ storager.pc = "saved" =>
          /\ IsPart(disk[Me], storager.block) /\ IsPart(tip, storager.block)
          /\ Len(storager.block) = storager.loop
          /\ split \/ storager.block = disk[Me]
    /\ storager.pc # "saved" => tip = <<>> \/ IsPart(disk[Me], tip)
    /\ storager.pc = "loop" => /\ Len(tip) <= storager.local
                               /\ tip = <<>> => disk[Me] = <<>>

\* The messages that tell of a block in the cache.
Told == {i \in DOMAIN inbox : inbox[i].type = "batch"}

\* Blocks in the cache that the storager would look at, or that came during its loop,
\* and that the loop does not reach any more.
Left ==
    CASE storager.pc = "idle" /\ tip = <<>> /\ disk[Me] # <<>> -> DOMAIN cache
      [] storager.pc = "idle" /\ ~(tip = <<>> /\ disk[Me] # <<>>) ->
            {h \in DOMAIN cache : h <= Len(tip) + 1}
      [] storager.pc = "loop" ->
            {h \in DOMAIN cache : \/ h > storager.max
                                  \/ h # storager.loop /\ h <= Len(tip) + 1}
      [] OTHER -> {h \in DOMAIN cache : h > storager.max \/ h < storager.loop}

ToldInv == Cardinality(Left) <= Cardinality(Told)

\* The block that a quorum holds where Me is to be rolled back.
Against == SubSeq(disk[requester.server], 1, requester.to + 1)

PlanInv ==
    /\ requester.pc = "asking" =>
          \A p \in DOMAIN requester.answers : IsPart(requester.answers[p], disk[p])
    /\ requester.pc = "acting" /\ ~requester.startup /\ requester.to >= 1 =>
          /\ requester.to + 1 <= Len(disk[requester.server])
          /\ IsQuorum(Holders(Against))
          /\ requester.to + 1 <= Len(tip) /\ ~IsPart(Against, tip)

Invariant == TypeInv /\ PeersInv /\ LineInv /\ ToldInv /\ PlanInv

-----------------------------------------------------------------------------
(* Chains: sequences of marks, and the order "is part of".                  *)

LEMMA ChainSeq == \A c : c \in Chains <=> c \in Seq(Marks) /\ Len(c) \in 0 .. MaxHeight
<1>1. ASSUME NEW c \in Chains PROVE c \in Seq(Marks) /\ Len(c) \in 0 .. MaxHeight
  <2>1. PICK h \in 0 .. MaxHeight : c \in [1 .. h -> Marks]
    BY DEF Chains, Marks
  <2>2. h \in Nat
    BY <2>1, SyncAssumption DEF SyncAssumption
  <2>3. c \in Seq(Marks)
    BY <2>1, <2>2, SeqDef
  <2>4. Len(c) = h
    BY <2>1, <2>2, <2>3, LenProperties
  <2> QED BY <2>1, <2>3, <2>4
<1>2. ASSUME NEW c \in Seq(Marks), Len(c) \in 0 .. MaxHeight PROVE c \in Chains
  <2>1. c \in [1 .. Len(c) -> Marks]
    BY LenProperties
  <2> QED BY <1>2, <2>1 DEF Chains, Marks
<1> QED BY <1>1, <1>2

LEMMA ChainType ==
    ASSUME NEW c \in Chains
    PROVE  /\ c \in Seq(Marks) /\ Len(c) \in Nat /\ Len(c) \in 0 .. MaxHeight
           /\ Len(c) <= MaxHeight
           /\ c = <<>> <=> Len(c) = 0
<1>1. c \in Seq(Marks) /\ Len(c) \in 0 .. MaxHeight
  BY ChainSeq
<1>2. Len(c) \in Nat
  BY <1>1, LenProperties
<1>3. c = <<>> <=> Len(c) = 0
  BY <1>1, EmptySeq
<1> QED BY <1>1, <1>2, <1>3, SyncAssumption DEF SyncAssumption

LEMMA EmptyChain == <<>> \in Chains /\ Len(<<>>) = 0
<1>1. <<>> \in Seq(Marks) /\ Len(<<>>) = 0
  BY EmptySeq
<1>2. Len(<<>>) \in 0 .. MaxHeight
  BY <1>1, SyncAssumption DEF SyncAssumption
<1> HIDE DEF Marks
<1>3. <<>> \in Chains
  BY <1>1, <1>2, ChainSeq, Zenon
<1> QED BY <1>1, <1>3

\* The first n blocks of a chain.
LEMMA First ==
    ASSUME NEW c \in Chains, NEW n \in 0 .. Len(c)
    PROVE  /\ SubSeq(c, 1, n) \in Chains /\ Len(SubSeq(c, 1, n)) = n
           /\ \A i \in 1 .. n : SubSeq(c, 1, n)[i] = c[i]
<1>1. c \in Seq(Marks) /\ Len(c) \in Nat /\ Len(c) <= MaxHeight
  BY ChainType
<1>2. \A i \in 1 .. n : c[i] \in Marks
  BY <1>1, ElementOfSeq
<1>3. n \in Nat /\ n \in Int /\ n <= MaxHeight /\ n <= Len(c)
  BY <1>1, SyncAssumption DEF SyncAssumption
<1>4. /\ SubSeq(c, 1, n) \in Seq(Marks)
      /\ Len(SubSeq(c, 1, n)) = IF 1 <= n THEN n - 1 + 1 ELSE 0
      /\ \A i \in 1 .. n - 1 + 1 : SubSeq(c, 1, n)[i] = c[1 + i - 1]
  <2>1. 1 \in Int
    OBVIOUS
  <2>2. ASSUME NEW i \in 1 .. n PROVE c[i] \in Marks
    BY <1>2
  <2>3. n \in Int
    BY <1>3
  <2> QED BY <2>1, <2>2, <2>3, SubSeqProperties, SMTT(30)
<1>5. Len(SubSeq(c, 1, n)) = n
  BY <1>3, <1>4
<1>6. \A i \in 1 .. n : SubSeq(c, 1, n)[i] = c[i]
  <2>1. \A i \in 1 .. n : i \in 1 .. n - 1 + 1 /\ 1 + i - 1 = i
    BY <1>3
  <2>2. \A i \in 1 .. n : SubSeq(c, 1, n)[i] = c[1 + i - 1]
    BY <1>4, <2>1
  <2> QED BY <2>1, <2>2
<1>7. SubSeq(c, 1, n) \in Chains
  <2>1. n \in 0 .. MaxHeight
    BY <1>3
  <2> QED BY <1>4, <1>5, <2>1, ChainSeq
<1> QED BY <1>5, <1>6, <1>7

LEMMA ChainsEqual ==
    ASSUME NEW b \in Chains, NEW c \in Chains,
           Len(b) = Len(c), \A i \in 1 .. Len(b) : b[i] = c[i]
    PROVE  b = c
BY ChainType, SeqEqual

LEMMA PartDef ==
    ASSUME NEW b \in Chains, NEW c \in Chains
    PROVE  IsPart(b, c) <=> Len(b) <= Len(c) /\ \A i \in 1 .. Len(b) : b[i] = c[i]
<1>1. Len(b) \in Nat /\ Len(c) \in Nat
  BY ChainType
<1>2. CASE Len(b) <= Len(c)
  <2> DEFINE s == SubSeq(c, 1, Len(b))
  <2>1. Len(b) \in 0 .. Len(c)
    BY <1>1, <1>2
  <2>2. s \in Chains /\ Len(s) = Len(b) /\ \A i \in 1 .. Len(b) : s[i] = c[i]
    BY <2>1, First
  <2>3. (\A i \in 1 .. Len(b) : b[i] = c[i]) => s = b
    <3> HIDE DEF s
    <3> QED BY <2>2, ChainsEqual
  <2>4. s = b => \A i \in 1 .. Len(b) : b[i] = c[i]
    BY <2>2
  <2> QED BY <1>2, <2>3, <2>4 DEF IsPart
<1>3. CASE ~(Len(b) <= Len(c))
  BY <1>3 DEF IsPart
<1> QED BY <1>2, <1>3

LEMMA PartRefl ==
    ASSUME NEW c \in Chains
    PROVE  IsPart(c, c)
BY PartDef, ChainType

LEMMA PartTrans ==
    ASSUME NEW a \in Chains, NEW b \in Chains, NEW c \in Chains, IsPart(a, b), IsPart(b, c)
    PROVE  IsPart(a, c)
<1>1. Len(a) \in Nat /\ Len(b) \in Nat /\ Len(c) \in Nat
  BY ChainType
<1>2. Len(a) <= Len(b) /\ (\A i \in 1 .. Len(a) : a[i] = b[i])
  BY PartDef
<1>3. Len(b) <= Len(c) /\ (\A i \in 1 .. Len(b) : b[i] = c[i])
  BY PartDef
<1>4. \A i \in 1 .. Len(a) : a[i] = c[i]
  BY <1>1, <1>2, <1>3
<1>5. Len(a) <= Len(c)
  BY <1>1, <1>2, <1>3
<1> QED BY <1>4, <1>5, PartDef

\* Of two parts of one chain the shorter is part of the other.
LEMMA PartsOfOne ==
    ASSUME NEW a \in Chains, NEW b \in Chains, NEW c \in Chains,
           IsPart(a, c), IsPart(b, c), Len(a) <= Len(b)
    PROVE  IsPart(a, b)
<1>1. Len(a) \in Nat /\ Len(b) \in Nat /\ Len(c) \in Nat
  BY ChainType
<1>2. \A i \in 1 .. Len(a) : a[i] = c[i]
  BY PartDef
<1>3. \A i \in 1 .. Len(b) : b[i] = c[i]
  BY PartDef
<1>4. \A i \in 1 .. Len(a) : a[i] = b[i]
  BY <1>1, <1>2, <1>3
<1> QED BY <1>4, PartDef

LEMMA PartSame ==
    ASSUME NEW a \in Chains, NEW b \in Chains, IsPart(a, b), Len(b) <= Len(a)
    PROVE  a = b
<1>1. Len(a) \in Nat /\ Len(b) \in Nat
  BY ChainType
<1>2. Len(a) <= Len(b) /\ (\A i \in 1 .. Len(a) : a[i] = b[i])
  BY PartDef
<1>3. Len(a) = Len(b)
  BY <1>1, <1>2
<1> QED BY <1>2, <1>3, ChainsEqual

LEMMA EmptyPart ==
    ASSUME NEW c \in Chains
    PROVE  IsPart(<<>>, c)
<1>1. Len(c) \in Nat
  BY ChainType
<1> QED BY <1>1, EmptyChain, PartDef

LEMMA FirstPart ==
    ASSUME NEW c \in Chains, NEW n \in 0 .. Len(c)
    PROVE  IsPart(SubSeq(c, 1, n), c)
<1> DEFINE s == SubSeq(c, 1, n)
<1>1. s \in Chains /\ Len(s) = n /\ \A i \in 1 .. n : s[i] = c[i]
  BY First
<1>2. Len(c) \in Nat
  BY ChainType
<1> HIDE DEF s
<1>3. IsPart(s, c)
  BY <1>1, <1>2, PartDef
<1> QED BY <1>3 DEF s

LEMMA PrevChain ==
    ASSUME NEW c \in Chains
    PROVE  /\ Prev(c) \in Chains /\ IsPart(Prev(c), c)
           /\ Len(Prev(c)) = IF c = <<>> THEN 0 ELSE Len(c) - 1
<1>1. Len(c) \in Nat /\ (c = <<>> <=> Len(c) = 0)
  BY ChainType
<1>2. CASE c = <<>>
  <2>1. Prev(c) = <<>>
    BY <1>1, <1>2, SubSeqEmpty DEF Prev
  <2> QED BY <1>2, <2>1, EmptyChain, EmptyPart
<1>3. CASE c # <<>>
  <2>1. Len(c) - 1 \in 0 .. Len(c)
    BY <1>1, <1>3
  <2> QED BY <1>3, <2>1, First, FirstPart DEF Prev
<1> QED BY <1>2, <1>3

\* A chain with one block more is a chain.
LEMMA Longer ==
    ASSUME NEW c \in Chains, Len(c) < MaxHeight, NEW m \in Marks
    PROVE  /\ Append(c, m) \in Chains /\ Len(Append(c, m)) = Len(c) + 1
           /\ IsPart(c, Append(c, m))
<1>1. c \in Seq(Marks) /\ Len(c) \in Nat
  BY ChainType
<1>2. /\ Append(c, m) \in Seq(Marks) /\ Len(Append(c, m)) = Len(c) + 1
      /\ \A i \in 1 .. Len(c) : Append(c, m)[i] = c[i]
  BY <1>1, AppendProperties
<1>3. Len(c) + 1 \in 0 .. MaxHeight
  BY <1>1, SyncAssumption DEF SyncAssumption
<1>4. Append(c, m) \in Chains
  BY <1>2, <1>3, ChainSeq
<1> DEFINE a == Append(c, m)
<1>5. a \in Chains /\ Len(c) <= Len(a) /\ \A i \in 1 .. Len(c) : c[i] = a[i]
  BY <1>1, <1>2, <1>4
<1> HIDE DEF a
<1>6. IsPart(c, a)
  BY <1>5, PartDef
<1> QED BY <1>2, <1>4, <1>6 DEF a

-----------------------------------------------------------------------------
(* The chain of the network.                                                *)

LEMMA MainChain ==
    ASSUME NEW h \in Heights
    PROVE  Main(h) \in Chains /\ Len(Main(h)) = h /\ \A i \in 1 .. h : Main(h)[i] = "main"
<1>1. h \in Nat /\ h \in 0 .. MaxHeight
  BY SyncAssumption DEF SyncAssumption, Heights
<1>2. Main(h) \in [1 .. h -> Marks]
  BY DEF Main, Marks
<1>3. Main(h) \in Seq(Marks)
  BY <1>1, <1>2, SeqDef
<1>4. DOMAIN Main(h) = 1 .. h /\ DOMAIN Main(h) = 1 .. Len(Main(h)) /\ Len(Main(h)) \in Nat
  BY <1>2, <1>3, LenProperties
<1>5. Len(Main(h)) = h
  BY <1>1, <1>2, <1>3, LenProperties
<1> QED BY <1>1, <1>3, <1>5, ChainSeq DEF Main

LEMMA MainLonger ==
    ASSUME NEW h \in Heights, h + 1 \in Heights
    PROVE  Append(Main(h), "main") = Main(h + 1)
<1>1. h \in Nat /\ h < MaxHeight
  BY SyncAssumption DEF SyncAssumption, Heights
<1>2. Main(h) \in Chains /\ Len(Main(h)) = h /\ \A i \in 1 .. h : Main(h)[i] = "main"
  BY MainChain
<1>3. /\ Main(h + 1) \in Chains /\ Len(Main(h + 1)) = h + 1
      /\ \A i \in 1 .. h + 1 : Main(h + 1)[i] = "main"
  BY MainChain
<1>4. "main" \in Marks
  BY DEF Marks
<1>5. Append(Main(h), "main") \in Chains /\ Len(Append(Main(h), "main")) = h + 1
  BY <1>1, <1>2, <1>4, Longer
<1>6. Main(h) \in Seq(Marks)
  BY <1>2, ChainType
<1>7. \A i \in 1 .. h + 1 : Append(Main(h), "main")[i] = "main"
  BY <1>1, <1>2, <1>4, <1>6, AppendProperties
<1> QED BY <1>1, <1>3, <1>5, <1>7, ChainsEqual

LEMMA MainPart ==
    ASSUME NEW g \in Heights, NEW h \in Heights, g <= h
    PROVE  IsPart(Main(g), Main(h))
<1>1. g \in Nat /\ h \in Nat
  BY SyncAssumption DEF SyncAssumption, Heights
<1>2. Main(g) \in Chains /\ Len(Main(g)) = g /\ \A i \in 1 .. g : Main(g)[i] = "main"
  BY MainChain
<1>3. Main(h) \in Chains /\ Len(Main(h)) = h /\ \A i \in 1 .. h : Main(h)[i] = "main"
  BY MainChain
<1>4. \A i \in 1 .. g : i \in 1 .. h
  BY <1>1
<1> QED BY <1>2, <1>3, <1>4, PartDef

-----------------------------------------------------------------------------
(* The lowest and the highest of some heights.                              *)

\* Heights are few: a non-empty set of them has a lowest and a highest.
LEMMA SomeLowest ==
    ASSUME NEW T \in SUBSET (1 .. MaxHeight), T # {}
    PROVE  \E x \in T : \A y \in T : x <= y
<1> DEFINE Down(x) == {y \in T : y <= x}
           F == {Down(x) : x \in T}
<1>0. T \subseteq Nat
  BY SyncAssumption DEF SyncAssumption
<1>f. IsFiniteSet(T)
  <2>1. MaxHeight \in Int /\ 1 \in Int
    BY SyncAssumption DEF SyncAssumption
  <2> QED BY <2>1, FS_Interval, FS_Subset
<1>1. F # {} /\ F \subseteq FiniteSubsetsOf(T)
  <2>1. ASSUME NEW x \in T PROVE Down(x) \in FiniteSubsetsOf(T)
    <3>1. Down(x) \in SUBSET T
      OBVIOUS
    <3> HIDE DEF Down
    <3> QED BY <3>1, <1>f, FS_Subset DEF FiniteSubsetsOf
  <2> QED BY <2>1
<1>2. IsWellFoundedOn(StrictSubsetOrdering(T), FiniteSubsetsOf(T))
  BY FS_StrictSubsetOrderingWellFounded
<1>3. PICK m \in F : \A u \in F : <<u, m>> \notin StrictSubsetOrdering(T)
  <2> HIDE DEF F
  <2> QED BY <1>1, <1>2, WFMin
<1>4. PICK x \in T : m = Down(x)
  OBVIOUS
<1>5. ASSUME NEW y \in T, ~(x <= y) PROVE FALSE
  <2>1. y < x /\ x \in Nat /\ y \in Nat
    BY <1>0, <1>5
  <2>2. x \in Down(x) /\ x \notin Down(y)
    BY <2>1
  <2>3. ASSUME NEW z \in Down(y) PROVE z \in Down(x)
    <3>1. z \in T /\ z \in Nat /\ z <= y
      BY <1>0
    <3> QED BY <2>1, <3>1
  <2>4. Down(x) \subseteq T /\ Down(y) \subseteq T
    OBVIOUS
  <2>5. <<Down(y), Down(x)>> \in StrictSubsetOrdering(T)
    <3> HIDE DEF Down
    <3> QED BY <2>2, <2>3, <2>4 DEF StrictSubsetOrdering
  <2>6. Down(y) \in F
    OBVIOUS
  <2> QED
    <3> HIDE DEF Down, F
    <3> QED BY <2>5, <2>6, <1>3, <1>4
<1> QED BY <1>5

LEMMA SomeHighest ==
    ASSUME NEW T \in SUBSET (1 .. MaxHeight), T # {}
    PROVE  \E x \in T : \A y \in T : y <= x
<1> DEFINE M == MaxHeight
           R == {M + 1 - y : y \in T}
<1>1. M \in Nat
  BY SyncAssumption DEF SyncAssumption
<1> HIDE DEF M
<1>t. T \subseteq 1 .. M
  BY DEF M
<1>2. R \in SUBSET (1 .. M) /\ R # {}
  <2>1. ASSUME NEW y \in T PROVE M + 1 - y \in 1 .. M
    BY <1>1, <1>t
  <2> QED BY <2>1
<1>3. PICK r \in R : \A y \in R : r <= y
  <2> HIDE DEF R
  <2> QED BY <1>2, SomeLowest DEF M
<1>4. PICK x \in T : r = M + 1 - x
  OBVIOUS
<1>5. ASSUME NEW y \in T PROVE y <= x
  <2>1. r <= M + 1 - y
    <3>1. PICK z \in R : z = M + 1 - y
      OBVIOUS
    <3> HIDE DEF R
    <3>2. r <= z
      BY <1>3
    <3> QED BY <3>1, <3>2
  <2>2. x \in Int /\ y \in Int
    BY <1>1, <1>t
  <2> QED BY <1>1, <1>4, <2>1, <2>2
<1> QED BY <1>5

LEMMA Lowest ==
    ASSUME NEW T \in SUBSET (1 .. MaxHeight), T # {}
    PROVE  LowestOf(T) \in T /\ \A g \in T : LowestOf(T) <= g
BY SomeLowest DEF LowestOf

LEMMA Highest ==
    ASSUME NEW T \in SUBSET (1 .. MaxHeight), T # {}
    PROVE  HighestOf(T) \in T /\ \A g \in T : g <= HighestOf(T)
BY SomeHighest DEF HighestOf

-----------------------------------------------------------------------------
(* Quorums of nodes.                                                        *)

LEMMA LargerQuorum ==
    ASSUME NEW S \in SUBSET Nodes, NEW T \in SUBSET Nodes, S \subseteq T, IsQuorum(S)
    PROVE  IsQuorum(T)
<1>1. IsFiniteSet(Nodes)
  BY SyncAssumption DEF SyncAssumption
<1>2. IsFiniteSet(S) /\ IsFiniteSet(T)
  BY <1>1, FS_Subset
<1>3. Cardinality(S) <= Cardinality(T)
  BY <1>2, FS_Subset
<1>4. Cardinality(S) \in Nat /\ Cardinality(T) \in Nat /\ Cardinality(Nodes) \in Nat
  BY <1>1, <1>2, FS_CardinalityType
<1> QED BY <1>3, <1>4 DEF IsQuorum

LEMMA QuorumsMeet ==
    ASSUME NEW S \in SUBSET Nodes, NEW T \in SUBSET Nodes, IsQuorum(S), IsQuorum(T)
    PROVE  \E n \in Nodes : n \in S /\ n \in T
<1>1. IsFiniteSet(Nodes)
  BY SyncAssumption DEF SyncAssumption
<1>2. IsFiniteSet(S) /\ IsFiniteSet(T)
  BY <1>1, FS_Subset
<1>3. Cardinality(S) \in Nat /\ Cardinality(T) \in Nat /\ Cardinality(Nodes) \in Nat
  BY <1>1, <1>2, FS_CardinalityType
<1>4. Cardinality(S) + Cardinality(T) > Cardinality(Nodes)
  BY <1>3 DEF IsQuorum
<1>5. S \cap T # {}
  BY <1>1, <1>4, FS_MajoritiesIntersect
<1> QED BY <1>5

-----------------------------------------------------------------------------
(* Types, variable by variable.                                             *)

NetOK == /\ net \in Heights /\ rest \in 1 .. MaxHeight /\ net <= rest
         /\ delivered \subseteq 1 .. net
DiskOK == disk \in [Nodes -> Chains]
TipOK == tip \in Chains
CacheOK == /\ DOMAIN cache \subseteq 1 .. MaxHeight /\ cache \in [DOMAIN cache -> CacheRecords]
           /\ \A h \in DOMAIN cache : Len(cache[h].block) = h
InboxOK == inbox \in Seq(FullMessages) /\ Len(inbox) <= MaxMail
MailOK == mail \in Seq(Orders) /\ Len(mail) <= MaxMail
StoragerOK == storager \in StoragerRecords
RequesterOK == requester \in RequesterRecords
FlagsOK == /\ timer \subseteq BOOLEAN /\ joined \in BOOLEAN /\ split \in BOOLEAN
           /\ faults \in 0 .. MaxFaults

Types == /\ NetOK /\ DiskOK /\ TipOK /\ CacheOK /\ InboxOK /\ MailOK
         /\ StoragerOK /\ RequesterOK /\ FlagsOK

LEMMA Bounds == MaxHeight \in Nat /\ MaxMail \in Nat /\ MaxMail >= 1 /\ MaxFaults \in Nat
                /\ Me \in Nodes
BY SyncAssumption DEF SyncAssumption

LEMMA StoragerTypes ==
    ASSUME StoragerOK
    PROVE  /\ storager.pc \in {"idle", "loop", "saved"}
           /\ storager.pc = "idle" => storager = IdleStorager
           /\ storager.pc = "loop" =>
                 storager \in [pc : {"loop"}, loop : 1 .. MaxHeight + 1, max : 1 .. MaxHeight,
                               local : Heights]
           /\ storager.pc = "saved" =>
                 storager \in [pc : {"saved"}, loop : 1 .. MaxHeight, max : 1 .. MaxHeight,
                               block : Chains]
BY DEF StoragerOK, StoragerRecords, IdleStorager

LEMMA AskingTypes ==
    ASSUME RequesterOK
    PROVE  /\ requester.pc \in {"idle", "asking", "acting", "fetching"}
           /\ requester.pc = "idle" => requester = IdleRequester
           /\ requester.pc = "asking" => requester \in AskingRecords
           /\ requester.pc = "acting" => requester \in ActingRecords
           /\ requester.pc = "fetching" => requester \in FetchingRecords
<1>1. \A r \in AskingRecords : r.pc = "asking"
  BY DEF AskingRecords
<1>2. \A r \in ActingRecords : r.pc = "acting"
  BY DEF ActingRecords
<1>3. \A r \in FetchingRecords : r.pc = "fetching"
  BY DEF FetchingRecords
<1>4. IdleRequester.pc = "idle"
  BY DEF IdleRequester
<1>5. \/ requester = IdleRequester \/ requester \in AskingRecords
      \/ requester \in ActingRecords \/ requester \in FetchingRecords
  BY DEF RequesterOK, RequesterRecords
<1>6. CASE requester = IdleRequester
  BY <1>4, <1>6
<1>7. CASE requester \in AskingRecords
  BY <1>1, <1>7
<1>8. CASE requester \in ActingRecords
  BY <1>2, <1>8
<1>9. CASE requester \in FetchingRecords
  BY <1>3, <1>9
<1> QED BY <1>5, <1>6, <1>7, <1>8, <1>9

LEMMA FullAreMessages == FullMessages \subseteq Messages
BY DEF FullMessages, Messages

LEMMA TypesEnough == TypeInv <=> Types
<1>1. TypeInv => Types
  <2> SUFFICES ASSUME TypeInv PROVE Types
    OBVIOUS
  <2>1. NetOK
    BY Bounds DEF TypeInv, TypeOK, NetOK, Heights
  <2>2. DiskOK /\ TipOK /\ CacheOK
    BY DEF TypeInv, TypeOK, DiskOK, TipOK, CacheOK
  <2>3. InboxOK /\ MailOK
    BY DEF TypeInv, TypeOK, InboxOK, MailOK
  <2>4. StoragerOK /\ RequesterOK /\ FlagsOK
    BY DEF TypeInv, TypeOK, StoragerOK, RequesterOK, FlagsOK
  <2> QED BY <2>1, <2>2, <2>3, <2>4 DEF Types
<1>2. Types => TypeInv
  <2> SUFFICES ASSUME Types PROVE TypeInv
    OBVIOUS
  <2> USE DEF Types
  <2>1. net \in 0 .. rest /\ rest \in 1 .. MaxHeight /\ delivered \subseteq 1 .. net
    BY Bounds DEF NetOK, Heights
  <2>2. disk \in [Nodes -> Chains] /\ tip \in Chains
    BY DEF DiskOK, TipOK
  <2>3. \A h \in DOMAIN cache : /\ cache[h] \in [block : Chains, from : Nodes]
                               /\ Len(cache[h].block) = h
    BY DEF CacheOK, CacheRecords
  <2>4. inbox \in Seq(Messages)
    BY FullAreMessages, SeqMonotonic DEF InboxOK
  <2>5. requester.pc = "fetching" => requester.next \in 1 .. MaxHeight
    BY AskingTypes DEF FetchingRecords
  <2>6. /\ storager.pc \in {"idle", "loop", "saved"}
        /\ requester.pc \in {"idle", "asking", "acting", "fetching"}
    BY StoragerTypes, AskingTypes
  <2>7. mail \in Seq(Orders) /\ Len(inbox) <= MaxMail /\ Len(mail) <= MaxMail
    BY DEF InboxOK, MailOK
  <2>8. timer \subseteq BOOLEAN /\ joined \in BOOLEAN /\ split \in BOOLEAN
        /\ faults \in 0 .. MaxFaults
    BY DEF FlagsOK
  <2>9. TypeOK
    <3> HIDE DEF Types
    <3> QED BY <2>1, <2>2, <2>3, <2>4, <2>5, <2>6, <2>7, <2>8, Zenon DEF TypeOK
  <2>10. DOMAIN cache \subseteq 1 .. MaxHeight /\ cache \in [DOMAIN cache -> CacheRecords]
         /\ inbox \in Seq(FullMessages)
         /\ storager \in StoragerRecords /\ requester \in RequesterRecords
    BY DEF CacheOK, InboxOK, StoragerOK, RequesterOK
  <2> QED BY <2>9, <2>10 DEF TypeInv
<1> QED BY <1>1, <1>2

\* Mailboxes.
LEMMA Posted ==
    ASSUME NEW S, NEW box \in Seq(S), Len(box) < MaxMail, NEW m \in S
    PROVE  Append(box, m) \in Seq(S) /\ Len(Append(box, m)) <= MaxMail
<1>1. Len(box) \in Nat /\ Append(box, m) \in Seq(S) /\ Len(Append(box, m)) = Len(box) + 1
  BY AppendProperties, LenProperties
<1> QED BY <1>1, Bounds

LEMMA SentFits ==
    ASSUME NEW S, NEW box \in Seq(S), Len(box) <= MaxMail, NEW m \in S
    PROVE  Sent(box, m) \in Seq(S) /\ Len(Sent(box, m)) <= MaxMail
BY Posted DEF Sent

LEMMA Taken ==
    ASSUME NEW S, NEW box \in Seq(S), Len(box) <= MaxMail, box # <<>>
    PROVE  /\ Head(box) \in S /\ Tail(box) \in Seq(S) /\ Len(Tail(box)) <= MaxMail
<1>1. Len(box) \in Nat
  BY LenProperties
<1>2. Head(box) \in S /\ Tail(box) \in Seq(S) /\ Len(Tail(box)) = Len(box) - 1
  BY HeadTailProperties
<1> QED BY <1>1, <1>2, Bounds

LEMMA EmptyBox ==
    ASSUME NEW S
    PROVE  <<>> \in Seq(S) /\ Len(<<>>) = 0
BY EmptySeq

\* What is cached, and what is left when an entry is taken out.
LEMMA CachedFits ==
    ASSUME CacheOK, NEW b \in Chains, b # <<>>, NEW p \in Nodes,
           NEW c, c = Cached(b, p)
    PROVE  /\ DOMAIN c = DOMAIN cache \cup {Len(b)} /\ Len(b) \in 1 .. MaxHeight
           /\ DOMAIN c \subseteq 1 .. MaxHeight /\ c \in [DOMAIN c -> CacheRecords]
           /\ \A h \in DOMAIN c : Len(c[h].block) = h
           /\ c[Len(b)] = [block |-> b, from |-> p]
           /\ \A h \in DOMAIN cache \ {Len(b)} : c[h] = cache[h]
<1>1. Len(b) \in 1 .. MaxHeight
  BY ChainType, Bounds
<1>2. DOMAIN c = DOMAIN cache \cup {Len(b)}
      /\ c[Len(b)] = [block |-> b, from |-> p]
      /\ \A h \in DOMAIN cache \ {Len(b)} : c[h] = cache[h]
  BY DEF Cached
<1>3. [block |-> b, from |-> p] \in CacheRecords
  BY DEF CacheRecords
<1>4. ASSUME NEW h \in DOMAIN c PROVE c[h] \in CacheRecords /\ Len(c[h].block) = h
  <2>1. CASE h = Len(b)
    BY <1>2, <1>3, <2>1
  <2>2. CASE h # Len(b)
    BY <1>2, <2>2 DEF CacheOK
  <2> QED BY <2>1, <2>2
<1>5. c \in [DOMAIN c -> CacheRecords]
  <2>1. c = [h \in DOMAIN c |-> c[h]]
    BY DEF Cached
  <2> QED BY <1>4, <2>1
<1> QED BY <1>1, <1>2, <1>4, <1>5 DEF CacheOK

LEMMA UncachedFits ==
    ASSUME CacheOK, NEW h, NEW c, c = Uncached(h)
    PROVE  /\ DOMAIN c = DOMAIN cache \ {h}
           /\ DOMAIN c \subseteq 1 .. MaxHeight /\ c \in [DOMAIN c -> CacheRecords]
           /\ \A g \in DOMAIN c : Len(c[g].block) = g /\ c[g] = cache[g]
<1>1. DOMAIN c = DOMAIN cache \ {h} /\ \A g \in DOMAIN c : c[g] = cache[g]
  BY DEF Uncached
<1>2. c = [g \in DOMAIN c |-> c[g]]
  BY DEF Uncached
<1> QED BY <1>1, <1>2 DEF CacheOK

-----------------------------------------------------------------------------
(* Every step keeps the types.                                              *)

LEMMA Kept ==
    ASSUME Types
    PROVE  /\ UNCHANGED <<net, rest, delivered>> => NetOK'
           /\ disk' = disk => DiskOK'
           /\ tip' = tip => TipOK'
           /\ cache' = cache => CacheOK'
           /\ inbox' = inbox => InboxOK'
           /\ mail' = mail => MailOK'
           /\ storager' = storager => StoragerOK'
           /\ requester' = requester => RequesterOK'
           /\ UNCHANGED <<timer, joined, split, faults>> => FlagsOK'
<1>1. UNCHANGED <<net, rest, delivered>> => NetOK'
  BY DEF Types, NetOK
<1>2. disk' = disk => DiskOK'
  BY DEF Types, DiskOK
<1>3. tip' = tip => TipOK'
  BY DEF Types, TipOK
<1>4. cache' = cache => CacheOK'
  BY DEF Types, CacheOK
<1>5. inbox' = inbox => InboxOK'
  BY DEF Types, InboxOK
<1>6. mail' = mail => MailOK'
  BY DEF Types, MailOK
<1>7. storager' = storager => StoragerOK'
  BY DEF Types, StoragerOK
<1>8. requester' = requester => RequesterOK'
  BY DEF Types, RequesterOK
<1>9. UNCHANGED <<timer, joined, split, faults>> => FlagsOK'
  BY DEF Types, FlagsOK
<1> QED BY <1>1, <1>2, <1>3, <1>4, <1>5, <1>6, <1>7, <1>8, <1>9

LEMMA SeedNode == MaxHeight >= 1 => Seed \in Nodes /\ Seed # Me
<1>1. MaxHeight >= 1 => 1 \in 1 .. MaxHeight
  BY Bounds
<1> QED BY <1>1, SyncAssumption DEF SyncAssumption, Seed

LEMMA IdleTypes == IdleStorager \in StoragerRecords /\ IdleRequester \in RequesterRecords
BY Zenon DEF StoragerRecords, RequesterRecords

LEMMA InitTypes ==
    ASSUME Init
    PROVE  Types
<1>1. PICK s \in Starts : /\ net = s.net /\ rest = s.rest
                          /\ disk = [n \in Nodes |-> IF n = Me THEN s.disk ELSE Main(s.net)]
                          /\ delivered = 1 .. s.net
  BY DEF Init
<1>2. s.net \in 0 .. MaxHeight /\ s.rest \in 1 .. MaxHeight /\ s.disk \in Chains
      /\ s.net <= s.rest
  BY SyncAssumption DEF SyncAssumption
<1>3. NetOK
  BY <1>1, <1>2 DEF NetOK, Heights
<1>4. DiskOK
  <2>1. Main(s.net) \in Chains
    BY <1>2, MainChain DEF Heights
  <2> QED BY <1>1, <1>2, <2>1 DEF DiskOK
<1>5. TipOK /\ InboxOK /\ MailOK
  BY EmptyChain, EmptyBox, Bounds DEF Init, TipOK, InboxOK, MailOK
<1>6. CacheOK
  <2>1. DOMAIN cache = {} /\ cache = [h \in DOMAIN cache |-> 0]
    BY DEF Init, NoBlocks
  <2> QED BY <2>1 DEF CacheOK
<1>7. StoragerOK /\ RequesterOK
  BY IdleTypes, Zenon DEF Init, StoragerOK, RequesterOK
<1>8. FlagsOK
  <2>1. timer \subseteq BOOLEAN /\ joined \in BOOLEAN /\ split \in BOOLEAN
    BY Zenon DEF Init, NoTimer
  <2>2. faults \in 0 .. MaxFaults
    BY Bounds DEF Init
  <2> QED BY <2>1, <2>2 DEF FlagsOK
<1> QED BY <1>3, <1>4, <1>5, <1>6, <1>7, <1>8 DEF Types

LEMMA PeersTypes ==
    ASSUME Types, Peers
    PROVE  Types'
<1> USE DEF network, mine
<1>1. CASE NewBlock
  <2>1. NetOK'
    BY <1>1, Bounds DEF Types, NetOK, NewBlock, Heights
  <2>2. DiskOK'
    <3>1. MaxHeight >= 1
      BY <1>1, Bounds DEF Types, NetOK
    <3>2. 1 \in Heights
      BY <3>1, Bounds DEF Heights
    <3>3. Main(1) \in Chains
      BY <3>2, MainChain
    <3>4. \A n \in Nodes : [disk EXCEPT ![Seed] = Main(1)][n] \in Chains
      BY <3>1, <3>3, SeedNode DEF Types, DiskOK
    <3> QED BY <1>1, <3>3, <3>4 DEF Types, DiskOK, NewBlock
  <2> QED BY <1>1, <2>1, <2>2, Kept DEF Types, NewBlock
<1>2. CASE \E p \in Nodes : PeerStores(p)
  <2>1. PICK p \in Nodes : PeerStores(p)
    BY <1>2
  <2>2. disk[p] \in Chains /\ Len(disk[p]) < net
    BY <2>1 DEF Types, DiskOK, PeerStores
  <2>3. Len(disk[p]) < MaxHeight /\ "main" \in Marks
    BY <2>2, ChainType, Bounds DEF Types, NetOK, Heights, Marks
  <2>4. Append(disk[p], "main") \in Chains
    BY <2>2, <2>3, Longer
  <2>5. DiskOK'
    BY <2>1, <2>4 DEF Types, DiskOK, PeerStores
  <2> QED BY <2>1, <2>5, Kept DEF Types, PeerStores
<1> QED BY <1>1, <1>2 DEF Peers

LEMMA ConfirmTypes ==
    ASSUME Types, NEW h \in 1 .. MaxHeight, Confirm(h)
    PROVE  Types'
<1>1. h \in Heights /\ h # 0 /\ Maker(h) \in Nodes
  BY Bounds, SyncAssumption DEF Heights, SyncAssumption
<1>2. Main(h) \in Chains /\ Len(Main(h)) = h
  BY <1>1, MainChain
<1>3. Main(h) # <<>>
  BY <1>1, <1>2, EmptyChain
<1>4. cache' = Cached(Main(h), Maker(h))
  BY DEF Confirm
<1>5. CacheOK'
  <2>1. CacheOK
    BY DEF Types
  <2>2. PICK c : c = Cached(Main(h), Maker(h))
    OBVIOUS
  <2>3. /\ DOMAIN c \subseteq 1 .. MaxHeight /\ c \in [DOMAIN c -> CacheRecords]
        /\ \A g \in DOMAIN c : Len(c[g].block) = g
    BY <1>1, <1>2, <1>3, <2>1, <2>2, CachedFits
  <2> QED BY <1>4, <2>2, <2>3 DEF CacheOK
<1>6. InboxOK'
  <2>1. Batch \in FullMessages
    BY DEF Batch, FullMessages
  <2> QED BY <2>1, Posted DEF Types, InboxOK, Confirm
<1>7. NetOK'
  BY DEF Types, NetOK, Confirm
<1> QED BY <1>5, <1>6, <1>7, Kept DEF Types, Confirm

\* The steps that only put a message into the mailbox of the requester.
LEMMA AskersTypes ==
    ASSUME Types, Join \/ AskedTooHigh \/ TimerFires
    PROVE  Types'
<1>s. \A b \in BOOLEAN : StartSync(b) \in Orders
  BY DEF StartSync, Orders
<1>1. CASE Join
  <2>1. MailOK'
    BY <1>1, <1>s, Posted DEF Types, MailOK, Join
  <2>2. FlagsOK'
    BY <1>1 DEF Types, FlagsOK, Join
  <2> QED BY <1>1, <2>1, <2>2, Kept DEF Types, Join, network
<1>2. CASE AskedTooHigh
  <2>1. MailOK'
    BY <1>2, <1>s, Posted DEF Types, MailOK, AskedTooHigh
  <2> QED BY <1>2, <2>1, Kept DEF Types, AskedTooHigh, network
<1>3. CASE TimerFires
  <2>1. PICK b \in timer : mail' = Append(mail, StartSync(b))
    BY <1>3 DEF TimerFires
  <2>2. StartSync(b) \in Orders
    BY <1>s DEF Types, FlagsOK
  <2>3. MailOK'
    BY <1>3, <2>1, <2>2, Posted DEF Types, MailOK, TimerFires
  <2>4. FlagsOK'
    BY <1>3 DEF Types, FlagsOK, TimerFires, NoTimer
  <2> QED BY <1>3, <2>3, <2>4, Kept DEF Types, TimerFires, network
<1> QED BY <1>1, <1>2, <1>3

LEMMA RestartTypes ==
    ASSUME Types, Restart
    PROVE  Types'
<1>1. TipOK' /\ InboxOK' /\ MailOK'
  BY EmptyChain, EmptyBox, Bounds DEF Restart, TipOK, InboxOK, MailOK
<1>2. CacheOK'
  <2>1. DOMAIN cache' = {} /\ cache' = [h \in DOMAIN cache' |-> 0]
    BY DEF Restart, NoBlocks
  <2> QED BY <2>1 DEF CacheOK
<1>3. StoragerOK' /\ RequesterOK'
  BY IdleTypes, Zenon DEF Restart, StoragerOK, RequesterOK
<1>4. FlagsOK'
  <2>1. timer' \subseteq BOOLEAN /\ joined' \in BOOLEAN /\ split' \in BOOLEAN
    BY Zenon DEF Restart, NoTimer
  <2>2. faults' \in 0 .. MaxFaults
    BY Bounds DEF Restart, Types, FlagsOK
  <2> QED BY <2>1, <2>2 DEF FlagsOK
<1> QED BY <1>1, <1>2, <1>3, <1>4, Kept DEF Types, Restart, network

-----------------------------------------------------------------------------
(* The storager keeps the types.                                            *)

LEMMA EmptyCache ==
    ASSUME NEW c, NEW S, c \in [DOMAIN c -> S]
    PROVE  c = NoBlocks <=> DOMAIN c = {}
<1>1. DOMAIN c = {} => c = NoBlocks
  BY DEF NoBlocks
<1>2. c = NoBlocks => DOMAIN c = {}
  BY DEF NoBlocks
<1> QED BY <1>1, <1>2

\* Where a handler begins.
LEMMA BeginFacts ==
    ASSUME Types, BeginHandler
    PROVE  /\ Head(inbox) \in FullMessages /\ InboxOK' /\ CacheOK' /\ TipOK'
           /\ DOMAIN cache' = {} => storager' = IdleStorager
           /\ DOMAIN cache' # {} =>
                 storager' = [pc |-> "loop", loop |-> LowestOf(DOMAIN cache'),
                              max |-> HighestOf(DOMAIN cache'), local |-> Len(tip')]
           /\ StoragerOK'
<1>1. inbox \in Seq(FullMessages) /\ Len(inbox) <= MaxMail /\ inbox # <<>>
  BY DEF Types, InboxOK, BeginHandler
<1>2. Head(inbox) \in FullMessages /\ InboxOK'
  BY <1>1, Taken DEF BeginHandler, InboxOK
<1>3. cache' = IF Head(inbox).type = "restore"
               THEN Cached(Head(inbox).block, Head(inbox).from) ELSE cache
  BY DEF BeginHandler
<1>4. CacheOK'
  <2>1. CASE Head(inbox).type = "restore"
    <3>1. PICK b, p : b = Head(inbox).block /\ p = Head(inbox).from
      OBVIOUS
    <3>2. b \in Chains /\ b # <<>> /\ p \in Nodes
      BY <1>2, <2>1, <3>1 DEF FullMessages
    <3>3. PICK c : c = Cached(b, p)
      OBVIOUS
    <3>4. /\ DOMAIN c \subseteq 1 .. MaxHeight /\ c \in [DOMAIN c -> CacheRecords]
          /\ \A h \in DOMAIN c : Len(c[h].block) = h
      BY <3>2, <3>3, CachedFits DEF Types
    <3> QED BY <1>3, <2>1, <3>1, <3>3, <3>4 DEF CacheOK
  <2>2. CASE Head(inbox).type # "restore"
    BY <1>3, <2>2 DEF Types, CacheOK
  <2> QED BY <2>1, <2>2
<1>5. TipOK'
  BY Bounds DEF BeginHandler, Types, TipOK, DiskOK
<1>6. cache' = NoBlocks <=> DOMAIN cache' = {}
  BY <1>4, EmptyCache DEF CacheOK
<1>7. /\ DOMAIN cache' = {} => storager' = IdleStorager
      /\ DOMAIN cache' # {} =>
            storager' = [pc |-> "loop", loop |-> LowestOf(DOMAIN cache'),
                         max |-> HighestOf(DOMAIN cache'), local |-> Len(tip')]
  BY <1>6, Zenon DEF BeginHandler
<1>8. StoragerOK'
  <2>1. CASE DOMAIN cache' = {}
    BY <1>7, <2>1, IdleTypes DEF StoragerOK
  <2>2. CASE DOMAIN cache' # {}
    <3>1. PICK D : D = DOMAIN cache'
      OBVIOUS
    <3>2. D \in SUBSET (1 .. MaxHeight) /\ D # {}
      BY <1>4, <2>2, <3>1 DEF CacheOK
    <3>3. PICK l, m : l = LowestOf(D) /\ m = HighestOf(D)
      OBVIOUS
    <3>l. l \in D /\ m \in D
      BY <3>2, <3>3, Lowest, Highest
    <3>4. l \in 1 .. MaxHeight + 1 /\ m \in 1 .. MaxHeight
      BY <3>2, <3>l, Bounds
    <3>5. PICK n : n = Len(tip')
      OBVIOUS
    <3>6. n \in Heights
      BY <1>5, <3>5, ChainType DEF TipOK, Heights
    <3>7. storager' = [pc |-> "loop", loop |-> l, max |-> m, local |-> n]
      BY <1>7, <2>2, <3>1, <3>3, <3>5, Zenon
    <3>8. [pc |-> "loop", loop |-> l, max |-> m, local |-> n] \in StoragerRecords
      BY <3>4, <3>6 DEF StoragerRecords
    <3> QED BY <3>7, <3>8 DEF StoragerOK
  <2> QED BY <2>1, <2>2
<1> QED BY <1>2, <1>4, <1>5, <1>7, <1>8

LEMMA BeginTypes ==
    ASSUME Types, BeginHandler
    PROVE  Types'
BY BeginFacts, Kept DEF BeginHandler, Types, network

\* The entry the storager looks at in its loop.
LEMMA EntryTypes ==
    ASSUME Types, storager.pc = "loop", storager.loop \in DOMAIN cache
    PROVE  /\ storager.loop \in 1 .. MaxHeight /\ storager.max \in 1 .. MaxHeight
           /\ storager.local \in Heights
           /\ Entry \in CacheRecords /\ Entry.block \in Chains /\ Entry.from \in Nodes
           /\ Len(Entry.block) = storager.loop
<1>1. storager.loop \in 1 .. MaxHeight
  BY DEF Types, CacheOK
<1>2. storager.max \in 1 .. MaxHeight /\ storager.local \in Heights
  BY StoragerTypes DEF Types
<1>3. Entry \in CacheRecords /\ Len(Entry.block) = storager.loop
  BY DEF Types, CacheOK, Entry
<1> QED BY <1>1, <1>2, <1>3 DEF CacheRecords

\* On to the next height.
LEMMA NextHeightTypes ==
    ASSUME NEW l \in Heights, storager.loop \in 1 .. MaxHeight, storager.max \in 1 .. MaxHeight
    PROVE  NextHeight(l) \in StoragerRecords
<1>1. PICK k : k = storager.loop + 1
  OBVIOUS
<1>2. k \in 1 .. MaxHeight + 1
  BY <1>1, Bounds
<1>3. PICK m \in 1 .. MaxHeight : m = storager.max
  OBVIOUS
<1>4. [pc |-> "loop", loop |-> k, max |-> m, local |-> l] \in StoragerRecords
  BY <1>2 DEF StoragerRecords
<1> QED BY <1>1, <1>3, <1>4 DEF NextHeight

LEMMA UncachedTypes ==
    ASSUME Types, cache' = Uncached(storager.loop)
    PROVE  CacheOK'
<1>1. PICK c : c = Uncached(storager.loop)
  OBVIOUS
<1>2. /\ DOMAIN c \subseteq 1 .. MaxHeight /\ c \in [DOMAIN c -> CacheRecords]
      /\ \A g \in DOMAIN c : Len(c[g].block) = g
  BY <1>1, UncachedFits DEF Types
<1> QED BY <1>1, <1>2 DEF CacheOK

LEMMA GapTypes ==
    ASSUME Types, EndHandler \/ MeetGap
    PROVE  Types'
<1>1. StoragerOK'
  BY IdleTypes, Zenon DEF EndHandler, MeetGap, StoragerOK
<1>2. CASE EndHandler
  BY <1>1, <1>2, Kept DEF EndHandler, Types, network
<1>3. CASE MeetGap
  <2>1. Entry.from \in Nodes
    BY <1>3, EntryTypes DEF MeetGap, InLoop
  <2>2. HighestOf(DOMAIN cache) \in 1 .. MaxHeight
    <3>1. DOMAIN cache \in SUBSET (1 .. MaxHeight) /\ DOMAIN cache # {}
      BY <1>3 DEF MeetGap, Types, CacheOK
    <3> QED BY <3>1, Highest
  <2>3. SyncRequest(Entry.from, HighestOf(DOMAIN cache)) \in Orders
    BY <2>1, <2>2 DEF SyncRequest, Orders
  <2>4. MailOK'
    BY <1>3, <2>3, SentFits DEF MeetGap, Types, MailOK
  <2> QED BY <1>1, <1>3, <2>4, Kept DEF MeetGap, Types, network
<1> QED BY <1>2, <1>3

LEMMA SaveTypes ==
    ASSUME Types, SaveBlock
    PROVE  Types'
<1>1. /\ storager.loop \in 1 .. MaxHeight /\ storager.max \in 1 .. MaxHeight
      /\ Entry.block \in Chains
  BY EntryTypes DEF SaveBlock, Due, InLoop
<1>2. DiskOK'
  BY <1>1 DEF SaveBlock, Types, DiskOK
<1>3. StoragerOK'
  <2>1. PICK l, m, b : l = storager.loop /\ m = storager.max /\ b = Entry.block
    OBVIOUS
  <2>2. storager' = [pc |-> "saved", loop |-> l, max |-> m, block |-> b]
    BY <2>1 DEF SaveBlock
  <2>3. [pc |-> "saved", loop |-> l, max |-> m, block |-> b] \in StoragerRecords
    BY <1>1, <2>1 DEF StoragerRecords
  <2> QED BY <2>2, <2>3 DEF StoragerOK
<1> QED BY <1>2, <1>3, Kept DEF SaveBlock, Types, network

LEMMA RenewTypes ==
    ASSUME Types, RenewStatus
    PROVE  Types'
<1>1. /\ storager.loop \in 1 .. MaxHeight /\ storager.max \in 1 .. MaxHeight
      /\ storager.block \in Chains
  BY StoragerTypes DEF RenewStatus, Types
<1>2. TipOK'
  BY <1>1 DEF RenewStatus, TipOK
<1>3. CacheOK'
  BY UncachedTypes DEF RenewStatus
<1>4. StoragerOK'
  <2>1. storager.loop \in Heights
    BY <1>1, Bounds DEF Heights
  <2>2. NextHeight(storager.loop) \in StoragerRecords
    BY <1>1, <2>1, NextHeightTypes
  <2> QED BY <2>2 DEF RenewStatus, StoragerOK
<1> QED BY <1>2, <1>3, <1>4, Kept DEF RenewStatus, Types, network

LEMMA DropTypes ==
    ASSUME Types, DropBlock \/ PassBlock
    PROVE  Types'
<1>1. /\ storager.loop \in 1 .. MaxHeight /\ storager.max \in 1 .. MaxHeight
      /\ storager.local \in Heights
  BY EntryTypes DEF DropBlock, PassBlock, Due, InLoop
<1>2. StoragerOK'
  <2>1. NextHeight(storager.local) \in StoragerRecords
    BY <1>1, NextHeightTypes
  <2> QED BY <2>1 DEF DropBlock, PassBlock, StoragerOK
<1>3. CASE DropBlock
  <2>1. CacheOK'
    BY <1>3, UncachedTypes DEF DropBlock
  <2>2. StartSync(FALSE) \in Orders
    BY DEF StartSync, Orders
  <2>3. MailOK'
    BY <1>3, <2>2, SentFits DEF DropBlock, Types, MailOK
  <2> QED BY <1>2, <1>3, <2>1, <2>3, Kept DEF DropBlock, Types, network
<1>4. CASE PassBlock
  BY <1>2, <1>4, Kept DEF PassBlock, Types, network
<1> QED BY <1>3, <1>4

LEMMA StoragerStepTypes ==
    ASSUME Types, Storager
    PROVE  Types'
BY BeginTypes, GapTypes, SaveTypes, RenewTypes, DropTypes DEF Storager

-----------------------------------------------------------------------------
(* What the analysis decides.                                               *)

LEMMA AnswerTypes ==
    ASSUME Types, requester.pc = "asking"
    PROVE  /\ requester.startup \in BOOLEAN /\ requester.height \in Heights
           /\ requester.wait \in SUBSET Nodes /\ DOMAIN Answers \in SUBSET Nodes
           /\ Answers \in [DOMAIN Answers -> Chains]
           /\ requester = [pc |-> "asking", startup |-> requester.startup,
                           height |-> requester.height, wait |-> requester.wait,
                           answers |-> requester.answers]
<1>1. requester \in AskingRecords
  BY AskingTypes DEF Types
<1>2. PICK S \in SUBSET Nodes :
         requester \in [pc : {"asking"}, startup : BOOLEAN, height : Heights,
                        wait : SUBSET Nodes, answers : [S -> Chains]]
  BY <1>1 DEF AskingRecords
<1>3. Answers \in [S -> Chains]
  BY <1>2 DEF Answers
<1>4. DOMAIN Answers = S
  BY <1>3
<1>5. requester.startup \in BOOLEAN /\ requester.height \in Heights
      /\ requester.wait \in SUBSET Nodes
  BY <1>2
<1>6. requester = [pc |-> "asking", startup |-> requester.startup,
                   height |-> requester.height, wait |-> requester.wait,
                   answers |-> requester.answers]
  BY <1>2
<1> QED BY <1>3, <1>4, <1>5, <1>6

\* A block of the height of Me, but another one, that a quorum answered and the server p too.
Agreed(c, p) ==
    /\ c \in Chains /\ Len(c) = Len(tip) /\ c # tip
    /\ p \in DOMAIN Answers /\ IsPart(c, Answers[p])
    /\ IsQuorum({q \in DOMAIN Answers : IsPart(c, Answers[q])})

\* A plan, and what backs one that rolls back.
GoodPlan(r) ==
    \/ r = IdleRequester
    \/ /\ r \in ActingRecords /\ r.startup = requester.startup
       /\ r.startup \/ r.to < 1 \/ \E c \in Chains : Len(c) = r.to + 1 /\ Agreed(c, r.server)

LEMMA PlanTypes ==
    ASSUME requester.startup \in BOOLEAN, NEW to \in -1 .. MaxHeight, NEW start \in Heights,
           NEW end \in Heights, NEW p \in Nodes
    PROVE  /\ Plan(to, start, end, p) \in ActingRecords
           /\ Plan(to, start, end, p).startup = requester.startup
           /\ Plan(to, start, end, p).to = to
           /\ Plan(to, start, end, p).server = p
BY DEF Plan, ActingRecords

LEMMA FetchGood ==
    ASSUME requester.startup \in BOOLEAN, NEW start \in Heights, NEW end \in Heights,
           NEW servers \in SUBSET Nodes, NEW r \in Fetch(start, end, servers)
    PROVE  GoodPlan(r)
<1>1. PICK p \in servers : r = Plan(-1, start, end, p)
  BY DEF Fetch, Keep
<1>2. -1 \in -1 .. MaxHeight
  BY Bounds
<1>3. r \in ActingRecords /\ r.startup = requester.startup /\ r.to = -1
  BY <1>1, <1>2, PlanTypes
<1> QED BY <1>3 DEF GoodPlan

LEMMA NothingGood ==
    ASSUME NEW r \in Nothing
    PROVE  GoodPlan(r)
BY Zenon DEF Nothing, GoodPlan

LEMMA RollBackGood ==
    ASSUME requester.startup, requester.startup \in BOOLEAN, NEW to \in Heights,
           NEW r \in RollBack(to)
    PROVE  GoodPlan(r)
<1>1. r = Plan(to, 0, 0, Me)
  BY DEF RollBack
<1>2. to \in -1 .. MaxHeight /\ 0 \in Heights /\ Me \in Nodes
  BY Bounds DEF Heights
<1>3. r \in ActingRecords /\ r.startup = requester.startup
  BY <1>1, <1>2, PlanTypes
<1> QED BY <1>3 DEF GoodPlan

LEMMA RollAndFetchGood ==
    ASSUME requester.startup \in BOOLEAN, TipOK, tip # <<>>,
           NEW start \in Heights, NEW end \in Heights, NEW servers \in SUBSET Nodes,
           NEW c \in Chains,
           Len(tip) >= 2 => \A p \in servers : Agreed(c, p),
           NEW r \in RollBackAndFetch(Len(tip) - 1, start, end, servers)
    PROVE  GoodPlan(r)
<1>1. Len(tip) \in Nat /\ Len(tip) <= MaxHeight /\ Len(tip) # 0
  BY ChainType DEF TipOK
<1>2. PICK to : to = Len(tip) - 1
  OBVIOUS
<1>3. to \in -1 .. MaxHeight /\ to + 1 = Len(tip) /\ to \in Nat
  BY <1>1, <1>2, Bounds
<1>4. PICK p \in servers : r = Plan(to, start, end, p)
  BY <1>2 DEF RollBackAndFetch
<1>5. /\ r \in ActingRecords /\ r.startup = requester.startup /\ r.to = to /\ r.server = p
  BY <1>3, <1>4, PlanTypes
<1>6. ASSUME ~(r.to < 1) PROVE Len(c) = r.to + 1 /\ Agreed(c, r.server)
  <2>1. Len(tip) >= 2
    BY <1>3, <1>5, <1>6
  <2>2. Agreed(c, p)
    BY <2>1
  <2> QED BY <1>3, <1>5, <2>2 DEF Agreed
<1> QED BY <1>5, <1>6 DEF GoodPlan

\* Chains with one parent, the one of a chain of two blocks or more, are equally high.
LEMMA SamePrev ==
    ASSUME NEW b \in Chains, NEW c \in Chains, Prev(b) = Prev(c), Len(c) >= 2
    PROVE  Len(b) = Len(c)
<1>1. Len(b) \in Nat /\ Len(c) \in Nat /\ (b = <<>> <=> Len(b) = 0) /\ (c = <<>> <=> Len(c) = 0)
  BY ChainType
<1>2. PICK l : l = Len(Prev(b))
  OBVIOUS
<1>3. l = (IF b = <<>> THEN 0 ELSE Len(b) - 1) /\ l = (IF c = <<>> THEN 0 ELSE Len(c) - 1)
  BY <1>2, PrevChain
<1> QED BY <1>1, <1>3

LEMMA SpecifiedPart ==
    ASSUME Types, requester.pc = "asking", NEW p \in DOMAIN Answers
    PROVE  Specified(p) \in Chains /\ IsPart(Specified(p), Answers[p])
<1>1. Answers[p] \in Chains /\ requester.height \in Heights
  BY AnswerTypes
<1>2. CASE 0 < requester.height /\ requester.height < Len(Answers[p])
  <2>1. requester.height \in 0 .. Len(Answers[p])
    BY <1>1, <1>2, ChainType, Bounds DEF Heights
  <2> QED BY <1>1, <1>2, <2>1, First, FirstPart DEF Specified
<1>3. CASE ~(0 < requester.height /\ requester.height < Len(Answers[p]))
  BY <1>1, <1>3, EmptyChain, EmptyPart DEF Specified
<1> QED BY <1>2, <1>3

LEMMA EqualGood ==
    ASSUME Types, requester.pc = "asking", NEW b \in AgreedBlocks, Len(b) = Len(tip),
           NEW r \in EqualPlans(b)
    PROVE  GoodPlan(r)
<1>0. requester.startup \in BOOLEAN /\ TipOK /\ tip \in Chains /\ DOMAIN Answers \subseteq Nodes
      /\ Answers \in [DOMAIN Answers -> Chains]
  BY AnswerTypes DEF Types, TipOK
<1> DEFINE servers == {p \in DOMAIN Answers : Answers[p] = b}
<1>1. b \in Chains /\ IsQuorum(servers)
  BY <1>0 DEF AgreedBlocks
<1>2. CASE b = <<>>
  <2>1. CASE Seed \in AtHeight(1)
    <3>1. Seed \in Nodes /\ 0 \in Heights /\ 1 \in Heights
      <4>1. Seed \in DOMAIN Answers /\ Len(Answers[Seed]) = 1
        BY <2>1 DEF AtHeight
      <4>2. Answers[Seed] \in Chains
        BY <1>0, <4>1
      <4>3. Len(Answers[Seed]) <= MaxHeight
        BY <4>2, ChainType
      <4>4. 0 \in Heights /\ 1 \in Heights
        BY <4>1, <4>3, Bounds DEF Heights
      <4> QED BY <1>0, <4>1, <4>4
    <3>2. r \in Fetch(0, 1, {Seed})
      BY <1>2, <2>1 DEF EqualPlans
    <3> QED BY <1>0, <3>1, <3>2, FetchGood
  <2>2. CASE Seed \notin AtHeight(1)
    BY <1>2, <2>2, NothingGood DEF EqualPlans
  <2> QED BY <2>1, <2>2
<1>3. CASE b # <<>> /\ b = tip
  BY <1>3, NothingGood DEF EqualPlans
<1>4. CASE b # <<>> /\ b # tip /\ Prev(b) = Prev(tip)
  <2>1. r \in RollBackAndFetch(Len(tip) - 1, Len(tip) - 1, Len(b), servers)
    BY <1>4 DEF EqualPlans
  <2>2. Len(tip) \in Nat /\ Len(tip) <= MaxHeight /\ Len(tip) # 0 /\ tip # <<>>
    BY <1>0, <1>1, <1>4, ChainType
  <2>3. Len(tip) - 1 \in Heights /\ Len(b) \in Heights
    BY <2>2, Bounds DEF Heights
  <2>4. servers \in SUBSET Nodes
    BY <1>0
  <2>5. ASSUME NEW p \in servers PROVE Agreed(b, p)
    <3>1. p \in DOMAIN Answers /\ Answers[p] = b /\ IsPart(b, b)
      BY <1>1, PartRefl
    <3>2. {q \in DOMAIN Answers : IsPart(b, Answers[q])} \in SUBSET Nodes
      BY <1>0
    <3>3. servers \subseteq {q \in DOMAIN Answers : IsPart(b, Answers[q])}
      BY <3>1
    <3>4. IsQuorum({q \in DOMAIN Answers : IsPart(b, Answers[q])})
      <4> HIDE DEF servers
      <4> QED BY <1>1, <2>4, <3>2, <3>3, LargerQuorum
    <3> QED BY <1>1, <1>4, <3>1, <3>4 DEF Agreed
  <2> HIDE DEF servers
  <2> QED BY <1>0, <1>1, <2>1, <2>2, <2>3, <2>4, <2>5, RollAndFetchGood
<1>5. CASE b # <<>> /\ b # tip /\ Prev(b) # Prev(tip)
  BY <1>5, NothingGood DEF EqualPlans
<1> QED BY <1>2, <1>3, <1>4, <1>5

LEMMA GreaterGood ==
    ASSUME Types, requester.pc = "asking", NEW b \in AgreedBlocks, NEW r \in GreaterPlans(b)
    PROVE  GoodPlan(r)
<1>0. requester.startup \in BOOLEAN /\ TipOK /\ tip \in Chains /\ DOMAIN Answers \subseteq Nodes
      /\ Answers \in [DOMAIN Answers -> Chains]
  BY AnswerTypes DEF Types, TipOK
<1> DEFINE at(c) == {p \in AtHeight(Len(b)) : Specified(p) = c}
           agreed == {c \in {Specified(p) : p \in AtHeight(Len(b))} : IsQuorum(at(c))}
           servers(c) == {p \in at(c) : Answers[p] = b}
<1>1. b \in Chains
  BY <1>0 DEF AgreedBlocks
<1>2. Len(b) \in Heights /\ 0 \in Heights /\ Len(tip) \in Heights
  BY <1>0, <1>1, ChainType, Bounds DEF Heights
<1>3. AtHeight(Len(b)) \in SUBSET Nodes /\ AtHeight(Len(b)) \subseteq DOMAIN Answers
  BY <1>0 DEF AtHeight
<1>4. CASE tip = <<>>
  <2>1. r \in Fetch(0, Len(b), AtHeight(Len(b)))
    BY <1>4 DEF GreaterPlans
  <2> QED BY <1>0, <1>2, <1>3, <2>1, FetchGood
<1>5. CASE tip # <<>> /\ agreed = {}
  <2>1. r \in Nothing
    BY <1>5 DEF GreaterPlans
  <2> QED BY <2>1, NothingGood
<1>6. CASE tip # <<>> /\ agreed # {}
  <2>1. PICK c \in agreed : r \in (IF c = tip THEN Fetch(Len(tip), Len(b), servers(c))
                    ELSE IF Prev(c) = Prev(tip)
                    THEN RollBackAndFetch(Len(tip) - 1, Len(tip), Len(b), servers(c))
                    ELSE Nothing)
    BY <1>6 DEF GreaterPlans
  <2>2. at(c) \in SUBSET Nodes /\ servers(c) \in SUBSET Nodes /\ servers(c) \subseteq at(c)
        /\ at(c) \subseteq DOMAIN Answers /\ IsQuorum(at(c))
    BY <1>3
  <2>3. \A p \in at(c) : Specified(p) = c
    OBVIOUS
  <2>4. c \in Chains
    <3>1. PICK p \in AtHeight(Len(b)) : c = Specified(p)
      OBVIOUS
    <3> QED BY <1>3, <3>1, SpecifiedPart
  <2>5. ASSUME NEW p \in at(c) PROVE IsPart(c, Answers[p])
    BY <2>2, <2>3, <2>5, SpecifiedPart
  <2>6. CASE c = tip
    <3>1. r \in Fetch(Len(tip), Len(b), servers(c))
      BY <2>1, <2>6
    <3> HIDE DEF servers, at
    <3> QED BY <1>0, <1>2, <2>2, <3>1, FetchGood
  <2>7. CASE c # tip /\ Prev(c) = Prev(tip)
    <3>1. r \in RollBackAndFetch(Len(tip) - 1, Len(tip), Len(b), servers(c))
      BY <2>1, <2>7
    <3>2. ASSUME Len(tip) >= 2, NEW p \in servers(c) PROVE Agreed(c, p)
      <4>1. Len(c) = Len(tip)
        BY <1>0, <2>4, <2>7, <3>2, SamePrev
      <4>2. p \in DOMAIN Answers /\ IsPart(c, Answers[p])
        <5> HIDE DEF servers, at
        <5> QED BY <2>2, <2>5
      <4>3. {q \in DOMAIN Answers : IsPart(c, Answers[q])} \in SUBSET Nodes
        BY <1>0
      <4>4. at(c) \subseteq {q \in DOMAIN Answers : IsPart(c, Answers[q])}
        <5> HIDE DEF servers, at
        <5> QED BY <2>2, <2>5
      <4>5. IsQuorum({q \in DOMAIN Answers : IsPart(c, Answers[q])})
        <5> HIDE DEF servers, at
        <5> QED BY <2>2, <4>3, <4>4, LargerQuorum
      <4> QED BY <2>4, <2>7, <4>1, <4>2, <4>5 DEF Agreed
    <3> HIDE DEF servers, at
    <3> QED BY <1>0, <1>2, <1>6, <2>2, <2>4, <3>1, <3>2, RollAndFetchGood
  <2>8. CASE c # tip /\ Prev(c) # Prev(tip)
    <3>1. r \in Nothing
      BY <2>1, <2>8
    <3> QED BY <3>1, NothingGood
  <2> QED BY <2>6, <2>7, <2>8
<1> QED BY <1>4, <1>5, <1>6

LEMMA PlansGood ==
    ASSUME Types, requester.pc = "asking", NEW r \in Plans
    PROVE  GoodPlan(r)
<1>1. CASE AgreedBlocks = {}
  BY <1>1, NothingGood DEF Plans
<1>2. CASE AgreedBlocks # {}
  <2>1. PICK b \in AgreedBlocks :
           r \in (IF Len(b) > Len(tip) THEN GreaterPlans(b)
                  ELSE IF Len(b) = Len(tip) THEN EqualPlans(b) ELSE LessPlans(b))
    BY <1>2 DEF Plans
  <2>2. CASE Len(b) > Len(tip)
    <3>1. r \in GreaterPlans(b)
      BY <2>1, <2>2
    <3> QED BY <3>1, GreaterGood
  <2>3. CASE ~(Len(b) > Len(tip)) /\ Len(b) = Len(tip)
    <3>1. r \in EqualPlans(b)
      BY <2>1, <2>3
    <3> QED BY <2>3, <3>1, EqualGood
  <2>4. CASE ~(Len(b) > Len(tip)) /\ Len(b) # Len(tip)
    <3>1. r \in LessPlans(b)
      BY <2>1, <2>4
    <3>2. requester.startup \in BOOLEAN /\ b \in Chains
      BY AnswerTypes DEF AgreedBlocks
    <3>3. Len(b) \in Heights
      BY <3>2, ChainType DEF Heights
    <3>4. CASE requester.startup /\ b # <<>>
      <4>1. r \in RollBack(Len(b))
        BY <3>1, <3>4 DEF LessPlans
      <4> QED BY <3>2, <3>3, <3>4, <4>1, RollBackGood
    <3>5. CASE ~(requester.startup /\ b # <<>>)
      <4>1. r \in Nothing
        BY <3>1, <3>5 DEF LessPlans
      <4> QED BY <4>1, NothingGood
    <3> QED BY <3>4, <3>5
  <2> QED BY <2>2, <2>3, <2>4
<1> QED BY <1>1, <1>2

-----------------------------------------------------------------------------
(* The requester keeps the types.                                           *)

LEMMA AskTypes ==
    ASSUME Types, AskChainInfos
    PROVE  Types'
<1>1. mail \in Seq(Orders) /\ Len(mail) <= MaxMail /\ mail # <<>> /\ Head(mail).type = "start"
  BY DEF Types, MailOK, AskChainInfos
<1>2. Head(mail) \in Orders
  BY <1>1, Taken
<1>3. Head(mail).startup \in BOOLEAN
  BY <1>1, <1>2 DEF Orders
<1>4. MailOK'
  BY <1>1, Taken DEF AskChainInfos, MailOK
<1>5. TipOK'
  BY Bounds DEF AskChainInfos, Types, TipOK, DiskOK
<1>6. FlagsOK'
  <2>1. timer' \subseteq BOOLEAN
    BY Zenon DEF AskChainInfos, NoTimer
  <2> QED BY <2>1 DEF AskChainInfos, Types, FlagsOK
<1>7. RequesterOK'
  <2>1. PICK s, n : s = Head(mail).startup /\ n = Len(tip')
    OBVIOUS
  <2>2. n \in Heights
    BY <1>5, <2>1, ChainType DEF TipOK, Heights
  <2>3. PICK f : f = [p \in {} |-> <<>>]
    OBVIOUS
  <2>4. f \in [{} -> Chains] /\ {} \in SUBSET Nodes
    BY <2>3
  <2>5. [pc |-> "asking", startup |-> s, height |-> n, wait |-> Nodes, answers |-> f]
            \in [pc : {"asking"}, startup : BOOLEAN, height : Heights, wait : SUBSET Nodes,
                 answers : [{} -> Chains]]
    BY <1>3, <2>1, <2>2, <2>4
  <2>6. [pc |-> "asking", startup |-> s, height |-> n, wait |-> Nodes, answers |-> f]
            \in AskingRecords
    BY <2>4, <2>5, Zenon DEF AskingRecords
  <2>7. requester' = [pc |-> "asking", startup |-> s, height |-> n, wait |-> Nodes, answers |-> f]
    BY <2>1, <2>3, Zenon DEF AskChainInfos
  <2> QED BY <2>6, <2>7, Zenon DEF RequesterOK, RequesterRecords
<1> QED BY <1>4, <1>5, <1>6, <1>7, Kept DEF AskChainInfos, Types, network

\* An answer, and one that does not come.
LEMMA AnswerStep ==
    ASSUME Types, NEW p \in Nodes, AnswerChainInfo(p) \/ LoseChainInfo(p)
    PROVE  /\ Types' /\ requester.pc = "asking" /\ requester'.pc = "asking"
           /\ AnswerChainInfo(p) =>
                 requester'.answers = [q \in DOMAIN Answers \cup {p} |->
                                          IF q = p THEN disk[p] ELSE Answers[q]]
           /\ LoseChainInfo(p) => requester'.answers = Answers
<1>1. requester.pc = "asking"
  BY DEF AnswerChainInfo, LoseChainInfo
<1>2. /\ requester.startup \in BOOLEAN /\ requester.height \in Heights
      /\ requester.wait \in SUBSET Nodes /\ DOMAIN Answers \in SUBSET Nodes
      /\ Answers \in [DOMAIN Answers -> Chains]
      /\ requester = [pc |-> "asking", startup |-> requester.startup,
                      height |-> requester.height, wait |-> requester.wait,
                      answers |-> requester.answers]
  BY <1>1, AnswerTypes
<1>3. PICK s, n, w, a : /\ s = requester.startup /\ n = requester.height
                        /\ w = requester.wait \ {p} /\ a = Answers
  OBVIOUS
<1>4. \A S \in SUBSET Nodes : \A f \in [S -> Chains] :
         [pc |-> "asking", startup |-> s, height |-> n, wait |-> w, answers |-> f]
            \in AskingRecords
  <2>1. s \in BOOLEAN /\ n \in Heights /\ w \in SUBSET Nodes
    BY <1>2, <1>3
  <2>2. ASSUME NEW S \in SUBSET Nodes, NEW f \in [S -> Chains]
        PROVE  [pc |-> "asking", startup |-> s, height |-> n, wait |-> w, answers |-> f]
                  \in AskingRecords
    <3>1. [pc |-> "asking", startup |-> s, height |-> n, wait |-> w, answers |-> f]
            \in [pc : {"asking"}, startup : BOOLEAN, height : Heights, wait : SUBSET Nodes,
                 answers : [S -> Chains]]
      BY <2>1
    <3> QED BY <3>1, Zenon DEF AskingRecords
  <2> QED BY <2>2
<1>5. CASE AnswerChainInfo(p)
  <2>1. PICK f : f = [q \in DOMAIN Answers \cup {p} |-> IF q = p THEN disk[p] ELSE Answers[q]]
    OBVIOUS
  <2>2. f \in [DOMAIN Answers \cup {p} -> Chains] /\ DOMAIN Answers \cup {p} \in SUBSET Nodes
    BY <1>2, <2>1 DEF Types, DiskOK
  <2>3. requester' = [pc |-> "asking", startup |-> s, height |-> n, wait |-> w, answers |-> f]
    BY <1>2, <1>3, <1>5, <2>1 DEF AnswerChainInfo, Answers
  <2>4. requester' \in AskingRecords
    BY <1>4, <2>2, <2>3
  <2>5. RequesterOK' /\ requester'.pc = "asking" /\ requester'.answers = f
    <3>1. RequesterOK'
      BY <2>4, Zenon DEF RequesterOK, RequesterRecords
    <3> QED BY <2>3, <3>1
  <2>6. ~LoseChainInfo(p)
    BY <1>5 DEF AnswerChainInfo, LoseChainInfo, Types, FlagsOK
  <2> QED BY <1>1, <1>5, <2>1, <2>5, <2>6, Kept DEF AnswerChainInfo, Types, network
<1>6. CASE LoseChainInfo(p)
  <2>3. requester' = [pc |-> "asking", startup |-> s, height |-> n, wait |-> w,
                      answers |-> Answers]
    BY <1>2, <1>3, <1>6 DEF LoseChainInfo, Answers
  <2>4. requester' \in AskingRecords
    BY <1>2, <1>4, <2>3
  <2>5. RequesterOK' /\ requester'.pc = "asking" /\ requester'.answers = Answers
    <3>1. RequesterOK'
      BY <2>4, Zenon DEF RequesterOK, RequesterRecords
    <3> QED BY <2>3, <3>1
  <2>6. ~AnswerChainInfo(p)
    BY <1>6 DEF AnswerChainInfo, LoseChainInfo, Types, FlagsOK
  <2>7. FlagsOK'
    BY <1>6, Bounds DEF LoseChainInfo, Types, FlagsOK
  <2> QED BY <1>1, <1>6, <2>5, <2>6, <2>7, Kept DEF LoseChainInfo, Types, network
<1> QED BY <1>5, <1>6

LEMMA AnalyseTypes ==
    ASSUME Types, Analyse \/ AnalyseAgain
    PROVE  Types'
<1>1. requester.pc = "asking"
  BY DEF Analyse, AnalyseAgain, AllAnswered
<1>2. CASE Analyse
  <2>1. PICK r : r = requester'
    OBVIOUS
  <2>2. r \in Plans
    BY <1>2, <2>1 DEF Analyse
  <2>3. GoodPlan(r)
    BY <1>1, <2>2, PlansGood
  <2>4. r \in RequesterRecords
    BY <2>3, IdleTypes, Zenon DEF GoodPlan, RequesterRecords
  <2>5. RequesterOK'
    BY <2>1, <2>4 DEF RequesterOK
  <2> QED BY <1>2, <2>5, Kept DEF Analyse, Types, network
<1>3. CASE AnalyseAgain
  <2>1. RequesterOK'
    BY <1>3, IdleTypes, Zenon DEF AnalyseAgain, RequesterOK
  <2>2. FlagsOK'
    <3>1. timer' \subseteq BOOLEAN
      BY <1>1, <1>3, AnswerTypes DEF AnalyseAgain
    <3> QED BY <1>3, <3>1 DEF AnalyseAgain, Types, FlagsOK
  <2> QED BY <1>3, <2>1, <2>2, Kept DEF AnalyseAgain, Types, network
<1> QED BY <1>2, <1>3

\* Blocks are fetched from one height to another, of a node.
LEMMA FetchingTypes ==
    ASSUME NEW start \in Heights, NEW end \in Heights, NEW p \in Nodes
    PROVE  Fetching(start, end, p) \in {IdleRequester} \cup FetchingRecords
<1>1. CASE end > start
  <2>1. PICK n : n = start + 1
    OBVIOUS
  <2>2. n \in 1 .. MaxHeight /\ end \in 1 .. MaxHeight
    BY <1>1, <2>1, Bounds DEF Heights
  <2>3. [pc |-> "fetching", next |-> n, end |-> end, server |-> p, retried |-> FALSE]
           \in FetchingRecords
    BY <2>2 DEF FetchingRecords
  <2> QED BY <1>1, <2>1, <2>3, Zenon DEF Fetching
<1>2. CASE ~(end > start)
  BY <1>2, Zenon DEF Fetching
<1> QED BY <1>1, <1>2

LEMMA ActingTypes ==
    ASSUME Types, requester.pc = "acting"
    PROVE  /\ requester.startup \in BOOLEAN /\ requester.to \in -1 .. MaxHeight
           /\ requester.start \in Heights /\ requester.end \in Heights
           /\ requester.server \in Nodes
BY AskingTypes DEF Types, ActingRecords

\* What a rollback leaves on disk.
LeftOnDisk == IF requester.to < Len(disk[Me])
         THEN SubSeq(disk[Me], 1, IF requester.to = 0 THEN 1 ELSE requester.to)
         ELSE disk[Me]

LEMMA RollBackFacts ==
    ASSUME Types, ActRollBack
    PROVE  /\ requester.to \in 0 .. MaxHeight
           /\ LeftOnDisk \in Chains /\ IsPart(LeftOnDisk, disk[Me])
           /\ disk' = [disk EXCEPT ![Me] = LeftOnDisk] /\ disk'[Me] = LeftOnDisk
           /\ tip' = tip \/ tip' = LeftOnDisk
           /\ split' = (split \/ tip' # LeftOnDisk \/ storager.pc = "saved")
           /\ requester' \in {IdleRequester} \cup FetchingRecords
           /\ Len(LeftOnDisk) >= requester.to \/ LeftOnDisk = disk[Me]
<1>1. requester.pc = "acting" /\ requester.to # -1
  BY DEF ActRollBack, Keep
<1>2. requester.to \in 0 .. MaxHeight
  BY <1>1, ActingTypes, Bounds
<1>3. disk[Me] \in Chains /\ Len(disk[Me]) \in Nat
  BY Bounds, ChainType DEF Types, DiskOK
<1>6. LeftOnDisk \in Chains /\ IsPart(LeftOnDisk, disk[Me])
      /\ (Len(LeftOnDisk) >= requester.to \/ LeftOnDisk = disk[Me])
  <2>1. CASE requester.to < Len(disk[Me])
    <3>1. PICK n : n = IF requester.to = 0 THEN 1 ELSE requester.to
      OBVIOUS
    <3>2. n \in 0 .. Len(disk[Me]) /\ n >= requester.to
      BY <1>2, <1>3, <2>1, <3>1
    <3>3. LeftOnDisk = SubSeq(disk[Me], 1, n)
      BY <2>1, <3>1 DEF LeftOnDisk
    <3> QED BY <1>3, <3>2, <3>3, First, FirstPart
  <2>2. CASE ~(requester.to < Len(disk[Me]))
    <3>1. LeftOnDisk = disk[Me]
      BY <2>2 DEF LeftOnDisk
    <3> QED BY <1>3, <3>1, PartRefl
  <2> QED BY <2>1, <2>2
<1>7. /\ disk' = [disk EXCEPT ![Me] = LeftOnDisk]
      /\ tip' = tip \/ tip' = LeftOnDisk
      /\ split' = (split \/ tip' # LeftOnDisk \/ storager.pc = "saved")
      /\ \/ requester' = Fetching(requester.start, requester.end, requester.server)
         \/ requester' = IdleRequester
  BY DEF ActRollBack, LeftOnDisk
<1>8. disk'[Me] = LeftOnDisk
  BY <1>7, Bounds DEF Types, DiskOK
<1>9. requester' \in {IdleRequester} \cup FetchingRecords
  BY <1>1, <1>7, ActingTypes, FetchingTypes
<1> QED BY <1>2, <1>6, <1>7, <1>8, <1>9

LEMMA ActTypes ==
    ASSUME Types, ActFetch \/ ActRollBack
    PROVE  Types'
<1>1. CASE ActFetch
  <2>1. requester' \in {IdleRequester} \cup FetchingRecords
    BY <1>1, ActingTypes, FetchingTypes DEF ActFetch
  <2>2. RequesterOK'
    BY <2>1, Zenon DEF RequesterOK, RequesterRecords
  <2> QED BY <1>1, <2>2, Kept DEF ActFetch, Types, network
<1>2. CASE ActRollBack
  <2>1. requester' \in {IdleRequester} \cup FetchingRecords
    BY <1>2, RollBackFacts
  <2>2. RequesterOK'
    BY <2>1, Zenon DEF RequesterOK, RequesterRecords
  <2>3. DiskOK' /\ TipOK'
    BY <1>2, RollBackFacts DEF Types, DiskOK, TipOK
  <2>4. FlagsOK'
    <3>1. split' \in BOOLEAN
      BY <1>2, RollBackFacts
    <3> QED BY <1>2, <3>1 DEF ActRollBack, Types, FlagsOK
  <2> QED BY <1>2, <2>2, <2>3, <2>4, Kept DEF ActRollBack, Types, network
<1> QED BY <1>1, <1>2

LEMMA AskBlocksTypes ==
    ASSUME Types, AskBlocks
    PROVE  Types' /\ requester' \in {IdleRequester} \cup FetchingRecords
<1>1. mail \in Seq(Orders) /\ Len(mail) <= MaxMail /\ mail # <<>> /\ Head(mail).type = "blocks"
  BY DEF Types, MailOK, AskBlocks
<1>2. Head(mail) \in Orders
  BY <1>1, Taken
<1>3. Head(mail).from \in Nodes /\ Head(mail).max \in 1 .. MaxHeight
  BY <1>1, <1>2 DEF Orders
<1>4. MailOK'
  BY <1>1, Taken DEF AskBlocks, MailOK
<1>5. Head(mail).max \in Heights /\ Len(tip) \in Heights
  BY <1>3, ChainType, Bounds DEF Types, TipOK, Heights
<1>6. requester' \in {IdleRequester} \cup FetchingRecords
  BY <1>3, <1>5, FetchingTypes DEF AskBlocks
<1>7. RequesterOK'
  BY <1>6, Zenon DEF RequesterOK, RequesterRecords
<1> QED BY <1>4, <1>6, <1>7, Kept DEF AskBlocks, Types, network

LEMMA FetchTypes ==
    ASSUME Types, requester.pc = "fetching"
    PROVE  /\ requester \in FetchingRecords
           /\ requester.next \in 1 .. MaxHeight /\ requester.server \in Nodes
           /\ NextFetch \in {IdleRequester} \cup FetchingRecords
           /\ [requester EXCEPT !.retried = TRUE] \in FetchingRecords
<1>1. requester \in FetchingRecords
  BY AskingTypes DEF Types
<1>2. requester.next \in 1 .. MaxHeight /\ requester.server \in Nodes
      /\ requester.end \in 1 .. MaxHeight
  BY <1>1 DEF FetchingRecords
<1>3. CASE requester.next < requester.end
  <2>1. PICK n : n = requester.next + 1
    OBVIOUS
  <2>2. n \in 1 .. MaxHeight
    BY <1>2, <1>3, <2>1, Bounds
  <2>3. [requester EXCEPT !.next = n, !.retried = FALSE] \in FetchingRecords
    BY <1>1, <2>2 DEF FetchingRecords
  <2>4. NextFetch = [requester EXCEPT !.next = n, !.retried = FALSE]
    BY <1>3, <2>1 DEF NextFetch
  <2>5. [requester EXCEPT !.retried = TRUE] \in FetchingRecords
    BY <1>1 DEF FetchingRecords
  <2> QED BY <1>1, <1>2, <2>3, <2>4, <2>5, Zenon
<1>4. CASE ~(requester.next < requester.end)
  <2>1. NextFetch = IdleRequester
    BY <1>4 DEF NextFetch
  <2>2. [requester EXCEPT !.retried = TRUE] \in FetchingRecords
    BY <1>1 DEF FetchingRecords
  <2> QED BY <1>1, <1>2, <2>1, <2>2, Zenon
<1> QED BY <1>3, <1>4

LEMMA FetchStepTypes ==
    ASSUME Types, SkipBlock \/ FetchBlock \/ FetchTimeout
    PROVE  Types' /\ requester' \in {IdleRequester} \cup FetchingRecords
<1>1. requester.pc = "fetching"
  BY DEF SkipBlock, FetchBlock, FetchTimeout
<1>2. requester' = NextFetch \/ requester' = [requester EXCEPT !.retried = TRUE]
  BY DEF SkipBlock, FetchBlock, FetchTimeout
<1>3. requester' \in {IdleRequester} \cup FetchingRecords
  <2>1. /\ NextFetch \in {IdleRequester} \cup FetchingRecords
        /\ [requester EXCEPT !.retried = TRUE] \in {IdleRequester} \cup FetchingRecords
    BY <1>1, FetchTypes, Zenon
  <2> QED BY <1>2, <2>1, Zenon
<1>4. RequesterOK'
  BY <1>3, Zenon DEF RequesterOK, RequesterRecords
<1>5. CASE SkipBlock
  BY <1>3, <1>4, <1>5, Kept DEF SkipBlock, Types, network
<1>6. CASE FetchBlock
  <2>1. /\ requester.next \in 1 .. MaxHeight /\ requester.server \in Nodes
        /\ disk[requester.server] \in Chains
        /\ requester.next <= Len(disk[requester.server])
    BY <1>1, <1>6, FetchTypes DEF FetchBlock, Types, DiskOK
  <2>2. PICK b : b = SubSeq(disk[requester.server], 1, requester.next)
    OBVIOUS
  <2>3. requester.next \in 0 .. Len(disk[requester.server]) /\ requester.next # 0
    BY <2>1, ChainType, Bounds
  <2>4. b \in Chains /\ Len(b) = requester.next
    BY <2>1, <2>2, <2>3, First
  <2>5. b # <<>>
    BY <2>3, <2>4, ChainType
  <2>6. Restore(b, requester.server) \in FullMessages
    BY <2>1, <2>4, <2>5 DEF Restore, FullMessages
  <2>7. InboxOK'
    BY <1>6, <2>2, <2>6, Posted DEF FetchBlock, Types, InboxOK
  <2> QED BY <1>3, <1>4, <1>6, <2>7, Kept DEF FetchBlock, Types, network
<1>7. CASE FetchTimeout
  <2>1. FlagsOK'
    BY <1>7, Bounds DEF FetchTimeout, Types, FlagsOK
  <2> QED BY <1>3, <1>4, <1>7, <2>1, Kept DEF FetchTimeout, Types, network
<1> QED BY <1>5, <1>6, <1>7

LEMMA RequesterStepTypes ==
    ASSUME Types, Requester
    PROVE  Types'
BY AskTypes, AnswerStep, AnalyseTypes, ActTypes, AskBlocksTypes, FetchStepTypes DEF Requester

LEMMA StepTypes ==
    ASSUME Types, Next
    PROVE  Types'
<1>1. \A h \in 1 .. MaxHeight : Confirm(h) => Types'
  BY ConfirmTypes
<1>2. \A p \in Nodes : LoseChainInfo(p) => Types'
  BY AnswerStep
<1> QED BY <1>1, <1>2, PeersTypes, AskersTypes, StoragerStepTypes, RequesterStepTypes,
        RestartTypes DEF Next

LEMMA StutterTypes ==
    ASSUME Types, UNCHANGED vars
    PROVE  Types'
BY Kept DEF vars, Types

-----------------------------------------------------------------------------
(* The other nodes.                                                         *)

\* Which steps write to which disk.
LEMMA DiskSteps ==
    ASSUME Types, Next
    PROVE  \/ disk' = disk
           \/ NewBlock /\ net = 0 /\ disk' = [disk EXCEPT ![Seed] = Main(1)]
           \/ \E p \in Nodes \ {Me} : /\ PeerStores(p)
                                      /\ disk' = [disk EXCEPT ![p] = Append(@, "main")]
           \/ SaveBlock
           \/ ActRollBack
BY DEF Next, Peers, NewBlock, PeerStores, Confirm, Join, AskedTooHigh, TimerFires, Storager,
       BeginHandler, EndHandler, MeetGap, SaveBlock, RenewStatus, DropBlock, PassBlock,
       Requester, AskChainInfos, AskBlocks, AnswerChainInfo, Analyse, AnalyseAgain, ActFetch,
       ActRollBack, SkipBlock, FetchBlock, FetchTimeout, LoseChainInfo, Restart

LEMMA InitPeers ==
    ASSUME Init
    PROVE  PeersInv
<1>1. PICK s \in Starts : /\ net = s.net
                          /\ disk = [n \in Nodes |-> IF n = Me THEN s.disk ELSE Main(s.net)]
  BY DEF Init
<1>2. s.net \in Heights
  BY SyncAssumption DEF SyncAssumption, Heights
<1>3. Len(Main(s.net)) = s.net /\ s.net \in Nat
  BY <1>2, MainChain, Bounds DEF Heights
<1> QED BY <1>1, <1>3 DEF PeersInv

\* A node that stores the next block of the network.
LEMMA PeerGrows ==
    ASSUME Types, PeersInv, NEW p \in Nodes \ {Me}, PeerStores(p)
    PROVE  /\ disk'[p] = Main(Len(disk'[p])) /\ Len(disk'[p]) <= net
           /\ IsPart(disk[p], disk'[p])
           /\ \A n \in Nodes \ {p} : disk'[n] = disk[n]
<1>1. disk[p] \in Chains /\ Len(disk[p]) < net /\ net \in Heights
  BY DEF Types, DiskOK, NetOK, PeerStores
<1>2. PICK h : h = Len(disk[p])
  OBVIOUS
<1>3. h \in Heights /\ h + 1 \in Heights /\ h + 1 <= net
  BY <1>1, <1>2, ChainType, Bounds DEF Heights
<1>4. disk[p] = Main(h)
  BY <1>2 DEF PeersInv
<1>5. disk' = [disk EXCEPT ![p] = Main(h + 1)]
  BY <1>3, <1>4, MainLonger DEF PeerStores
<1>6. disk'[p] = Main(h + 1)
  BY <1>5 DEF Types, DiskOK
<1>7. Len(Main(h + 1)) = h + 1
  BY <1>3, MainChain
<1>8. IsPart(Main(h), Main(h + 1))
  BY <1>3, MainPart, Bounds DEF Heights
<1>9. \A n \in Nodes \ {p} : disk'[n] = disk[n]
  BY <1>5 DEF Types, DiskOK
<1> QED BY <1>3, <1>4, <1>6, <1>7, <1>8, <1>9

\* The seed node builds the first block of the network.
LEMMA FirstBlock ==
    ASSUME Types, PeersInv, NewBlock, net = 0
    PROVE  /\ Seed \in Nodes \ {Me} /\ net' = 1
           /\ disk'[Seed] = Main(1) /\ Len(Main(1)) = 1 /\ disk[Seed] = <<>>
           /\ IsPart(disk[Seed], disk'[Seed])
           /\ \A n \in Nodes \ {Seed} : disk'[n] = disk[n]
<1>1. MaxHeight >= 1
  BY Bounds DEF Types, NetOK
<1>2. Seed \in Nodes \ {Me}
  BY <1>1, SeedNode
<1>3. disk[Seed] \in Chains /\ Len(disk[Seed]) <= 0
  BY <1>2 DEF Types, DiskOK, PeersInv
<1>4. disk[Seed] = <<>>
  BY <1>3, ChainType
<1>5. 1 \in Heights
  BY <1>1, Bounds DEF Heights
<1>6. Main(1) \in Chains /\ Len(Main(1)) = 1
  BY <1>5, MainChain
<1>7. disk'[Seed] = Main(1) /\ net' = 1 /\ \A n \in Nodes \ {Seed} : disk'[n] = disk[n]
  BY <1>2 DEF NewBlock, Types, DiskOK
<1>8. IsPart(<<>>, Main(1))
  BY <1>6, EmptyPart
<1> QED BY <1>2, <1>4, <1>6, <1>7, <1>8

LEMMA NetGrows ==
    ASSUME Types, Next
    PROVE  net' \in Nat /\ net \in Nat /\ net' >= net
<1>1. net \in Nat
  BY Bounds DEF Types, NetOK, Heights
<1>2. net' = net \/ net' = net + 1
  BY DEF Next, Peers, NewBlock, PeerStores, Confirm, Join, AskedTooHigh, TimerFires, Storager,
         BeginHandler, EndHandler, MeetGap, SaveBlock, RenewStatus, DropBlock, PassBlock,
         Requester, AskChainInfos, AskBlocks, AnswerChainInfo, Analyse, AnalyseAgain, ActFetch,
         ActRollBack, SkipBlock, FetchBlock, FetchTimeout, LoseChainInfo, Restart, network
<1> QED BY <1>1, <1>2

\* SaveBlock makes the block the last on the disk of Me, and touches no other disk.
LEMMA SaveFacts ==
    ASSUME Types, SaveBlock
    PROVE  /\ Entry.block \in Chains /\ Len(Entry.block) = storager.loop
           /\ disk'[Me] = Entry.block /\ IsPart(disk[Me], disk'[Me])
           /\ Prev(Entry.block) = tip /\ IsPart(tip, Entry.block)
           /\ Len(Entry.block) = Len(tip) + 1
           /\ \A n \in Nodes \ {Me} : disk'[n] = disk[n]
<1>1. Entry.block \in Chains /\ Len(Entry.block) = storager.loop
  BY EntryTypes DEF SaveBlock, Due, InLoop
<1>2. disk'[Me] = Entry.block /\ \A n \in Nodes \ {Me} : disk'[n] = disk[n]
  BY Bounds DEF SaveBlock, Types, DiskOK
<1>3. Prev(Entry.block) = tip /\ Len(Entry.block) = Len(tip) + 1
      /\ disk[Me] \in {Entry.block, Prev(Entry.block)}
  BY DEF SaveBlock, Fits
<1>4. IsPart(Prev(Entry.block), Entry.block) /\ IsPart(Entry.block, Entry.block)
  BY <1>1, PrevChain, PartRefl
<1> QED BY <1>1, <1>2, <1>3, <1>4

LEMMA StepPeers ==
    ASSUME Types, PeersInv, Next
    PROVE  PeersInv'
<1>1. net' \in Nat /\ net \in Nat /\ net' >= net
  BY NetGrows
<1>2. SUFFICES ASSUME NEW p \in Nodes \ {Me}
               PROVE  disk'[p] = Main(Len(disk'[p])) /\ Len(disk'[p]) <= net'
  BY DEF PeersInv
<1>3. disk[p] = Main(Len(disk[p])) /\ Len(disk[p]) <= net /\ disk[p] \in Chains
  BY DEF PeersInv, Types, DiskOK
<1>4. Len(disk[p]) \in Nat
  BY <1>3, ChainType
<1>5. CASE disk'[p] = disk[p]
  <2>1. PICK l : l = Len(disk[p])
    OBVIOUS
  <2>2. disk'[p] = Main(l) /\ Len(disk'[p]) = l /\ l <= net /\ l \in Nat
    BY <1>3, <1>4, <1>5, <2>1
  <2>3. l <= net'
    BY <1>1, <2>2
  <2> QED BY <2>2, <2>3
<1>6. CASE NewBlock /\ net = 0 /\ p = Seed
  <2>1. disk'[p] = Main(1) /\ Len(Main(1)) = 1 /\ net' = 1
    BY <1>6, FirstBlock
  <2>2. Len(disk'[p]) = 1
    BY <2>1
  <2>3. disk'[p] = Main(Len(disk'[p]))
    BY <2>1, <2>2, Zenon
  <2>4. PICK l : l = Len(disk'[p])
    OBVIOUS
  <2>5. l = 1 /\ l <= net'
    BY <2>1, <2>2, <2>4
  <2> QED BY <2>3, <2>4, <2>5, Zenon
<1>7. CASE PeerStores(p)
  <2>1. Len(disk'[p]) <= net /\ disk'[p] = Main(Len(disk'[p]))
    BY <1>7, PeerGrows
  <2>2. net' = net
    BY <1>7 DEF PeerStores, network
  <2> QED BY <2>1, <2>2
<1>8. disk'[p] = disk[p] \/ (NewBlock /\ net = 0 /\ p = Seed) \/ PeerStores(p)
  <2>1. CASE disk' = disk
    BY <2>1
  <2>2. CASE NewBlock /\ net = 0 /\ disk' = [disk EXCEPT ![Seed] = Main(1)]
    BY <2>2 DEF Types, DiskOK
  <2>3. CASE \E q \in Nodes \ {Me} : /\ PeerStores(q)
                                     /\ disk' = [disk EXCEPT ![q] = Append(@, "main")]
    BY <2>3 DEF Types, DiskOK
  <2>4. CASE SaveBlock
    BY <2>4 DEF SaveBlock, Types, DiskOK
  <2>5. CASE ActRollBack
    BY <2>5, RollBackFacts DEF Types, DiskOK
  <2> QED BY <2>1, <2>2, <2>3, <2>4, <2>5, DiskSteps
<1> QED BY <1>5, <1>6, <1>7, <1>8

\* But for a rollback no disk loses a block.
LEMMA DisksGrow ==
    ASSUME Types, PeersInv, Next, NEW n \in Nodes
    PROVE  /\ disk[n] \in Chains /\ disk'[n] \in Chains
           /\ ActRollBack \/ IsPart(disk[n], disk'[n])
<1>1. disk[n] \in Chains /\ disk'[n] \in Chains
  BY StepTypes DEF Types, DiskOK
<1>2. IsPart(disk[n], disk[n])
  BY <1>1, PartRefl
<1>3. CASE disk' = disk
  BY <1>1, <1>2, <1>3
<1>4. CASE NewBlock /\ net = 0
  BY <1>1, <1>2, <1>4, FirstBlock
<1>5. CASE \E p \in Nodes \ {Me} : PeerStores(p)
  BY <1>1, <1>2, <1>5, PeerGrows
<1>6. CASE SaveBlock
  BY <1>1, <1>2, <1>6, SaveFacts
<1>7. CASE ActRollBack
  BY <1>1, <1>7
<1> QED BY <1>3, <1>4, <1>5, <1>6, <1>7, DiskSteps

-----------------------------------------------------------------------------
(* Disk and status of Me.                                                   *)

\* The steps that change disk, status or storager of Me.
LEMMA MySteps ==
    ASSUME Types, PeersInv, Next
    PROVE  \/ Storager \/ AskChainInfos \/ ActRollBack \/ Restart
           \/ UNCHANGED <<tip, storager, split>> /\ disk'[Me] = disk[Me]
<1> DEFINE Same == UNCHANGED <<tip, storager, split>>
<1>1. CASE Peers
  <2>1. Same
    BY <1>1 DEF Peers, NewBlock, PeerStores, mine
  <2>2. CASE NewBlock
    <3>1. disk' = disk \/ net = 0
      BY <2>2 DEF NewBlock
    <3> QED BY <2>1, <2>2, <3>1, FirstBlock, Bounds
  <2>3. CASE \E p \in Nodes : PeerStores(p)
    <3>1. PICK p \in Nodes : PeerStores(p)
      BY <2>3
    <3>2. p # Me
      BY <3>1 DEF PeerStores
    <3> QED BY <2>1, <3>1, <3>2, PeerGrows, Bounds
  <2> QED BY <1>1, <2>2, <2>3 DEF Peers
<1>2. CASE \E h \in 1 .. MaxHeight : Confirm(h)
  BY <1>2 DEF Confirm
<1>3. CASE Join \/ AskedTooHigh \/ TimerFires
  BY <1>3 DEF Join, AskedTooHigh, TimerFires
<1>4. CASE Requester
  BY <1>4 DEF Requester, AskBlocks, AnswerChainInfo, Analyse, AnalyseAgain, ActFetch,
              SkipBlock, FetchBlock, FetchTimeout
<1>5. CASE \E p \in Nodes : LoseChainInfo(p)
  BY <1>5 DEF LoseChainInfo
<1> QED BY <1>1, <1>2, <1>3, <1>4, <1>5 DEF Next

LEMMA InitLine ==
    ASSUME Init
    PROVE  LineInv /\ StatusIsDisk
BY DEF Init, LineInv, StatusIsDisk, IdleStorager

LEMMA BeginLine ==
    ASSUME Types, LineInv, StatusIsDisk, BeginHandler
    PROVE  LineInv' /\ StatusIsDisk'
<1>0. storager.pc = "idle" /\ disk' = disk /\ split' = split
  BY DEF BeginHandler
<1>1. disk[Me] \in Chains /\ tip \in Chains
  BY Bounds DEF Types, DiskOK, TipOK
<1>2. tip' = IF tip = <<>> THEN disk[Me] ELSE tip
  BY DEF BeginHandler
<1>3. tip = <<>> \/ IsPart(disk[Me], tip)
  BY <1>0 DEF LineInv
<1>4. IsPart(disk[Me], disk[Me])
  BY <1>1, PartRefl
<1>5. tip' = <<>> \/ IsPart(disk[Me], tip')
  BY <1>2, <1>3, <1>4
<1>6. tip' = <<>> => disk[Me] = <<>>
  BY <1>2
<1>7. storager'.pc # "saved" /\ (storager'.pc = "loop" => storager'.local = Len(tip'))
  <2>1. CASE DOMAIN cache' = {}
    <3>1. storager' = IdleStorager
      BY <2>1, BeginFacts
    <3> QED BY <3>1 DEF IdleStorager
  <2>2. CASE DOMAIN cache' # {}
    <3>1. storager' = [pc |-> "loop", loop |-> LowestOf(DOMAIN cache'),
                       max |-> HighestOf(DOMAIN cache'), local |-> Len(tip')]
      BY <2>2, BeginFacts
    <3> QED BY <3>1
  <2> QED BY <2>1, <2>2
<1>8. storager'.pc = "loop" => Len(tip') <= storager'.local
  <2>1. PICK n : n = Len(tip')
    OBVIOUS
  <2>2. n \in Nat
    BY <1>1, <1>2, <2>1, ChainType
  <2>3. n <= n
    BY <2>2
  <2> QED BY <1>7, <2>1, <2>3
<1>9. LineInv'
  BY <1>0, <1>5, <1>6, <1>7, <1>8 DEF LineInv
<1>10. StatusIsDisk'
  BY <1>0, <1>2 DEF StatusIsDisk
<1> QED BY <1>9, <1>10

\* A handler ends, or goes on to the next height without a block saved.
LEMMA GoOnLine ==
    ASSUME Types, LineInv, StatusIsDisk, EndHandler \/ MeetGap \/ DropBlock \/ PassBlock
    PROVE  LineInv' /\ StatusIsDisk'
<1>1. storager.pc = "loop" /\ disk' = disk /\ tip' = tip /\ split' = split
  BY DEF EndHandler, MeetGap, DropBlock, PassBlock, Due, InLoop
<1>2. \/ storager' = IdleStorager
      \/ storager'.pc = "loop" /\ storager'.local = storager.local
  <2>1. /\ NextHeight(storager.local).pc = "loop"
        /\ NextHeight(storager.local).local = storager.local
    BY DEF NextHeight
  <2>2. storager' = IdleStorager \/ storager' = NextHeight(storager.local)
    BY Zenon DEF EndHandler, MeetGap, DropBlock, PassBlock
  <2> QED BY <2>1, <2>2
<1>3. LineInv'
  BY <1>1, <1>2 DEF LineInv, IdleStorager
<1>4. StatusIsDisk'
  BY <1>1 DEF StatusIsDisk
<1> QED BY <1>3, <1>4

LEMMA SaveLine ==
    ASSUME Types, LineInv, StatusIsDisk, SaveBlock
    PROVE  LineInv' /\ StatusIsDisk'
<1>1. /\ Entry.block \in Chains /\ Len(Entry.block) = storager.loop
      /\ disk'[Me] = Entry.block
      /\ Prev(Entry.block) = tip /\ IsPart(tip, Entry.block)
  BY SaveFacts
<1>2. IsPart(Entry.block, Entry.block)
  BY <1>1, PartRefl
<1>3. /\ storager'.pc = "saved" /\ storager'.block = Entry.block
      /\ storager'.loop = storager.loop /\ tip' = tip
  BY DEF SaveBlock
<1>4. LineInv'
  BY <1>1, <1>2, <1>3 DEF LineInv
<1>5. StatusIsDisk'
  BY <1>1, <1>3 DEF StatusIsDisk
<1> QED BY <1>4, <1>5

LEMMA RenewLine ==
    ASSUME Types, LineInv, StatusIsDisk, RenewStatus
    PROVE  LineInv' /\ StatusIsDisk'
<1>1. storager.pc = "saved" /\ disk' = disk /\ split' = split /\ tip' = storager.block
      /\ storager' = NextHeight(storager.loop)
  BY DEF RenewStatus
<1>2. /\ IsPart(disk[Me], storager.block) /\ Len(storager.block) = storager.loop
      /\ split \/ storager.block = disk[Me]
      /\ storager.block \in Chains /\ storager.loop \in 1 .. MaxHeight
  BY <1>1, StoragerTypes DEF LineInv, Types
<1>3. storager'.pc = "loop" /\ storager'.local = storager.loop
  BY <1>1 DEF NextHeight
<1>4. Len(tip') <= storager'.local /\ tip' # <<>>
  BY <1>1, <1>2, <1>3, ChainType, Bounds
<1>5. LineInv'
  BY <1>1, <1>2, <1>3, <1>4 DEF LineInv
<1>6. StatusIsDisk'
  BY <1>1, <1>2 DEF StatusIsDisk
<1> QED BY <1>5, <1>6

LEMMA AskLine ==
    ASSUME Types, LineInv, StatusIsDisk, AskChainInfos
    PROVE  LineInv' /\ StatusIsDisk'
<1>1. storager' = storager /\ disk' = disk /\ split' = split
      /\ tip' = IF tip = <<>> THEN disk[Me] ELSE tip
  BY DEF AskChainInfos
<1>2. disk[Me] \in Chains /\ IsPart(disk[Me], disk[Me])
  BY Bounds, PartRefl DEF Types, DiskOK
<1>3. storager.pc = "loop" => tip' = tip
  BY <1>1 DEF LineInv
<1>4. LineInv'
  BY <1>1, <1>2, <1>3 DEF LineInv
<1>5. StatusIsDisk'
  BY <1>1 DEF StatusIsDisk
<1> QED BY <1>4, <1>5

LEMMA RollBackLine ==
    ASSUME Types, LineInv, StatusIsDisk, ActRollBack
    PROVE  LineInv' /\ StatusIsDisk'
<1>1. /\ LeftOnDisk \in Chains /\ IsPart(LeftOnDisk, disk[Me])
      /\ disk'[Me] = LeftOnDisk
      /\ tip' = tip \/ tip' = LeftOnDisk
      /\ split' = (split \/ tip' # LeftOnDisk \/ storager.pc = "saved")
  BY RollBackFacts
<1>2. storager' = storager
  BY DEF ActRollBack
<1>3. disk[Me] \in Chains /\ tip \in Chains /\ IsPart(LeftOnDisk, LeftOnDisk)
  BY <1>1, Bounds, PartRefl DEF Types, DiskOK, TipOK
<1>4. StatusIsDisk'
  BY <1>1 DEF StatusIsDisk
<1>5. CASE storager.pc = "saved"
  <2>1. /\ IsPart(disk[Me], storager.block) /\ IsPart(tip, storager.block)
        /\ Len(storager.block) = storager.loop
        /\ storager.block \in Chains
    BY <1>5, StoragerTypes DEF LineInv, Types
  <2>2. IsPart(LeftOnDisk, storager.block)
    BY <1>1, <1>3, <2>1, PartTrans
  <2>3. LineInv'
    BY <1>1, <1>2, <1>5, <2>1, <2>2 DEF LineInv
  <2> QED BY <1>4, <2>3
<1>6. CASE storager.pc # "saved"
  <2>1. tip = <<>> \/ IsPart(disk[Me], tip)
    BY <1>6 DEF LineInv
  <2>2. tip = <<>> \/ IsPart(LeftOnDisk, tip)
    BY <1>1, <1>3, <2>1, PartTrans
  <2>3. tip' = <<>> \/ IsPart(LeftOnDisk, tip')
    BY <1>1, <1>3, <2>2
  <2>4. ASSUME storager.pc = "loop"
        PROVE  Len(tip') <= storager.local /\ (tip' = <<>> => LeftOnDisk = <<>>)
    <3>1. Len(tip) <= storager.local /\ (tip = <<>> => disk[Me] = <<>>)
      BY <2>4 DEF LineInv
    <3>2. PICK l : l = storager.local
      OBVIOUS
    <3>3. l \in Nat
      BY <2>4, <3>2, StoragerTypes, Bounds DEF Types, Heights
    <3>4. Len(LeftOnDisk) \in Nat /\ Len(disk[Me]) \in Nat /\ Len(tip) \in Nat
          /\ Len(LeftOnDisk) <= Len(disk[Me])
      BY <1>1, <1>3, ChainType DEF IsPart
    <3>5. Len(disk[Me]) <= Len(tip)
      <4>1. CASE tip = <<>>
        <5>1. disk[Me] = tip
          BY <3>1, <4>1
        <5> QED BY <3>4, <5>1
      <4>2. CASE tip # <<>>
        BY <2>1, <4>2 DEF IsPart
      <4> QED BY <4>1, <4>2
    <3>6. Len(LeftOnDisk) <= l /\ Len(tip) <= l
      BY <3>1, <3>2, <3>3, <3>4, <3>5
    <3>7. Len(tip') <= l
      BY <1>1, <3>6
    <3>8. tip = <<>> => LeftOnDisk = <<>>
      BY <1>1, <1>3, <3>1, <3>4, ChainType
    <3> QED BY <1>1, <3>2, <3>7, <3>8
  <2>5. LineInv'
    BY <1>1, <1>2, <1>6, <2>3, <2>4 DEF LineInv
  <2> QED BY <1>4, <2>5
<1> QED BY <1>5, <1>6

LEMMA StepLine ==
    ASSUME Types, PeersInv, LineInv, StatusIsDisk, Next
    PROVE  LineInv' /\ StatusIsDisk'
<1>1. CASE Storager
  BY <1>1, BeginLine, GoOnLine, SaveLine, RenewLine DEF Storager
<1>2. CASE AskChainInfos \/ ActRollBack
  BY <1>2, AskLine, RollBackLine
<1>3. CASE Restart
  BY <1>3 DEF Restart, LineInv, StatusIsDisk, IdleStorager
<1>4. CASE UNCHANGED <<tip, storager, split>> /\ disk'[Me] = disk[Me]
  BY <1>4 DEF LineInv, StatusIsDisk
<1> QED BY <1>1, <1>2, <1>3, <1>4, MySteps

-----------------------------------------------------------------------------
(* The plans of the requester.                                              *)

\* What keeps a plan: the requester waits, disks only grow, and the status of Me
\* only changes to a chain that it is part of.
LEMMA PlanKept ==
    ASSUME Types, PlanInv, Types', requester.pc = "acting", requester' = requester,
           \A n \in Nodes : IsPart(disk[n], disk'[n]),
           tip' = tip \/ IsPart(tip, tip')
    PROVE  PlanInv'
<1>1. SUFFICES ASSUME ~requester.startup, requester.to >= 1
               PROVE  /\ requester.to + 1 <= Len(disk'[requester.server])
                      /\ IsQuorum({n \in Nodes : IsPart(
                             SubSeq(disk'[requester.server], 1, requester.to + 1), disk'[n])})
                      /\ requester.to + 1 <= Len(tip')
                      /\ ~IsPart(SubSeq(disk'[requester.server], 1, requester.to + 1), tip')
  <2>1. (requester'.pc = "asking") = FALSE
    OBVIOUS
  <2> QED BY <2>1 DEF PlanInv, Against, Holders
<1>2. /\ requester.to + 1 <= Len(disk[requester.server])
      /\ IsQuorum(Holders(Against))
      /\ requester.to + 1 <= Len(tip) /\ ~IsPart(Against, tip)
  BY <1>1 DEF PlanInv
<1>3. requester.to \in 1 .. MaxHeight /\ requester.server \in Nodes
  BY <1>1, ActingTypes, Bounds
<1>4. PICK k, s : k = requester.to + 1 /\ s = requester.server
  OBVIOUS
<1>5. \A n \in Nodes : disk[n] \in Chains /\ disk'[n] \in Chains
  BY DEF Types, DiskOK
<1>6. tip \in Chains /\ tip' \in Chains
  BY DEF Types, TipOK
<1>7. k \in Nat /\ Len(disk[s]) \in Nat /\ Len(disk'[s]) \in Nat /\ Len(tip) \in Nat
      /\ Len(tip') \in Nat /\ Len(disk[s]) <= Len(disk'[s]) /\ k <= Len(disk[s])
      /\ k <= Len(tip)
  BY <1>2, <1>3, <1>4, <1>5, <1>6, ChainType, Bounds DEF IsPart
<1>8. k \in 0 .. Len(disk[s]) /\ k \in 0 .. Len(disk'[s])
  BY <1>7
<1>9. PICK a : a = SubSeq(disk[s], 1, k)
  OBVIOUS
<1>10. a \in Chains /\ Len(a) = k /\ IsPart(a, disk[s])
  BY <1>3, <1>4, <1>5, <1>8, <1>9, First, FirstPart
<1>11. a = SubSeq(disk'[s], 1, k)
  <2>1. IsPart(a, disk'[s])
    BY <1>3, <1>4, <1>5, <1>10, PartTrans
  <2> QED BY <1>10, <2>1 DEF IsPart
<1>12. a = Against
  BY <1>4, <1>9 DEF Against
<1>13. IsQuorum({n \in Nodes : IsPart(a, disk'[n])})
  <2>1. IsQuorum({n \in Nodes : IsPart(a, disk[n])})
    BY <1>2, <1>12 DEF Holders
  <2>2. {n \in Nodes : IsPart(a, disk[n])} \subseteq {n \in Nodes : IsPart(a, disk'[n])}
    BY <1>5, <1>10, PartTrans
  <2>3. /\ {n \in Nodes : IsPart(a, disk[n])} \in SUBSET Nodes
        /\ {n \in Nodes : IsPart(a, disk'[n])} \in SUBSET Nodes
    OBVIOUS
  <2> QED BY <2>1, <2>2, <2>3, LargerQuorum
<1>14. k <= Len(tip') /\ ~IsPart(a, tip')
  <2>1. CASE tip' = tip
    BY <1>2, <1>7, <1>12, <2>1
  <2>2. CASE IsPart(tip, tip')
    <3>1. Len(tip) <= Len(tip')
      BY <2>2 DEF IsPart
    <3>2. IsPart(a, tip') => IsPart(a, tip)
      BY <1>6, <1>7, <1>10, <2>2, PartsOfOne
    <3> QED BY <1>2, <1>7, <1>12, <3>1, <3>2
  <2> QED BY <2>1, <2>2
<1> QED BY <1>4, <1>7, <1>11, <1>13, <1>14

\* What keeps the answers parts of the chains that gave them.
LEMMA AnswersKept ==
    ASSUME Types, PlanInv, Types', requester.pc = "asking",
           requester'.pc = "asking", requester'.answers = requester.answers,
           \A n \in Nodes : IsPart(disk[n], disk'[n])
    PROVE  PlanInv'
<1>1. ASSUME NEW p \in DOMAIN requester.answers
      PROVE  IsPart(requester.answers[p], disk'[p])
  <2>1. p \in Nodes /\ requester.answers[p] \in Chains
    BY AnswerTypes DEF Answers
  <2>2. IsPart(requester.answers[p], disk[p])
    BY DEF PlanInv
  <2>3. disk[p] \in Chains /\ disk'[p] \in Chains
    BY <2>1 DEF Types, DiskOK
  <2> QED BY <2>1, <2>2, <2>3, PartTrans
<1> QED BY <1>1 DEF PlanInv

LEMMA AnswerPlan ==
    ASSUME Types, PlanInv, NEW p \in Nodes, AnswerChainInfo(p)
    PROVE  PlanInv'
<1>1. /\ requester.pc = "asking" /\ requester'.pc = "asking" /\ disk' = disk
      /\ requester'.answers = [q \in DOMAIN Answers \cup {p} |->
                                  IF q = p THEN disk[p] ELSE Answers[q]]
  BY AnswerStep DEF AnswerChainInfo
<1>2. IsPart(disk[p], disk[p])
  BY PartRefl DEF Types, DiskOK
<1>3. \A q \in DOMAIN Answers : IsPart(Answers[q], disk[q])
  BY <1>1 DEF PlanInv, Answers
<1>4. \A q \in DOMAIN requester'.answers : IsPart(requester'.answers[q], disk[q])
  BY <1>1, <1>2, <1>3
<1> QED BY <1>1, <1>4 DEF PlanInv

LEMMA AnalysePlan ==
    ASSUME Types, PlanInv, Analyse
    PROVE  PlanInv'
<1>1. requester.pc = "asking" /\ disk' = disk /\ tip' = tip
  BY DEF Analyse, AllAnswered
<1>2. PICK r : r = requester'
  OBVIOUS
<1>3. GoodPlan(r)
  BY <1>1, <1>2, PlansGood DEF Analyse
<1>4. CASE r = IdleRequester
  BY <1>2, <1>4 DEF PlanInv, IdleRequester
<1>5. CASE r # IdleRequester
  <2>1. r \in ActingRecords /\ r.pc = "acting"
    BY <1>3, <1>5 DEF GoodPlan, ActingRecords
  <2>2. SUFFICES ASSUME ~r.startup, r.to >= 1
                 PROVE  /\ r.to + 1 <= Len(disk[r.server])
                        /\ IsQuorum({n \in Nodes : IsPart(
                               SubSeq(disk[r.server], 1, r.to + 1), disk[n])})
                        /\ r.to + 1 <= Len(tip)
                        /\ ~IsPart(SubSeq(disk[r.server], 1, r.to + 1), tip)
    BY <1>1, <1>2, <2>1 DEF PlanInv, Against, Holders
  <2>3. r.to \in Int
    BY <2>1 DEF ActingRecords
  <2>4. PICK c \in Chains : Len(c) = r.to + 1 /\ Agreed(c, r.server)
    BY <1>3, <1>5, <2>2, <2>3 DEF GoodPlan
  <2>5. PICK k, s : k = r.to + 1 /\ s = r.server
    OBVIOUS
  <2>6. /\ Len(c) = k /\ Len(c) = Len(tip) /\ c # tip /\ s \in DOMAIN Answers
        /\ IsPart(c, Answers[s]) /\ IsQuorum({q \in DOMAIN Answers : IsPart(c, Answers[q])})
    BY <2>4, <2>5 DEF Agreed
  <2>7. ASSUME NEW q \in DOMAIN Answers, IsPart(c, Answers[q]) PROVE IsPart(c, disk[q])
    <3>1. q \in Nodes /\ Answers[q] \in Chains
      BY <1>1, AnswerTypes
    <3>2. disk[q] \in Chains /\ IsPart(Answers[q], disk[q])
      BY <1>1, <3>1 DEF Types, DiskOK, PlanInv, Answers
    <3> QED BY <2>7, <3>1, <3>2, PartTrans
  <2>8. IsPart(c, disk[s]) /\ disk[s] \in Chains
    <3>1. s \in Nodes
      BY <1>1, <2>6, AnswerTypes
    <3> QED BY <2>6, <2>7, <3>1 DEF Types, DiskOK
  <2>9. c = SubSeq(disk[s], 1, k) /\ k <= Len(disk[s])
    BY <2>6, <2>8 DEF IsPart
  <2>10. IsQuorum({n \in Nodes : IsPart(c, disk[n])})
    <3>1. DOMAIN Answers \subseteq Nodes
      BY <1>1, AnswerTypes
    <3>2. {q \in DOMAIN Answers : IsPart(c, Answers[q])} \in SUBSET Nodes
          /\ {n \in Nodes : IsPart(c, disk[n])} \in SUBSET Nodes
      BY <3>1
    <3>3. {q \in DOMAIN Answers : IsPart(c, Answers[q])}
             \subseteq {n \in Nodes : IsPart(c, disk[n])}
      BY <2>7, <3>1
    <3> QED BY <2>6, <3>2, <3>3, LargerQuorum
  <2>11. k <= Len(tip) /\ ~IsPart(c, tip)
    <3>1. tip \in Chains /\ Len(tip) \in Nat
      BY ChainType DEF Types, TipOK
    <3>2. IsPart(c, tip) => c = tip
      BY <2>6, <3>1, PartSame
    <3> QED BY <2>6, <3>1, <3>2
  <2> QED BY <2>5, <2>9, <2>10, <2>11
<1> QED BY <1>4, <1>5

\* The steps of the requester that leave nothing to be kept.
LEMMA FreshPlan ==
    ASSUME requester' \in {IdleRequester} \cup FetchingRecords
    PROVE  PlanInv'
<1>1. requester'.pc # "asking" /\ requester'.pc # "acting"
  BY DEF IdleRequester, FetchingRecords
<1> QED BY <1>1 DEF PlanInv

\* The steps that change what the requester does, and what the others do to the status of Me.
LEMMA PlanSteps ==
    ASSUME Types, LineInv, Next
    PROVE  \/ requester' = requester /\ ~ActRollBack
              /\ (tip' = tip \/ IsPart(tip, tip'))
           \/ AskChainInfos
           \/ \E p \in Nodes : AnswerChainInfo(p) \/ LoseChainInfo(p)
           \/ Analyse
           \/ requester' \in {IdleRequester} \cup FetchingRecords
<1>0. disk[Me] \in Chains /\ tip \in Chains
  BY Bounds DEF Types, DiskOK, TipOK
<1>1. CASE Peers \/ Join \/ AskedTooHigh \/ TimerFires \/ \E h \in 1 .. MaxHeight : Confirm(h)
  <2>1. requester' = requester /\ tip' = tip
    BY <1>1 DEF Peers, NewBlock, PeerStores, mine, Join, AskedTooHigh, TimerFires, Confirm
  <2>2. ~ActRollBack
    <3>1. ASSUME ActRollBack PROVE FALSE
      <4>1. requester.pc = "acting" /\ requester' \in {IdleRequester} \cup FetchingRecords
        BY <3>1, RollBackFacts DEF ActRollBack
      <4>2. requester'.pc # "acting"
        BY <4>1 DEF IdleRequester, FetchingRecords
      <4> QED BY <2>1, <4>1, <4>2
    <3> QED BY <3>1
  <2> QED BY <2>1, <2>2
<1>2. CASE Storager
  <2>1. requester' = requester
    BY <1>2 DEF Storager, BeginHandler, EndHandler, MeetGap, SaveBlock, RenewStatus, DropBlock,
                PassBlock
  <2>2. ~ActRollBack
    <3>1. ASSUME ActRollBack PROVE FALSE
      <4>1. requester.pc = "acting" /\ requester' \in {IdleRequester} \cup FetchingRecords
        BY <3>1, RollBackFacts DEF ActRollBack
      <4>2. requester'.pc # "acting"
        BY <4>1 DEF IdleRequester, FetchingRecords
      <4> QED BY <2>1, <4>1, <4>2
    <3> QED BY <3>1
  <2>3. tip' = tip \/ IsPart(tip, tip')
    <3>1. CASE BeginHandler
      <4>1. tip' = tip \/ (tip = <<>> /\ tip' = disk[Me])
        BY <3>1 DEF BeginHandler
      <4> QED BY <1>0, <4>1, EmptyPart
    <3>2. CASE RenewStatus
      BY <3>2 DEF RenewStatus, LineInv
    <3>3. CASE EndHandler \/ MeetGap \/ SaveBlock \/ DropBlock \/ PassBlock
      BY <3>3 DEF EndHandler, MeetGap, SaveBlock, DropBlock, PassBlock
    <3> QED BY <1>2, <3>1, <3>2, <3>3 DEF Storager
  <2> QED BY <2>1, <2>2, <2>3
<1>3. CASE Requester
  <2>1. CASE AskBlocks
    BY <2>1, AskBlocksTypes
  <2>2. CASE ActFetch
    BY <2>2, ActingTypes, FetchingTypes DEF ActFetch
  <2>3. CASE ActRollBack
    BY <2>3, RollBackFacts
  <2>4. CASE SkipBlock \/ FetchBlock \/ FetchTimeout
    BY <2>4, FetchStepTypes
  <2>5. CASE AnalyseAgain
    BY <2>5 DEF AnalyseAgain
  <2> QED BY <1>3, <2>1, <2>2, <2>3, <2>4, <2>5 DEF Requester
<1>4. CASE \E p \in Nodes : LoseChainInfo(p)
  BY <1>4
<1>5. CASE Restart
  BY <1>5 DEF Restart
<1> QED BY <1>1, <1>2, <1>3, <1>4, <1>5 DEF Next

LEMMA StepPlan ==
    ASSUME Types, PeersInv, LineInv, PlanInv, Next
    PROVE  PlanInv'
<1>0. Types'
  BY StepTypes
<1>1. CASE requester' = requester /\ ~ActRollBack /\ (tip' = tip \/ IsPart(tip, tip'))
  <2>1. \A n \in Nodes : IsPart(disk[n], disk'[n])
    BY <1>1, DisksGrow
  <2>2. CASE requester.pc = "acting"
    BY <1>0, <1>1, <2>1, <2>2, PlanKept
  <2>3. CASE requester.pc = "asking"
    BY <1>0, <1>1, <2>1, <2>3, AnswersKept
  <2>4. CASE requester.pc # "acting" /\ requester.pc # "asking"
    BY <1>1, <2>4 DEF PlanInv
  <2> QED BY <2>2, <2>3, <2>4
<1>2. CASE AskChainInfos
  <2>1. requester'.pc = "asking" /\ DOMAIN requester'.answers = {}
    BY <1>2 DEF AskChainInfos
  <2> QED BY <2>1 DEF PlanInv
<1>3. CASE \E p \in Nodes : AnswerChainInfo(p) \/ LoseChainInfo(p)
  <2>1. PICK p \in Nodes : AnswerChainInfo(p) \/ LoseChainInfo(p)
    BY <1>3
  <2>2. CASE AnswerChainInfo(p)
    BY <2>2, AnswerPlan
  <2>3. CASE LoseChainInfo(p)
    <3>1. /\ requester.pc = "asking" /\ requester'.pc = "asking"
          /\ requester'.answers = requester.answers /\ disk' = disk
      BY <2>3, AnswerStep DEF LoseChainInfo, Answers
    <3>2. \A n \in Nodes : IsPart(disk[n], disk'[n])
      BY <3>1, PartRefl DEF Types, DiskOK
    <3> QED BY <1>0, <3>1, <3>2, AnswersKept
  <2> QED BY <2>1, <2>2, <2>3
<1>4. CASE Analyse
  BY <1>4, AnalysePlan
<1>5. CASE requester' \in {IdleRequester} \cup FetchingRecords
  BY <1>5, FreshPlan
<1> QED BY <1>1, <1>2, <1>3, <1>4, <1>5, PlanSteps

-----------------------------------------------------------------------------
(* Rollbacks.                                                               *)

\* What is on disk, or being saved, lies on one line with the status in memory.
LEMMA OneLine ==
    ASSUME Types, LineInv, tip # <<>>, NEW a \in Chains, IsPart(a, disk[Me]),
           Len(a) <= Len(tip)
    PROVE  IsPart(a, tip)
<1>1. disk[Me] \in Chains /\ tip \in Chains
  BY Bounds DEF Types, DiskOK, TipOK
<1>2. CASE storager.pc = "saved"
  <2>1. /\ IsPart(disk[Me], storager.block) /\ IsPart(tip, storager.block)
        /\ storager.block \in Chains
    BY <1>2, StoragerTypes DEF LineInv, Types
  <2>2. IsPart(a, storager.block)
    BY <1>1, <2>1, PartTrans
  <2> QED BY <1>1, <2>1, <2>2, PartsOfOne
<1>3. CASE storager.pc # "saved"
  <2>1. IsPart(disk[Me], tip)
    BY <1>3 DEF LineInv
  <2> QED BY <1>1, <2>1, PartTrans
<1> QED BY <1>2, <1>3

\* No step takes a block off Me that a quorum has, but at start-up.
LEMMA StepRollBack ==
    ASSUME Types, PeersInv, LineInv, PlanInv, Next,
           requester.pc = "acting", ~requester.startup, requester.to # 0,
           NEW h \in Len(disk'[Me]) + 1 .. Len(disk[Me])
    PROVE  ~IsQuorum(Holders(SubSeq(disk[Me], 1, h)))
<1>1. disk[Me] \in Chains /\ disk'[Me] \in Chains /\ tip \in Chains
  BY DisksGrow, Bounds DEF Types, TipOK
<1>2. Len(disk[Me]) \in Nat /\ Len(disk'[Me]) \in Nat /\ Len(tip) \in Nat
  BY <1>1, ChainType
<1>3. h \in Nat /\ Len(disk'[Me]) < h /\ h <= Len(disk[Me])
  BY <1>2
<1>4. ActRollBack
  <2>1. IsPart(disk[Me], disk'[Me]) => Len(disk[Me]) <= Len(disk'[Me])
    BY DEF IsPart
  <2> QED BY <1>2, <1>3, <2>1, DisksGrow, Bounds
<1>5. /\ requester.to \in 0 .. MaxHeight /\ disk'[Me] = LeftOnDisk
      /\ Len(LeftOnDisk) >= requester.to \/ LeftOnDisk = disk[Me]
  BY <1>4, RollBackFacts
<1>6. requester.to < h /\ requester.to >= 1 /\ requester.to \in Nat
  <2>1. LeftOnDisk # disk[Me]
    BY <1>2, <1>3, <1>5
  <2>2. PICK t, l : t = requester.to /\ l = Len(disk'[Me])
    OBVIOUS
  <2>3. t \in Nat /\ l \in Nat /\ l >= t /\ l < h /\ t # 0
    BY <1>2, <1>3, <1>5, <2>1, <2>2, Bounds
  <2> QED BY <1>3, <2>2, <2>3
<1>7. /\ requester.to + 1 <= Len(disk[requester.server])
      /\ IsQuorum(Holders(Against))
      /\ requester.to + 1 <= Len(tip) /\ ~IsPart(Against, tip)
  BY <1>6 DEF PlanInv
<1>8. requester.server \in Nodes /\ disk[requester.server] \in Chains
  BY ActingTypes DEF Types, DiskOK
<1>9. Against \in Chains /\ Len(Against) = requester.to + 1
  <2>1. requester.to + 1 \in 0 .. Len(disk[requester.server])
    BY <1>6, <1>7, <1>8, ChainType
  <2> QED BY <1>8, <2>1, First DEF Against
<1>10. PICK b : b = SubSeq(disk[Me], 1, h)
  OBVIOUS
<1>11. b \in Chains /\ Len(b) = h /\ IsPart(b, disk[Me])
  <2>1. h \in 0 .. Len(disk[Me])
    BY <1>2, <1>3
  <2> QED BY <1>1, <1>10, <2>1, First, FirstPart
<1>12. ASSUME IsQuorum(Holders(b)) PROVE FALSE
  <2>1. Holders(b) \in SUBSET Nodes /\ Holders(Against) \in SUBSET Nodes
    BY DEF Holders
  <2>2. PICK n \in Nodes : n \in Holders(b) /\ n \in Holders(Against)
    BY <1>7, <1>12, <2>1, QuorumsMeet
  <2>3. IsPart(b, disk[n]) /\ IsPart(Against, disk[n]) /\ disk[n] \in Chains
    BY <2>2 DEF Holders, Types, DiskOK
  <2>4. Len(Against) <= Len(b)
    BY <1>3, <1>6, <1>9, <1>11
  <2>5. IsPart(Against, b)
    BY <1>9, <1>11, <2>3, <2>4, PartsOfOne
  <2>6. IsPart(Against, disk[Me])
    BY <1>1, <1>9, <1>11, <2>5, PartTrans
  <2>7. tip # <<>> /\ Len(Against) <= Len(tip)
    <3>1. Len(tip) # 0
      BY <1>2, <1>6, <1>7
    <3> QED BY <1>1, <1>7, <1>9, <3>1, ChainType
  <2>8. IsPart(Against, tip)
    BY <1>9, <2>6, <2>7, OneLine
  <2> QED BY <1>7, <2>8
<1> QED BY <1>10, <1>12

-----------------------------------------------------------------------------
(* Messages and the blocks they tell of.                                    *)

BatchesIn(box) == {i \in DOMAIN box : box[i].type = "batch"}

LEMMA ToldIs == Told = BatchesIn(inbox)
BY DEF Told, BatchesIn

LEMMA BatchesFinite ==
    ASSUME NEW box \in Seq(FullMessages)
    PROVE  BatchesIn(box) \subseteq 1 .. Len(box) /\ IsFiniteSet(BatchesIn(box))
           /\ Cardinality(BatchesIn(box)) \in Nat
<1>1. Len(box) \in Nat /\ DOMAIN box = 1 .. Len(box)
  BY LenProperties
<1>2. BatchesIn(box) \in SUBSET (1 .. Len(box))
  BY <1>1 DEF BatchesIn
<1>3. IsFiniteSet(1 .. Len(box))
  BY <1>1, FS_Interval
<1>4. IsFiniteSet(BatchesIn(box))
  BY <1>2, <1>3, FS_Subset
<1> QED BY <1>2, <1>4, FS_CardinalityType

LEMMA BatchesAppend ==
    ASSUME NEW box \in Seq(FullMessages), NEW m \in FullMessages
    PROVE  Cardinality(BatchesIn(Append(box, m)))
              = IF m.type = "batch" THEN Cardinality(BatchesIn(box)) + 1
                ELSE Cardinality(BatchesIn(box))
<1>1. Len(box) \in Nat /\ DOMAIN box = 1 .. Len(box)
  BY LenProperties
<1>2. PICK a : a = Append(box, m)
  OBVIOUS
<1>3. /\ a \in Seq(FullMessages) /\ Len(a) = Len(box) + 1 /\ a[Len(box) + 1] = m
      /\ \A i \in 1 .. Len(box) : a[i] = box[i]
  BY <1>2, AppendProperties
<1>4. DOMAIN a = 1 .. Len(box) + 1
  BY <1>3, LenProperties
<1>5. PICK n : n = Len(box) + 1
  OBVIOUS
<1>6. n \notin BatchesIn(box)
  BY <1>1, <1>5 DEF BatchesIn
<1>7. \A i : i \in 1 .. n <=> i \in 1 .. Len(box) \/ i = n
  BY <1>1, <1>5
<1>8. CASE m.type = "batch"
  <2>1. BatchesIn(a) = BatchesIn(box) \cup {n}
    BY <1>1, <1>3, <1>4, <1>5, <1>7, <1>8 DEF BatchesIn
  <2> QED BY <1>2, <1>6, <1>8, <2>1, BatchesFinite, FS_AddElement
<1>9. CASE m.type # "batch"
  <2>1. BatchesIn(a) = BatchesIn(box)
    BY <1>1, <1>3, <1>4, <1>5, <1>7, <1>9 DEF BatchesIn
  <2> QED BY <1>2, <1>9, <2>1
<1> QED BY <1>8, <1>9

LEMMA BatchesTail ==
    ASSUME NEW box \in Seq(FullMessages), box # <<>>
    PROVE  Cardinality(BatchesIn(Tail(box)))
              = IF Head(box).type = "batch" THEN Cardinality(BatchesIn(box)) - 1
                ELSE Cardinality(BatchesIn(box))
<1>1. Len(box) \in Nat /\ DOMAIN box = 1 .. Len(box) /\ Len(box) # 0
  BY LenProperties, EmptySeq
<1>2. PICK t : t = Tail(box)
  OBVIOUS
<1>3. t \in Seq(FullMessages) /\ Len(t) = Len(box) - 1
      /\ \A i \in 1 .. Len(t) : t[i] = box[i + 1]
  BY <1>2, HeadTailProperties
<1>4. DOMAIN t = 1 .. Len(t) /\ Len(t) \in Nat
  BY <1>3, LenProperties
<1>5. Head(box) = box[1] /\ 1 \in DOMAIN box
  BY <1>1
<1>6. PICK S, T : S = BatchesIn(box) \ {1} /\ T = BatchesIn(t)
  OBVIOUS
<1>7. IsFiniteSet(S)
      /\ Cardinality(S) = IF Head(box).type = "batch" THEN Cardinality(BatchesIn(box)) - 1
                          ELSE Cardinality(BatchesIn(box))
  <2>1. 1 \in BatchesIn(box) <=> Head(box).type = "batch"
    BY <1>5 DEF BatchesIn
  <2> QED BY <1>6, <2>1, BatchesFinite, FS_RemoveElement
<1>8. \A i : i \in T <=> i \in 1 .. Len(t) /\ box[i + 1].type = "batch"
  BY <1>3, <1>4, <1>6 DEF BatchesIn
<1>9. \A i : i \in S <=> i \in 2 .. Len(box) /\ box[i].type = "batch"
  <2>1. \A i : i \in 2 .. Len(box) <=> i \in 1 .. Len(box) /\ i # 1
    BY <1>1
  <2> QED BY <1>1, <1>6, <2>1 DEF BatchesIn
<1>10. ExistsBijection(S, T)
  <2>1. PICK f : f = [i \in S |-> i - 1]
    OBVIOUS
  <2>2. ASSUME NEW i \in S PROVE i - 1 \in T
    <3>1. i \in 2 .. Len(box) /\ i \in Int /\ box[i].type = "batch"
      BY <1>1, <1>9
    <3>2. i - 1 \in 1 .. Len(t) /\ i - 1 + 1 = i
      BY <1>1, <1>3, <1>4, <3>1
    <3> QED BY <1>8, <3>1, <3>2
  <2>3. f \in [S -> T]
    BY <2>1, <2>2
  <2>4. ASSUME NEW i \in S, NEW j \in S, f[i] = f[j] PROVE i = j
    <3>1. i \in Int /\ j \in Int
      BY <1>1, <1>9
    <3>2. i - 1 = j - 1
      BY <2>1, <2>4
    <3> QED BY <3>1, <3>2
  <2>5. ASSUME NEW j \in T PROVE \E i \in S : f[i] = j
    <3>1. j \in 1 .. Len(t) /\ j \in Int /\ box[j + 1].type = "batch"
      BY <1>4, <1>8
    <3>2. j + 1 \in 2 .. Len(box) /\ j + 1 - 1 = j
      BY <1>1, <1>3, <1>4, <3>1
    <3>3. PICK i : i = j + 1
      OBVIOUS
    <3>4. i \in S /\ i - 1 = j
      BY <1>9, <3>1, <3>2, <3>3
    <3> QED BY <2>1, <3>4
  <2>6. f \in Bijection(S, T)
    BY <2>3, <2>4, <2>5 DEF Bijection, Injection, Surjection, IsInjective
  <2> QED BY <2>6 DEF ExistsBijection
<1>11. Cardinality(T) = Cardinality(S)
  BY <1>7, <1>10, FS_Bijection
<1> QED BY <1>2, <1>6, <1>7, <1>11

-----------------------------------------------------------------------------
(* Steps that leave fewer blocks, or as many, out of reach.                 *)

LEMMA LeftCached == Left \subseteq DOMAIN cache
BY DEF Left

LEMMA LeftFinite ==
    ASSUME CacheOK
    PROVE  IsFiniteSet(Left) /\ Cardinality(Left) \in Nat
<1>1. Left \in SUBSET (1 .. MaxHeight)
  BY LeftCached DEF CacheOK
<1>2. IsFiniteSet(1 .. MaxHeight)
  <2>1. 1 \in Int /\ MaxHeight \in Int
    BY Bounds
  <2> QED BY <2>1, FS_Interval
<1>3. IsFiniteSet(Left)
  BY <1>1, <1>2, FS_Subset
<1> QED BY <1>3, FS_CardinalityType

LeftSmall == IsFiniteSet(Left) /\ Cardinality(Left) \in Nat

LEMMA LeftFiniteNext == CacheOK' => LeftSmall'
<1>1. CacheOK => LeftSmall
  BY LeftFinite DEF LeftSmall
<1> QED BY <1>1, PTL

LEMMA ToldCounts ==
    ASSUME Types
    PROVE  Told = BatchesIn(inbox) /\ Told' = BatchesIn(inbox')
           /\ Cardinality(Told) \in Nat
<1>1. Told' = BatchesIn(inbox')
  BY DEF Told, BatchesIn
<1> QED BY <1>1, ToldIs, BatchesFinite DEF Types, InboxOK

\* As many messages, and no other block left out of reach.
LEMMA ToldKept ==
    ASSUME Types, ToldInv, Left' \subseteq Left, Cardinality(Told') = Cardinality(Told)
    PROVE  ToldInv'
<1>1. IsFiniteSet(Left) /\ Cardinality(Left) \in Nat
  BY LeftFinite DEF Types
<1>2. IsFiniteSet(Left') /\ Cardinality(Left') <= Cardinality(Left)
  BY <1>1, FS_Subset
<1>3. Cardinality(Left') \in Nat /\ Cardinality(Told) \in Nat
  BY <1>2, FS_CardinalityType, ToldCounts
<1> QED BY <1>1, <1>2, <1>3 DEF ToldInv

LEMMA ConfirmTold ==
    ASSUME Types, ToldInv, NEW h \in 1 .. MaxHeight, Confirm(h)
    PROVE  ToldInv'
<1>1. Main(h) \in Chains /\ Len(Main(h)) = h
  <2>1. h \in Heights
    BY Bounds DEF Heights
  <2> QED BY <2>1, MainChain
<1>2. DOMAIN cache' = DOMAIN cache \cup {h}
  BY <1>1 DEF Confirm, Cached
<1>3. Left' \subseteq Left \cup {h}
  BY <1>2 DEF Left, Confirm
<1>4. Cardinality(Told') = Cardinality(Told) + 1
  <2>1. Batch \in FullMessages /\ Batch.type = "batch"
    BY DEF Batch, FullMessages
  <2> QED BY <2>1, BatchesAppend, ToldCounts DEF Confirm, Types, InboxOK
<1>5. IsFiniteSet(Left) /\ Cardinality(Left) \in Nat
  BY LeftFinite DEF Types
<1>6. IsFiniteSet(Left \cup {h}) /\ Cardinality(Left \cup {h}) <= Cardinality(Left) + 1
      /\ Cardinality(Left \cup {h}) \in Nat
  BY <1>5, FS_AddElement, FS_CardinalityType
<1>7. IsFiniteSet(Left') /\ Cardinality(Left') <= Cardinality(Left \cup {h})
  BY <1>3, <1>6, FS_Subset
<1>8. Cardinality(Left') \in Nat /\ Cardinality(Told) \in Nat
  BY <1>7, FS_CardinalityType, ToldCounts
<1> QED BY <1>4, <1>5, <1>6, <1>7, <1>8 DEF ToldInv

\* A handler: its message is taken, and the lowest block is within reach.
LEMMA BeginTold ==
    ASSUME Types, LineInv, ToldInv, BeginHandler
    PROVE  ToldInv'
<1>0. storager.pc = "idle" /\ disk' = disk /\ tip' = (IF tip = <<>> THEN disk[Me] ELSE tip)
      /\ inbox # <<>> /\ inbox' = Tail(inbox)
  BY DEF BeginHandler
<1>1. Head(inbox) \in FullMessages /\ CacheOK'
  BY BeginFacts
<1>2. Cardinality(Told') = IF Head(inbox).type = "batch" THEN Cardinality(Told) - 1
                           ELSE Cardinality(Told)
  BY <1>0, BatchesTail, ToldCounts DEF Types, InboxOK
<1>3. IsFiniteSet(Left) /\ Cardinality(Left) \in Nat /\ Cardinality(Told) \in Nat
      /\ Cardinality(Left) <= Cardinality(Told)
  BY LeftFinite, ToldCounts DEF Types, ToldInv
<1>4. IsFiniteSet(Left') /\ Cardinality(Left') \in Nat
  BY <1>1, LeftFiniteNext DEF LeftSmall
<1>5. Cardinality(Told') \in Nat
  <2>1. inbox' \in Seq(FullMessages)
    BY <1>0, HeadTailProperties DEF Types, InboxOK
  <2> QED BY <2>1, ToldCounts, BatchesFinite
<1>6. CASE DOMAIN cache' = {}
  <2>1. Left' = {}
    <3>1. Left' \subseteq DOMAIN cache'
      BY DEF Left
    <3> QED BY <1>6, <3>1
  <2>2. Cardinality(Left') = 0
    BY <2>1, FS_EmptySet
  <2> QED BY <1>5, <2>2 DEF ToldInv
<1>7. CASE DOMAIN cache' # {}
  <2>1. PICK D : D = DOMAIN cache'
    OBVIOUS
  <2>2. PICK l : l = LowestOf(D)
    OBVIOUS
  <2>3. D \subseteq 1 .. MaxHeight /\ D # {}
    BY <1>1, <1>7, <2>1 DEF CacheOK
  <2>h. PICK m : m = HighestOf(D)
    OBVIOUS
  <2>d. \A h \in D : h \in Nat
    BY <2>3, Bounds
  <2>4. /\ l \in D /\ l \in Nat /\ \A h \in D : l <= h
        /\ m \in D /\ m \in Nat /\ \A h \in D : h <= m
    <3>1. l \in D /\ \A h \in D : l <= h
      BY <2>2, <2>3, Lowest
    <3>2. m \in D /\ \A h \in D : h <= m
      BY <2>h, <2>3, Highest
    <3> QED BY <2>d, <3>1, <3>2
  <2>5. storager' = [pc |-> "loop", loop |-> LowestOf(DOMAIN cache'),
                     max |-> HighestOf(DOMAIN cache'), local |-> Len(tip')]
    BY <1>7, BeginFacts
  <2>6. storager'.pc = "loop" /\ storager'.loop = l /\ storager'.max = m
    BY <2>1, <2>2, <2>h, <2>5
  <2>7. PICK n : n = Len(tip') + 1
    OBVIOUS
  <2>8. n \in Nat
    BY <1>0, <2>7, ChainType, Bounds DEF Types, DiskOK, TipOK
  <2>10. Left' = {h \in D : h # l /\ h <= n}
    <3>1. Left' = {h \in D : h > m \/ (h # l /\ h <= n)}
      BY <2>1, <2>6, <2>7 DEF Left
    <3>2. \A h \in D : ~(h > m)
      BY <2>4, <2>d
    <3> QED BY <3>1, <3>2
  <2>11. Left = DOMAIN cache \/ (tip' = tip /\ Left = {h \in DOMAIN cache : h <= n})
    BY <1>0, <2>7 DEF Left
  <2>12. CASE l <= n
    <3>1. CASE Head(inbox).type = "batch"
      <4>1. D = DOMAIN cache
        BY <2>1, <3>1 DEF BeginHandler
      <4>2. l \in Left /\ Left' \subseteq Left \ {l}
        BY <2>4, <2>10, <2>11, <2>12, <4>1
      <4>3. IsFiniteSet(Left \ {l}) /\ Cardinality(Left \ {l}) = Cardinality(Left) - 1
        BY <1>3, <4>2, FS_RemoveElement
      <4>4. Cardinality(Left') <= Cardinality(Left) - 1
        BY <4>2, <4>3, FS_Subset
      <4> QED BY <1>2, <1>3, <1>4, <3>1, <4>4 DEF ToldInv
    <3>2. CASE Head(inbox).type # "batch"
      <4>1. PICK g : g = Len(Head(inbox).block)
        OBVIOUS
      <4>2. Head(inbox).type = "restore"
        BY <1>1, <3>2 DEF FullMessages
      <4>3. D = DOMAIN cache \cup {g}
        BY <2>1, <4>1, <4>2 DEF BeginHandler, Cached
      <4>4. CASE l = g
        <5>1. Left' \subseteq Left
          BY <2>10, <2>11, <4>3, <4>4
        <5> QED BY <1>2, <3>2, <5>1, ToldKept
      <4>5. CASE l # g
        <5>1. l \in Left /\ Left' \subseteq (Left \ {l}) \cup {g}
          BY <2>4, <2>10, <2>11, <2>12, <4>3, <4>5
        <5>2. IsFiniteSet(Left \ {l}) /\ Cardinality(Left \ {l}) = Cardinality(Left) - 1
          BY <1>3, <5>1, FS_RemoveElement
        <5>3. PICK Q, R : Q = Left \ {l} /\ R = Q \cup {g}
          OBVIOUS
        <5>q. IsFiniteSet(Q) /\ Cardinality(Q) = Cardinality(Left) - 1
          BY <5>2, <5>3
        <5>r. IsFiniteSet(R) /\ (\/ Cardinality(R) = Cardinality(Q)
                                \/ Cardinality(R) = Cardinality(Q) + 1)
          BY <5>3, <5>q, FS_AddElement
        <5>4. IsFiniteSet(R) /\ Cardinality(R) <= Cardinality(Left) /\ Cardinality(R) \in Nat
          BY <1>3, <5>q, <5>r, FS_CardinalityType
        <5>5. Cardinality(Left') <= Cardinality(R)
          BY <5>1, <5>3, <5>4, FS_Subset
        <5> QED BY <1>2, <1>3, <1>4, <3>2, <5>4, <5>5 DEF ToldInv
      <4> QED BY <4>4, <4>5
    <3> QED BY <3>1, <3>2
  <2>13. CASE ~(l <= n)
    <3>0. \A h \in D : ~(h <= n)
      BY <2>4, <2>d, <2>8, <2>13
    <3>1. Left' = {}
      BY <2>10, <3>0
    <3>2. Cardinality(Left') = 0
      BY <3>1, FS_EmptySet
    <3> QED BY <1>5, <3>2 DEF ToldInv
  <2> QED BY <2>12, <2>13
<1> QED BY <1>6, <1>7

LEMMA SameTold ==
    ASSUME inbox' = inbox
    PROVE  Cardinality(Told') = Cardinality(Told)
BY DEF Told

\* The bounds that a loop goes by.
LEMMA LoopHeights ==
    ASSUME Types, storager.pc = "loop"
    PROVE  /\ storager.loop \in Nat /\ storager.max \in Nat /\ storager.local \in Nat
           /\ Len(tip) \in Nat /\ \A h \in DOMAIN cache : h \in Nat
<1>1. /\ storager.loop \in 1 .. MaxHeight + 1 /\ storager.max \in 1 .. MaxHeight
      /\ storager.local \in Heights
  BY StoragerTypes DEF Types
<1>2. tip \in Chains /\ DOMAIN cache \subseteq 1 .. MaxHeight
  BY DEF Types, TipOK, CacheOK
<1>3. Len(tip) \in Nat
  BY <1>2, ChainType
<1> QED BY <1>1, <1>2, <1>3, Bounds DEF Heights

LEMMA EndTold ==
    ASSUME Types, LineInv, ToldInv, EndHandler \/ MeetGap
    PROVE  ToldInv'
<1>1. storager.pc = "loop" /\ inbox' = inbox /\ cache' = cache /\ tip' = tip /\ disk' = disk
      /\ storager' = IdleStorager
  BY DEF EndHandler, MeetGap, InLoop
<1>2. /\ storager.loop \in Nat /\ storager.max \in Nat /\ storager.local \in Nat
      /\ Len(tip) \in Nat /\ \A h \in DOMAIN cache : h \in Nat
  BY <1>1, LoopHeights
<1>3. Len(tip) <= storager.local /\ (tip = <<>> => disk[Me] = <<>>)
  BY <1>1 DEF LineInv
<1>4. \/ storager.loop > storager.max \/ storager.loop \notin DOMAIN cache
      \/ storager.loop > storager.local + 1
  BY DEF EndHandler, MeetGap
<1>5. Left' = {h \in DOMAIN cache : h <= Len(tip) + 1}
  BY <1>1, <1>3 DEF Left, IdleStorager
<1>6. Left = {h \in DOMAIN cache : h > storager.max \/ (h # storager.loop /\ h <= Len(tip) + 1)}
  BY <1>1 DEF Left
<1>7. Left' \subseteq Left
  <2>1. ASSUME NEW h \in DOMAIN cache, h <= Len(tip) + 1
        PROVE  h > storager.max \/ h # storager.loop
    BY <1>2, <1>3, <1>4, <2>1
  <2> QED BY <1>5, <1>6, <2>1
<1> QED BY <1>1, <1>7, SameTold, ToldKept

LEMMA SaveTold ==
    ASSUME Types, LineInv, ToldInv, SaveBlock
    PROVE  ToldInv'
<1>1. storager.pc = "loop" /\ inbox' = inbox /\ cache' = cache
      /\ storager'.pc = "saved" /\ storager'.max = storager.max
      /\ storager'.loop = storager.loop
  BY DEF SaveBlock, Due, InLoop
<1>2. /\ storager.loop \in Nat /\ storager.max \in Nat /\ Len(tip) \in Nat
      /\ \A h \in DOMAIN cache : h \in Nat
  BY <1>1, LoopHeights
<1>3. storager.loop = Len(tip) + 1
  <2>1. Len(Entry.block) = storager.loop /\ Len(Entry.block) = Len(tip) + 1
    BY SaveFacts
  <2> QED BY <2>1
<1>4. Left' = {h \in DOMAIN cache : h > storager.max \/ h < storager.loop}
  BY <1>1 DEF Left
<1>5. Left = {h \in DOMAIN cache : h > storager.max \/ (h # storager.loop /\ h <= Len(tip) + 1)}
  BY <1>1 DEF Left
<1>6. Left' \subseteq Left
  BY <1>2, <1>3, <1>4, <1>5
<1> QED BY <1>1, <1>6, SameTold, ToldKept

LEMMA RenewTold ==
    ASSUME Types, LineInv, ToldInv, RenewStatus
    PROVE  ToldInv'
<1>1. storager.pc = "saved" /\ inbox' = inbox /\ tip' = storager.block
      /\ cache' = Uncached(storager.loop)
      /\ storager' = NextHeight(storager.loop)
  BY DEF RenewStatus
<1>2. storager'.pc = "loop" /\ storager'.max = storager.max
      /\ storager'.loop = storager.loop + 1
  BY <1>1 DEF NextHeight
<1>3. DOMAIN cache' = DOMAIN cache \ {storager.loop}
  BY <1>1 DEF Uncached
<1>4. storager.loop \in Nat /\ \A h \in DOMAIN cache : h \in Nat
  <2>1. storager.loop \in 1 .. MaxHeight /\ DOMAIN cache \subseteq 1 .. MaxHeight
    BY <1>1, StoragerTypes DEF Types, CacheOK
  <2> QED BY <2>1, Bounds
<1>5. Len(tip') = storager.loop
  BY <1>1 DEF LineInv
<1>6. Left' = {h \in DOMAIN cache \ {storager.loop} :
                 h > storager.max \/ (h # storager.loop + 1 /\ h <= storager.loop + 1)}
  BY <1>2, <1>3, <1>5 DEF Left
<1>7. Left = {h \in DOMAIN cache : h > storager.max \/ h < storager.loop}
  BY <1>1 DEF Left
<1>8. Left' \subseteq Left
  BY <1>4, <1>6, <1>7
<1> QED BY <1>1, <1>8, SameTold, ToldKept

LEMMA DropTold ==
    ASSUME Types, LineInv, ToldInv, DropBlock \/ PassBlock
    PROVE  ToldInv'
<1>1. storager.pc = "loop" /\ inbox' = inbox /\ tip' = tip
      /\ storager' = NextHeight(storager.local)
  BY DEF DropBlock, PassBlock, Due, InLoop
<1>2. storager'.pc = "loop" /\ storager'.max = storager.max
      /\ storager'.loop = storager.loop + 1
  BY <1>1 DEF NextHeight
<1>3. /\ storager.loop \in Nat /\ Len(tip) \in Nat /\ \A h \in DOMAIN cache : h \in Nat
  BY <1>1, LoopHeights
<1>4. \/ DOMAIN cache' = DOMAIN cache \ {storager.loop}
      \/ DOMAIN cache' = DOMAIN cache /\ storager.loop > Len(tip) + 1
  BY DEF DropBlock, PassBlock, Uncached
<1>5. Left' = {h \in DOMAIN cache' :
                 h > storager.max \/ (h # storager.loop + 1 /\ h <= Len(tip) + 1)}
  BY <1>1, <1>2 DEF Left
<1>6. Left = {h \in DOMAIN cache : h > storager.max \/ (h # storager.loop /\ h <= Len(tip) + 1)}
  BY <1>1 DEF Left
<1>7. Left' \subseteq Left
  BY <1>3, <1>4, <1>5, <1>6
<1> QED BY <1>1, <1>7, SameTold, ToldKept

\* The requester loads the status, or takes blocks off disk and status: what is out of
\* reach of the storager only becomes less.
LEMMA StatusTold ==
    ASSUME Types, Types', LineInv, ToldInv,
           cache' = cache, storager' = storager, inbox' = inbox,
           tip' = <<>> /\ disk'[Me] # <<>> => tip = <<>> /\ disk[Me] # <<>>,
           tip # <<>> \/ disk[Me] = <<>> => Len(tip') <= Len(tip)
    PROVE  ToldInv'
<1>1. PICK n, k : n = Len(tip) + 1 /\ k = Len(tip') + 1
  OBVIOUS
<1>2. n \in Nat /\ k \in Nat
      /\ (tip # <<>> \/ disk[Me] = <<>> => k <= n)
      /\ \A h \in DOMAIN cache : h \in Nat
  <2>1. tip \in Chains /\ tip' \in Chains /\ DOMAIN cache \subseteq 1 .. MaxHeight
    BY DEF Types, TipOK, CacheOK
  <2>2. Len(tip) \in Nat /\ Len(tip') \in Nat
    BY <2>1, ChainType
  <2> QED BY <1>1, <2>1, <2>2, Bounds
<1>3. CASE storager.pc = "idle"
  <2>1. CASE tip = <<>> /\ disk[Me] # <<>>
    <3>1. Left = DOMAIN cache
      BY <1>3, <2>1 DEF Left
    <3>2. Left' \subseteq DOMAIN cache
      BY DEF Left
    <3> QED BY <3>1, <3>2, SameTold, ToldKept
  <2>2. CASE ~(tip = <<>> /\ disk[Me] # <<>>)
    <3>1. Left = {h \in DOMAIN cache : h <= n}
      BY <1>1, <1>3, <2>2 DEF Left
    <3>2. Left' = {h \in DOMAIN cache : h <= k}
      BY <1>1, <1>3, <2>2 DEF Left
    <3>3. Left' \subseteq Left
      BY <1>2, <2>2, <3>1, <3>2
    <3> QED BY <3>3, SameTold, ToldKept
  <2> QED BY <2>1, <2>2
<1>4. CASE storager.pc = "loop"
  <2>1. k <= n
    BY <1>2, <1>4 DEF LineInv
  <2>2. Left = {h \in DOMAIN cache : h > storager.max \/ (h # storager.loop /\ h <= n)}
    BY <1>1, <1>4 DEF Left
  <2>3. Left' = {h \in DOMAIN cache : h > storager.max \/ (h # storager.loop /\ h <= k)}
    BY <1>1, <1>4 DEF Left
  <2>4. Left' \subseteq Left
    BY <1>2, <2>1, <2>2, <2>3
  <2> QED BY <2>4, SameTold, ToldKept
<1>5. CASE storager.pc = "saved"
  <2>1. Left' = Left
    BY <1>5 DEF Left
  <2> QED BY <2>1, SameTold, ToldKept
<1> QED BY <1>3, <1>4, <1>5, StoragerTypes DEF Types

LEMMA AskTold ==
    ASSUME Types, LineInv, ToldInv, AskChainInfos
    PROVE  ToldInv'
<1>1. /\ cache' = cache /\ storager' = storager /\ inbox' = inbox /\ disk' = disk
      /\ tip' = IF tip = <<>> THEN disk[Me] ELSE tip
  BY DEF AskChainInfos
<1>2. Types' /\ Len(tip) \in Nat
  BY AskTypes, ChainType DEF Types, TipOK
<1>3. tip # <<>> \/ disk[Me] = <<>> => Len(tip') <= Len(tip)
  <2>1. tip # <<>> \/ disk[Me] = <<>> => tip' = tip
    BY <1>1
  <2> QED BY <1>2, <2>1
<1> QED BY <1>1, <1>2, <1>3, StatusTold

LEMMA RollBackTold ==
    ASSUME Types, LineInv, ToldInv, ActRollBack, storager.pc # "saved"
    PROVE  ToldInv'
<1>1. cache' = cache /\ storager' = storager /\ inbox' = inbox
  BY DEF ActRollBack
<1>2. /\ LeftOnDisk \in Chains /\ IsPart(LeftOnDisk, disk[Me]) /\ disk'[Me] = LeftOnDisk
      /\ tip' = tip \/ tip' = LeftOnDisk
  BY RollBackFacts
<1>3. Types' /\ disk[Me] \in Chains /\ tip \in Chains
  BY ActTypes, Bounds DEF Types, DiskOK, TipOK
<1>4. /\ Len(tip) \in Nat /\ Len(LeftOnDisk) \in Nat /\ Len(disk[Me]) \in Nat
      /\ (tip = <<>> <=> Len(tip) = 0) /\ (disk[Me] = <<>> <=> Len(disk[Me]) = 0)
      /\ (LeftOnDisk = <<>> <=> Len(LeftOnDisk) = 0) /\ Len(LeftOnDisk) <= Len(disk[Me])
  BY <1>2, <1>3, ChainType DEF IsPart
<1>5. tip = <<>> \/ Len(disk[Me]) <= Len(tip)
  BY DEF LineInv, IsPart
<1>6. tip # <<>> \/ disk[Me] = <<>> => Len(tip') <= Len(tip)
  <2>1. tip # <<>> \/ disk[Me] = <<>> => Len(LeftOnDisk) <= Len(tip)
    BY <1>4, <1>5
  <2> QED BY <1>2, <1>4, <2>1
<1>7. tip' = <<>> /\ disk'[Me] # <<>> => tip = <<>> /\ disk[Me] # <<>>
  BY <1>2, <1>4
<1> QED BY <1>1, <1>3, <1>6, <1>7, StatusTold

LEMMA FetchTold ==
    ASSUME Types, ToldInv, FetchBlock
    PROVE  ToldInv'
<1>1. requester.pc = "fetching"
  BY DEF FetchBlock
<1>2. PICK m : m = Restore(SubSeq(disk[requester.server], 1, requester.next), requester.server)
  OBVIOUS
<1>3. m \in FullMessages /\ m.type = "restore"
  <2>1. /\ requester.next \in 1 .. MaxHeight /\ requester.server \in Nodes
        /\ disk[requester.server] \in Chains
        /\ requester.next <= Len(disk[requester.server])
    BY <1>1, FetchTypes DEF FetchBlock, Types, DiskOK
  <2>2. PICK b : b = SubSeq(disk[requester.server], 1, requester.next)
    OBVIOUS
  <2>3. requester.next \in 0 .. Len(disk[requester.server]) /\ requester.next # 0
    BY <2>1, ChainType, Bounds
  <2>4. b \in Chains /\ Len(b) = requester.next
    BY <2>1, <2>2, <2>3, First
  <2>5. b # <<>>
    BY <2>3, <2>4, ChainType
  <2> QED BY <1>2, <2>1, <2>2, <2>4, <2>5 DEF Restore, FullMessages
<1>4. inbox' = Append(inbox, m)
  BY <1>2 DEF FetchBlock
<1>5. Cardinality(Told') = Cardinality(Told)
  BY <1>3, <1>4, BatchesAppend, ToldCounts DEF Types, InboxOK
<1>6. Left' = Left
  BY DEF Left, FetchBlock
<1> QED BY <1>5, <1>6, ToldKept

\* The steps that the blocks out of reach and the messages do not depend on.
LEMMA OtherTold ==
    ASSUME Types, ToldInv, cache' = cache, storager' = storager, inbox' = inbox,
           storager.pc = "saved" \/ (tip' = tip /\ disk'[Me] = disk[Me])
    PROVE  ToldInv'
<1>1. Left' = Left
  BY DEF Left
<1> QED BY <1>1, SameTold, ToldKept

LEMMA RestartTold ==
    ASSUME Restart
    PROVE  ToldInv'
<1>1. DOMAIN cache' = {} /\ inbox' = <<>>
  BY DEF Restart, NoBlocks
<1>2. Left' = {} /\ Told' = {}
  <2>1. DOMAIN inbox' = {}
    BY <1>1, EmptyBox, LenProperties
  <2> QED BY <1>1, <2>1 DEF Left, Told
<1>3. Cardinality(Left') = 0 /\ Cardinality(Told') = 0
  BY <1>2, FS_EmptySet
<1> QED BY <1>3 DEF ToldInv

LEMMA InitTold ==
    ASSUME Init
    PROVE  ToldInv
<1>1. DOMAIN cache = {} /\ inbox = <<>>
  BY DEF Init, NoBlocks
<1>2. Left = {} /\ Told = {}
  <2>1. DOMAIN inbox = {}
    BY <1>1, EmptyBox, LenProperties
  <2> QED BY <1>1, <2>1 DEF Left, Told
<1>3. Cardinality(Left) = 0 /\ Cardinality(Told) = 0
  BY <1>2, FS_EmptySet
<1> QED BY <1>3 DEF ToldInv

LEMMA StepTold ==
    ASSUME Types, PeersInv, LineInv, ToldInv, Next
    PROVE  ToldInv'
<1>1. CASE \E h \in 1 .. MaxHeight : Confirm(h)
  BY <1>1, ConfirmTold
<1>2. CASE Storager
  BY <1>2, BeginTold, EndTold, SaveTold, RenewTold, DropTold DEF Storager
<1>3. CASE AskChainInfos \/ FetchBlock
  BY <1>3, AskTold, FetchTold
<1>4. CASE ActRollBack
  <2>1. CASE storager.pc = "saved"
    BY <1>4, <2>1, OtherTold DEF ActRollBack
  <2>2. CASE storager.pc # "saved"
    BY <1>4, <2>2, RollBackTold
  <2> QED BY <2>1, <2>2
<1>5. CASE Restart
  BY <1>5, RestartTold
<1>6. CASE Peers
  <2>1. cache' = cache /\ storager' = storager /\ inbox' = inbox
    BY <1>6 DEF Peers, NewBlock, PeerStores, mine
  <2>2. tip' = tip /\ disk'[Me] = disk[Me]
    <3>1. CASE NewBlock
      <4>1. disk' = disk \/ net = 0
        BY <3>1 DEF NewBlock
      <4> QED BY <3>1, <4>1, FirstBlock, Bounds DEF NewBlock, mine
    <3>2. CASE \E p \in Nodes : PeerStores(p)
      <4>1. PICK p \in Nodes : PeerStores(p)
        BY <3>2
      <4>2. p # Me
        BY <4>1 DEF PeerStores
      <4> QED BY <4>1, <4>2, PeerGrows, Bounds DEF PeerStores, mine
    <3> QED BY <1>6, <3>1, <3>2 DEF Peers
  <2> QED BY <2>1, <2>2, OtherTold
<1>7. CASE \/ Join \/ AskedTooHigh \/ TimerFires \/ AskBlocks \/ Analyse \/ AnalyseAgain
           \/ ActFetch \/ SkipBlock \/ FetchTimeout
           \/ \E p \in Nodes : AnswerChainInfo(p) \/ LoseChainInfo(p)
  <2>1. /\ cache' = cache /\ storager' = storager /\ inbox' = inbox /\ tip' = tip
        /\ disk' = disk
    BY <1>7 DEF Join, AskedTooHigh, TimerFires, AskBlocks, Analyse, AnalyseAgain, ActFetch,
                SkipBlock, FetchTimeout, AnswerChainInfo, LoseChainInfo
  <2> QED BY <2>1, OtherTold
<1> QED BY <1>1, <1>2, <1>3, <1>4, <1>5, <1>6, <1>7 DEF Next, Requester

-----------------------------------------------------------------------------
(* The theorems.                                                            *)

LEMMA InitInvariant ==
    ASSUME Init
    PROVE  Invariant /\ StatusIsDisk
<1>1. TypeInv
  BY InitTypes, TypesEnough
<1>2. PlanInv
  BY DEF Init, IdleRequester, PlanInv
<1> QED BY <1>1, <1>2, InitPeers, InitLine, InitTold DEF Invariant

LEMMA TypesEnoughNext == TypeInv' <=> Types'
BY TypesEnough, PTL

LEMMA StepInvariant ==
    ASSUME Invariant, StatusIsDisk, Next
    PROVE  Invariant' /\ StatusIsDisk'
<1>1. Types /\ PeersInv /\ LineInv /\ ToldInv /\ PlanInv
  BY TypesEnough DEF Invariant
<1>2. TypeInv'
  BY <1>1, StepTypes, TypesEnoughNext
<1>3. PeersInv' /\ LineInv' /\ StatusIsDisk' /\ ToldInv' /\ PlanInv'
  BY <1>1, StepPeers, StepLine, StepTold, StepPlan
<1> QED BY <1>2, <1>3 DEF Invariant

LEMMA StutterInvariant ==
    ASSUME Invariant, StatusIsDisk, UNCHANGED vars
    PROVE  Invariant' /\ StatusIsDisk'
<1>1. Types /\ PeersInv /\ LineInv /\ ToldInv /\ PlanInv
  BY TypesEnough DEF Invariant
<1>2. TypeInv'
  BY <1>1, StutterTypes, TypesEnoughNext
<1>3. PeersInv' /\ LineInv' /\ StatusIsDisk'
  BY <1>1 DEF vars, PeersInv, LineInv, StatusIsDisk
<1>4. ToldInv'
  BY <1>1, OtherTold DEF vars
<1>5. PlanInv'
  <2>1. disk' = disk /\ tip' = tip /\ requester' = requester
    BY DEF vars
  <2> QED BY <1>1, <2>1 DEF PlanInv, Against, Holders
<1> QED BY <1>2, <1>3, <1>4, <1>5 DEF Invariant

\* The invariant of a node that synchronises, and StatusIsDisk with it.
THEOREM InvariantCorrect == Spec => [](Invariant /\ StatusIsDisk)
<1>1. Init => Invariant /\ StatusIsDisk
  BY InitInvariant
<1>2. (Invariant /\ StatusIsDisk) /\ [Next]_vars => (Invariant /\ StatusIsDisk)'
  BY StepInvariant, StutterInvariant
<1> QED BY <1>1, <1>2, PTL DEF Spec

\* The variables of storager and requester have their types, and a cached block is
\* cached at its height, whatever the messages and however many fit into a mailbox.
THEOREM TypeCorrect == Spec => []TypeOK
<1>1. Invariant => TypeOK
  BY DEF Invariant, TypeInv
<1> QED BY <1>1, InvariantCorrect, PTL

\* The status in memory is the last block on disk, but in the windows that
\* StatusIsDisk names: before it is loaded, between the two steps of a save, and
\* after a rollback that has left them apart.
THEOREM StatusCorrect == Spec => []StatusIsDisk
BY InvariantCorrect, PTL

\* When the storager rests no block that fits on the status in memory is in the
\* cache: none is out of reach that no message tells of.
THEOREM ForgottenCorrect == Spec => []NoFittingBlockForgotten
<1>1. Invariant => NoFittingBlockForgotten
  <2> SUFFICES ASSUME Invariant, storager.pc = "idle", inbox = <<>>, NEW h \in DOMAIN cache,
                      h = Len(tip) + 1
               PROVE  FALSE
    BY DEF NoFittingBlockForgotten
  <2>1. Types /\ ToldInv
    BY TypesEnough DEF Invariant
  <2>2. Told = {}
    <3>1. DOMAIN inbox = {}
      BY EmptyBox, LenProperties
    <3> QED BY <3>1 DEF Told
  <2>3. IsFiniteSet(Left) /\ Cardinality(Left) \in Nat
    BY <2>1, LeftFinite DEF Types
  <2>4. Cardinality(Left) = 0
    <3>1. Cardinality(Told) = 0
      BY <2>2, FS_EmptySet
    <3> QED BY <2>1, <2>3, <3>1 DEF ToldInv
  <2>5. Left = {}
    BY <2>3, <2>4, FS_EmptySet
  <2>6. h \in Left
    <3>1. Len(tip) \in Nat /\ h <= Len(tip) + 1
      BY <2>1, ChainType DEF Types, TipOK
    <3> QED BY <3>1 DEF Left
  <2> QED BY <2>5, <2>6
<1> QED BY <1>1, InvariantCorrect, PTL

\* A synchronisation after start-up takes no block off the node that a quorum has
\* stored, however long its rollback waits.
THEOREM RollsBackCorrect == Spec => RollsBackForksOnly
<1>1. ASSUME Invariant, [Next]_vars,
             requester.pc = "acting", ~requester.startup, requester.to # 0,
             NEW h \in Len(disk'[Me]) + 1 .. Len(disk[Me])
      PROVE  ~IsQuorum(Holders(SubSeq(disk[Me], 1, h)))
  <2>1. Types /\ PeersInv /\ LineInv /\ PlanInv
    BY <1>1, TypesEnough DEF Invariant
  <2>2. CASE Next
    BY <1>1, <2>1, <2>2, StepRollBack
  <2>3. CASE UNCHANGED vars
    <3>1. disk'[Me] = disk[Me]
      BY <2>3 DEF vars
    <3>2. Len(disk[Me]) \in Nat
      BY <2>1, Bounds, ChainType DEF Types, DiskOK
    <3> QED BY <1>1, <3>1, <3>2
  <2> QED BY <1>1, <2>2, <2>3
<1>2. Invariant /\ [Next]_vars =>
         [requester.pc = "acting" /\ ~requester.startup /\ requester.to # 0 =>
             \A h \in Len(disk'[Me]) + 1 .. Len(disk[Me]) :
                ~IsQuorum(Holders(SubSeq(disk[Me], 1, h)))]_vars
  BY <1>1
<1> QED BY <1>2, InvariantCorrect, PTL DEF Spec, RollsBackForksOnly
=============================================================================
