--------------------------- MODULE StateLogProofs ---------------------------
(***************************************************************************)
(* What saving and rolling back a block do to the world state, for every   *)
(* sequence of transaction results.                                        *)
(***************************************************************************)
EXTENDS StateLog, FiniteSetTheorems, TLAPS

\* Every non-empty finite set of naturals has a last element.
LEMMA LastExists ==
    ASSUME NEW T \in SUBSET Nat, IsFiniteSet(T), T # {}
    PROVE  \E i \in T : IsLast(i, T)
<1> DEFINE Up(x) == {y \in T : x <= y}
           F == {Up(x) : x \in T}
<1>1. F \subseteq FiniteSubsetsOf(T) /\ F # {}
  <2>1. ASSUME NEW x \in T PROVE Up(x) \in FiniteSubsetsOf(T)
    <3>1. Up(x) \in SUBSET T
      OBVIOUS
    <3> HIDE DEF Up
    <3> QED BY <3>1, FS_Subset DEF FiniteSubsetsOf
  <2> QED BY <2>1
<1>2. IsWellFoundedOn(StrictSubsetOrdering(T), FiniteSubsetsOf(T))
  BY FS_StrictSubsetOrderingWellFounded
<1>3. PICK m \in F : \A u \in F : <<u, m>> \notin StrictSubsetOrdering(T)
  <2> HIDE DEF F
  <2> QED BY <1>1, <1>2, WFMin
<1>4. PICK x \in T : m = Up(x)
  OBVIOUS
<1>5. ASSUME NEW y \in T, ~(y <= x) PROVE FALSE
  <2>1. x < y /\ x \in Nat /\ y \in Nat
    BY <1>5
  <2>2. x \in Up(x)
    BY <2>1
  <2>3. x \notin Up(y)
    BY <2>1
  <2>4. ASSUME NEW z \in Up(y) PROVE z \in Up(x)
    <3>1. z \in T /\ z \in Nat /\ y <= z
      OBVIOUS
    <3> QED BY <2>1, <3>1
  <2>5. Up(x) \subseteq T /\ Up(y) \subseteq T
    OBVIOUS
  <2>6. <<Up(y), Up(x)>> \in StrictSubsetOrdering(T)
    <3> HIDE DEF Up
    <3> QED BY <2>2, <2>3, <2>4, <2>5 DEF StrictSubsetOrdering
  <2>7. Up(y) \in F
    OBVIOUS
  <2> QED
    <3> HIDE DEF Up, F
    <3> QED BY <2>6, <2>7, <1>3, <1>4
<1> QED BY <1>5 DEF IsLast

\* Every non-empty set of transactions of a block has a last one.
LEMMA LastOfBlock ==
    ASSUME NEW rs \in Seq(Results), NEW T \in SUBSET DOMAIN rs, T # {}
    PROVE  /\ (CHOOSE i \in T : IsLast(i, T)) \in T
           /\ IsLast(CHOOSE i \in T : IsLast(i, T), T)
<1>1. T \subseteq 1 .. Len(rs) /\ Len(rs) \in Nat
  OBVIOUS
<1>2. IsFiniteSet(T)
  BY <1>1, FS_Interval, FS_Subset
<1>3. \E i \in T : IsLast(i, T)
  BY <1>1, <1>2, LastExists
<1> QED BY <1>3

-----------------------------------------------------------------------------
\* What the maps of a result hold.
LEMMA ResultParts ==
    ASSUME NEW r \in Results
    PROVE  /\ DOMAIN r.set \subseteq Keys /\ DOMAIN r.del \subseteq Keys
           /\ \A k \in DOMAIN r.set : r.set[k] \in Values
           /\ \A k \in DOMAIN r.del : r.del[k] \in Values \cup {NoVal}
           /\ \A k \in DOMAIN r.get : r.get[k] \in Values \cup {NoVal}
BY DEF Results, MapsOf

\* A map on some of the keys.
LEMMA MapsOfMember ==
    ASSUME NEW V, NEW D \in SUBSET Keys, NEW mp \in [D -> V]
    PROVE  mp \in MapsOf(V)
BY DEF MapsOf

\* Saving a block leaves a world state.
LEMMA SavedStateType ==
    ASSUME NEW ws \in States, NEW rs \in Seq(Results)
    PROVE  SavedState(ws, rs) \in States
<1> SUFFICES ASSUME NEW k \in Keys
             PROVE SavedState(ws, rs)[k] \in Values \cup {NoVal}
  BY DEF SavedState, States
<1> DEFINE setters == {i \in DOMAIN rs : k \in DOMAIN rs[i].set}
<1>1. CASE setters # {}
  <2>1. (CHOOSE i \in setters : IsLast(i, setters)) \in setters
    BY <1>1, LastOfBlock
  <2>2. rs[CHOOSE i \in setters : IsLast(i, setters)].set[k] \in Values
    BY <2>1, ResultParts
  <2> QED BY <1>1, <2>2 DEF SavedState, States
<1>2. CASE setters = {}
  BY <1>2 DEF SavedState, States
<1> QED BY <1>1, <1>2

\* Rolling a block back leaves a world state.
LEMMA RolledBackStateType ==
    ASSUME NEW ws \in States, NEW rs \in Seq(Results)
    PROVE  RolledBackState(ws, rs) \in States
<1> SUFFICES ASSUME NEW k \in Keys
             PROVE RolledBackState(ws, rs)[k] \in Values \cup {NoVal}
  BY DEF RolledBackState, States
<1>1. CASE Writers(rs, k) # {}
  <2> DEFINE last == CHOOSE i \in Writers(rs, k) : IsLast(i, Writers(rs, k))
  <2>1. last \in Writers(rs, k)
    BY <1>1, LastOfBlock DEF Writers
  <2>2. rs[last] \in Results
    BY <2>1 DEF Writers
  <2>3. OldValue(rs[last], k) \in Values \cup {NoVal}
    <3> HIDE DEF last
    <3> QED BY <2>2, ResultParts DEF OldValue
  <2> QED BY <1>1, <2>3 DEF RolledBackState
<1>2. CASE Writers(rs, k) = {}
  BY <1>2 DEF RolledBackState, States
<1> QED BY <1>1, <1>2

-----------------------------------------------------------------------------
\* Rolling a block back undoes saving it if no key has two writers in the block
\* and each writer logged the value the block found: rollbackOperateLog is
\* right about the blocks for which every log tells the truth.
THEOREM RollbackUndoesSave ==
    ASSUME NEW ws \in States, NEW rs \in Seq(Results),
           \A k \in Keys : \A i, j \in Writers(rs, k) : i = j,
           \A k \in Keys : \A i \in Writers(rs, k) : OldValue(rs[i], k) = ws[k]
    PROVE  RolledBackState(SavedState(ws, rs), rs) = ws
<1> SUFFICES ASSUME NEW k \in Keys
             PROVE RolledBackState(SavedState(ws, rs), rs)[k] = ws[k]
  BY DEF RolledBackState, States
<1>1. CASE Writers(rs, k) = {}
  <2>1. RolledBackState(SavedState(ws, rs), rs)[k] = SavedState(ws, rs)[k]
    BY <1>1 DEF RolledBackState
  <2>2. \A i \in DOMAIN rs : k \notin DOMAIN rs[i].set /\ k \notin DOMAIN rs[i].del
    BY <1>1 DEF Writers, Touches
  <2>3. SavedState(ws, rs)[k] = ws[k]
    BY <2>2 DEF SavedState
  <2> QED BY <2>1, <2>3
<1>2. CASE Writers(rs, k) # {}
  <2> DEFINE last == CHOOSE i \in Writers(rs, k) : IsLast(i, Writers(rs, k))
  <2>1. last \in Writers(rs, k)
    BY <1>2, LastOfBlock DEF Writers
  <2>2. RolledBackState(SavedState(ws, rs), rs)[k] = OldValue(rs[last], k)
    BY <1>2 DEF RolledBackState
  <2> QED BY <2>1, <2>2
<1> QED BY <1>1, <1>2

=============================================================================
