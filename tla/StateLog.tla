------------------------------ MODULE StateLog ------------------------------
(***************************************************************************)
(* The world state of a node and the two places where BlockStorager turns  *)
(* the transaction results of a block into key/value writes: getOperateLog *)
(* when the block is saved, rollbackOperateLog when it is rolled back.     *)
(*                                                                         *)
(* A TransactionResult is a record of three maps, as in rc2.proto: the     *)
(* values read, the values written and, for each deleted key, the value it *)
(* had.  Results are a sequence, one per transaction of the block.         *)
(***************************************************************************)
EXTENDS Integers, Sequences

CONSTANTS Keys,      \* world-state keys
          Values,    \* non-empty byte strings
          NoVal      \* an absent key, and ByteString.EMPTY in a result

ASSUME NoValAssumption == NoVal \notin Values

States == [Keys -> Values \cup {NoVal}]

\* Finite maps from keys to values.
MapsOf(V) == UNION {[D -> V] : D \in SUBSET Keys}

Results == [get : MapsOf(Values \cup {NoVal}),
            set : MapsOf(Values),
            del : MapsOf(Values \cup {NoVal})]

NoMap == [k \in {} |-> NoVal]

\* The result of a transaction that failed: every map is empty.
FailedResult == [get |-> NoMap, set |-> NoMap, del |-> NoMap]

Touches(r, k) == k \in DOMAIN r.set \cup DOMAIN r.del

\* The indices of the transactions of a block that write or delete k.
Writers(rs, k) == {i \in DOMAIN rs : Touches(rs[i], k)}

IsLast(i, S) == i \in S /\ \A j \in S : j <= i

-----------------------------------------------------------------------------
(***************************************************************************)
(* What saving a block does to the world state.  getOperateLog gathers all *)
(* sets of the block into one map (the later transaction wins) and all     *)
(* deletes into one array; saveBlock puts the map into the batch and only  *)
(* then the deletes.                                                       *)
(***************************************************************************)

\* A saveBlock that would apply the deletes before the sets.
MutSetsLast(ws, rs) ==
    [k \in Keys |->
        LET setters == {i \in DOMAIN rs : k \in DOMAIN rs[i].set}
        IN  IF setters # {}
            THEN rs[CHOOSE i \in setters : IsLast(i, setters)].set[k]
            ELSE IF \E i \in DOMAIN rs : k \in DOMAIN rs[i].del
                 THEN NoVal ELSE ws[k]]

\* A hash map in which the first of two writes would win.
MutFirstSetWins(ws, rs) ==
    [k \in Keys |->
        LET setters == {i \in DOMAIN rs : k \in DOMAIN rs[i].set}
        IN  IF \E i \in DOMAIN rs : k \in DOMAIN rs[i].del THEN NoVal
            ELSE IF setters = {} THEN ws[k]
            ELSE rs[CHOOSE i \in setters : \A j \in setters : i <= j].set[k]]

SavedState(ws, rs) ==
    [k \in Keys |->
        LET setters == {i \in DOMAIN rs : k \in DOMAIN rs[i].set}
        IN  IF \E i \in DOMAIN rs : k \in DOMAIN rs[i].del THEN NoVal
            ELSE IF setters = {} THEN ws[k]
            ELSE rs[CHOOSE i \in setters : IsLast(i, setters)].set[k]]

(***************************************************************************)
(* What rolling a block back does.  rollbackOperateLog walks the results   *)
(* from the first to the last; for a written key it puts the value of      *)
(* states_get back (and deletes the key if there is none), for a deleted   *)
(* key the value kept in states_del.  The batch keeps the last operation   *)
(* on a key, so the last transaction that touches a key decides.           *)
(***************************************************************************)

OldValue(r, k) ==
    IF k \in DOMAIN r.del THEN r.del[k]
    ELSE IF k \in DOMAIN r.get THEN r.get[k] ELSE NoVal

\* A rollback that would leave the deleted keys alone.
MutKeepDeleted(ws, rs) ==
    [k \in Keys |->
        LET setters == {i \in DOMAIN rs : k \in DOMAIN rs[i].set}
        IN  IF setters = {} THEN ws[k]
            ELSE OldValue(rs[CHOOSE i \in setters : IsLast(i, setters)], k)]

RolledBackState(ws, rs) ==
    [k \in Keys |->
        LET writers == Writers(rs, k)
        IN  IF writers = {} THEN ws[k]
            ELSE OldValue(rs[CHOOSE i \in writers : IsLast(i, writers)], k)]

=============================================================================
