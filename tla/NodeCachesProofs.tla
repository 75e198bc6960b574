--------------------------- MODULE NodeCachesProofs ---------------------------
(***************************************************************************)
(* What is cached of the world state and what permission checks answer,    *)
(* for any authorizations, vote lists and threads and any schedule of      *)
(* blocks, rollbacks, failures and restarts.                               *)
(*                                                                         *)
(* A save or rollback changes the world in what its write is about only    *)
(* (WorldInv), and has dropped that from the caches before it commits      *)
(* (DropInv).  A check under way that nothing has overtaken holds what the *)
(* world does at every stage (Sound), which is what it caches and answers. *)
(* The vote list is about the one change that its thread has not applied   *)
(* yet (VoteInv).                                                          *)
(***************************************************************************)
EXTENDS NodeCaches, FiniteSetTheorems, SequenceTheorems, TLAPS

\* Worlds as contracts leave them, and the records of saves and undo.
GoodWorlds == {w \in Worlds : w.valid \subseteq w.granted}
EntryKeys == {"signer", "idx", "auth", "votes"}
UndoRecords == [write : Writes, before : GoodWorlds]
SaveRecords == [op : {"save", "rollback"}, write : Writes, new : GoodWorlds,
                todo : SUBSET EntryKeys]
PreloadRecords == [kind : {"grant", "flip"}, on : Auths, granted : SUBSET Auths,
                   status : Statuses]
ReaderRecords == [pc : Stages, over : BOOLEAN, op : Auths, acc : SUBSET Auths,
                  todo : SUBSET Auths, at : Auths, value : Statuses,
                  leader : SUBSET Readers, raced : BOOLEAN]
ThreadRecords == [id : Nat, list : Lists, pc : {"update", "get", "send"}]

TypeInv ==
    /\ TypeOK /\ world \in GoodWorlds /\ undo \in Seq(UndoRecords)
    /\ saving = NoSave \/ saving \in SaveRecords

\* Two worlds that a write tells apart.
SameBut(v, w, x) ==
    /\ x.kind # "votes" => v.votes = w.votes
    /\ x.kind # "grant" => v.granted = w.granted
    /\ x.kind = "votes" => v.valid = w.valid
    /\ \A a \in Auths : a # x.on => (a \in v.valid <=> a \in w.valid)
                                    /\ (a \in v.granted <=> a \in w.granted)

\* A block saved, or being saved or rolled back, is about its write.
WorldInv ==
    /\ \A i \in DOMAIN undo :
          SameBut(IF i = Len(undo) THEN world ELSE undo[i + 1].before,
                  undo[i].before, undo[i].write)
    /\ saving # NoSave => SameBut(saving.new, world, saving.write)
    /\ saving.op = "save" /\ saving.write.kind = "votes" =>
          saving.new.votes = saving.write.on
    /\ saving.op = "rollback" => undo # <<>> /\ saving.new = undo[Len(undo)].before
    /\ world.valid \subseteq committed

\* What a check holds at its stage, whether or not it was raced ...
Staged(c, p, k) ==
    /\ c.pc \in {"signer", "signerWait", "idx", "idxPut"} => c.acc = {}
    /\ c.pc \in {"opsPut", "opsWait"} => c.at \in c.todo
    /\ c.pc \in {"authPut", "authWait"} => c.at = c.op
    /\ c.pc # "idle" /\ c.over => c.raced /\ p # NoPreload
    /\ c.pc \in {"opsPut", "authPut"} /\ c.value = "valid" => c.at \in k
    /\ c.pc = "done" /\ c.value = "valid" =>
          c.op \in k \/ (c.over /\ p.on = c.op /\ p.status = "valid")

\* ... and what it holds of the world if it was not.
Honest(c, w) ==
    /\ c.pc = "idxPut" => c.todo = w.granted
    /\ c.pc \in {"ops", "opsPut", "opsWait"} => c.acc \cup c.todo = w.granted
    /\ c.pc \in {"auth", "authPut", "authWait"} => c.acc = w.granted
    /\ c.pc \in {"opsPut", "authPut"} => c.value = Status(w, c.at)
    /\ c.pc = "done" => c.value = Status(w, c.op)

Sound(c, w, p, k) == c \in ReaderRecords /\ Staged(c, p, k) /\ (~c.raced => Honest(c, w))

ReaderInv == \A r \in Readers : Sound(reader[r], world, preload, committed)

\* No check goes on during a save of permissions as if it had not been overtaken.
RacedInv == PermissionSave => \A r \in Readers : reader[r].pc # "idle" => reader[r].raced

\* Who waits for an authorization waits for one that is being put.
WaitInv ==
    \A r \in Readers : reader[r].pc \in {"opsWait", "authWait"} =>
        \E p \in Readers :
            /\ reader[r].leader = {p}
            /\ reader[p].pc \in {"opsPut", "authPut"} /\ reader[p].at = reader[r].at

\* What the running save has told of is out of the caches, or was put back by a check
\* that it has overtaken.
DropInv ==
    saving # NoSave =>
        LET told == KeysOf(saving.write) \ saving.todo
        IN  /\ "signer" \in told => signerCache = {} \/ "signer" \in dirty
            /\ "idx" \in told => idxCache = {} \/ "idx" \in dirty
            /\ "auth" \in told => \/ authCache[saving.write.on] = "none"
                                  \/ saving.write.on \in dirty

CommittedCached == \A a \in Auths : authCache[a] = "valid" => a \in committed

\* The vote list that the node is to have.
Target ==
    IF saving # NoSave /\ "votes" \notin saving.todo THEN saving.new.votes ELSE world.votes

VoteInv ==
    ~strayed =>
        \/ /\ threads = {} /\ Current = Target
           /\ IF mail = <<>> THEN stable = Target ELSE mail[Len(mail)] = Target
        \/ \E t \in threads :
              /\ threads = {t}
              /\ t.pc = "update" => t.list = Target /\ t.list \notin Short
              /\ t.pc # "update" => Current = Target
              /\ t.pc = "send" => t.list = Target

Invariant == /\ TypeInv /\ WorldInv /\ ReaderInv /\ RacedInv /\ WaitInv /\ DropInv
             /\ CommittedCached /\ CachedIsSavedUnlessRaced /\ VoteInv

-----------------------------------------------------------------------------
(* Types.                                                                   *)

TypeBlocks ==
    /\ world \in GoodWorlds /\ undo \in Seq(UndoRecords)
    /\ saving = NoSave \/ saving \in SaveRecords
    /\ saving # NoSave => saving.todo \subseteq KeysOf(saving.write)
    /\ preload = NoPreload \/ preload \in PreloadRecords
    /\ committed \subseteq Auths

TypeCaches ==
    /\ signerCache \subseteq SUBSET Auths /\ Cardinality(signerCache) <= 1
    /\ idxCache \subseteq SUBSET Auths /\ Cardinality(idxCache) <= 1
    /\ authCache \in [Auths -> Statuses]
    /\ dirty \subseteq {"signer", "idx"} \cup Auths

TypeReader == reader \in [Readers -> ReaderRecords]

TypeVoting ==
    /\ list \in Lists /\ tmp \in Lists \cup {NoList} /\ changed \in BOOLEAN
    /\ threads \subseteq ThreadRecords /\ mail \in Seq(Lists) /\ stable \in Lists
    /\ strayed \in BOOLEAN

TypeLeft == schedule \in Schedules /\ left \in ScheduleRecords

TypeParts == TypeBlocks /\ TypeCaches /\ TypeReader /\ TypeVoting /\ TypeLeft

LEMMA ConstantFacts ==
    /\ Auths # {} /\ "signer" \notin Auths /\ "idx" \notin Auths
    /\ Short \subseteq Lists /\ FirstList \in Lists \ Short /\ NoList \notin Lists
    /\ Schedules \subseteq ScheduleRecords
BY CachesAssumption DEF CachesAssumption

\* The types, variable by variable.
LEMMA TypeFacts == TypeInv <=> TypeParts
<1>1. /\ saving \in SaveRecords => /\ saving # NoSave /\ saving.op \in {"save", "rollback"}
                                   /\ saving.write \in Writes /\ saving.new \in Worlds
      /\ preload \in PreloadRecords => preload # NoPreload
      /\ world \in GoodWorlds => world \in Worlds /\ world.valid \subseteq world.granted
  <2>1. saving \in SaveRecords => /\ saving.op \in {"save", "rollback"} /\ saving.op # "none"
                                  /\ saving.write \in Writes /\ saving.new \in Worlds
    BY DEF SaveRecords, GoodWorlds
  <2>2. preload \in PreloadRecords => preload.kind # "none"
    BY DEF PreloadRecords
  <2>3. NoSave.op = "none" /\ NoPreload.kind = "none"
    BY DEF NoSave, NoPreload
  <2>4. world \in GoodWorlds => world \in Worlds /\ world.valid \subseteq world.granted
    BY DEF GoodWorlds
  <2> QED BY <2>1, <2>2, <2>3, <2>4
<1>2. undo \in Seq(UndoRecords) =>
          \A i \in DOMAIN undo : undo[i].write \in Writes /\ undo[i].before \in Worlds
  <2>1. undo \in Seq(UndoRecords) => \A i \in DOMAIN undo : undo[i] \in UndoRecords
    OBVIOUS
  <2>2. \A u \in UndoRecords : u.write \in Writes /\ u.before \in Worlds
    BY DEF UndoRecords, GoodWorlds
  <2> QED BY <2>1, <2>2
<1>3. TypeInv => TypeBlocks
  BY DEF TypeInv, TypeOK, TypeBlocks, PreloadRecords
<1>4. TypeInv => TypeCaches
  BY DEF TypeInv, TypeOK, TypeCaches
<1>5. TypeInv => TypeReader /\ TypeVoting /\ TypeLeft
  BY DEF TypeInv, TypeOK, TypeReader, TypeVoting, TypeLeft, ReaderRecords, ThreadRecords
<1>6. TypeParts => TypeInv
  BY <1>1, <1>2 DEF TypeInv, TypeOK, TypeParts, TypeBlocks, TypeCaches, TypeReader, TypeVoting,
                    TypeLeft, ReaderRecords, ThreadRecords, PreloadRecords
<1> QED BY <1>3, <1>4, <1>5, <1>6 DEF TypeParts

\* The parts of a save under way.
LEMMA SaveFacts ==
    ASSUME TypeBlocks, saving # NoSave
    PROVE  /\ saving \in SaveRecords /\ saving.op \in {"save", "rollback"}
           /\ saving.write \in Writes /\ saving.new \in GoodWorlds
           /\ saving.todo \subseteq KeysOf(saving.write)
           /\ saving = [op |-> saving.op, write |-> saving.write, new |-> saving.new,
                        todo |-> saving.todo]
BY DEF TypeBlocks, SaveRecords

\* Nothing runs but saves and rollbacks.
LEMMA SaveOp ==
    ASSUME TypeBlocks
    PROVE  saving # NoSave <=> saving.op # "none"
<1>1. NoSave.op = "none"
  BY DEF NoSave
<1> QED BY <1>1, SaveFacts

\* The keys that a write is about.
LEMMA WriteFacts ==
    ASSUME NEW x \in Writes
    PROVE  /\ KeysOf(x) \subseteq EntryKeys
           /\ "votes" \in KeysOf(x) <=> x.kind = "votes"
           /\ x.kind \in {"grant", "flip", "votes"}
           /\ x.kind = "grant" => KeysOf(x) = {"signer", "idx", "auth"}
           /\ x.kind = "flip" => KeysOf(x) = {"auth"}
           /\ x.kind = "votes" => KeysOf(x) = {"votes"}
           /\ x.kind \in {"grant", "flip"} => x.on \in Auths
           /\ x.kind = "votes" => x.on \in Lists
<1>1. CASE x \in [kind : {"grant", "flip"}, on : Auths]
  BY <1>1 DEF KeysOf, EntryKeys
<1>2. CASE x \in [kind : {"votes"}, on : Lists]
  BY <1>2 DEF KeysOf, EntryKeys
<1> QED BY <1>1, <1>2 DEF Writes

\* What a write makes of a world.
LEMMA AfterFacts ==
    ASSUME NEW w \in GoodWorlds, NEW x \in Writes, Possible(w, x)
    PROVE  /\ After(w, x) \in GoodWorlds /\ SameBut(After(w, x), w, x)
           /\ x.kind = "votes" => After(w, x).votes = x.on
<1>1. PICK g, v, l : w = [granted |-> g, valid |-> v, votes |-> l] /\ v \subseteq g
                     /\ g \in SUBSET Auths /\ l \in Lists
  BY DEF GoodWorlds, Worlds
<1>2. CASE x.kind = "grant"
  <2>1. After(w, x) = [granted |-> g \cup {x.on}, valid |-> v \cup {x.on}, votes |-> l]
    BY <1>1, <1>2 DEF After
  <2> QED BY <1>1, <1>2, <2>1, WriteFacts DEF GoodWorlds, Worlds, SameBut
<1>3. CASE x.kind = "flip"
  <2>1. PICK u : u = (IF x.on \in v THEN v \ {x.on} ELSE v \cup {x.on})
    OBVIOUS
  <2>2. After(w, x) = [granted |-> g, valid |-> u, votes |-> l]
    BY <1>1, <1>3, <2>1 DEF After
  <2>3. x.on \in g
    BY <1>1, <1>3 DEF Possible
  <2> QED BY <1>1, <1>3, <2>1, <2>2, <2>3, WriteFacts DEF GoodWorlds, Worlds, SameBut
<1>4. CASE x.kind = "votes"
  <2>1. After(w, x) = [granted |-> g, valid |-> v, votes |-> x.on]
    BY <1>1, <1>4 DEF After
  <2> QED BY <1>1, <1>4, <2>1, WriteFacts DEF GoodWorlds, Worlds, SameBut
<1> QED BY <1>2, <1>3, <1>4, WriteFacts

\* The statuses of authorizations.
LEMMA StatusFacts ==
    ASSUME NEW w \in GoodWorlds, NEW a \in Auths
    PROVE  /\ Status(w, a) \in Statuses
           /\ Status(w, a) = "none" <=> a \notin w.granted
           /\ Status(w, a) = "valid" <=> a \in w.valid
BY DEF GoodWorlds, Status, Statuses

\* A bound that is used stays one.
LEMMA UsesType ==
    ASSUME TypeLeft, schedule' = schedule,
           NEW k \in {"blocks", "rollbacks", "checks", "preloads", "faults"}, Uses(k)
    PROVE  TypeLeft'
<1>1. left \in ScheduleRecords /\ schedule \in Schedules
  BY DEF TypeLeft
<1>2. left[k] \in Nat
  BY <1>1 DEF ScheduleRecords
<1>3. PICK n \in Nat : n = left[k] - 1
  BY <1>2 DEF Uses
<1>4. left' = [left EXCEPT ![k] = n]
  BY <1>3 DEF Uses
<1>5. left' \in ScheduleRecords
  BY <1>1, <1>4 DEF ScheduleRecords
<1> QED BY <1>1, <1>5 DEF TypeLeft

\* A cache of one element at most.
LEMMA SmallSets == Cardinality({}) <= 1 /\ \A x : Cardinality({x}) <= 1
<1>1. Cardinality({}) = 0
  BY FS_EmptySet
<1>2. \A x : Cardinality({x}) = 1
  BY FS_Singleton
<1> QED BY <1>1, <1>2

LEMMA IdleFacts ==
    /\ IdleReader \in ReaderRecords /\ IdleReader.pc = "idle" /\ IdleReader.acc = {}
    /\ \A w, p, k : Sound(IdleReader, w, p, k)
<1>1. (CHOOSE a \in Auths : TRUE) \in Auths
  BY ConstantFacts
<1>2. IdleReader \in ReaderRecords /\ IdleReader.pc = "idle" /\ IdleReader.acc = {}
  BY <1>1 DEF IdleReader, ReaderRecords, Stages, Statuses
<1> QED BY <1>2 DEF Sound, Staged, Honest

-----------------------------------------------------------------------------
(* The steps of a check.                                                    *)

CacheInv == CommittedCached /\ CachedIsSavedUnlessRaced
CheckInv == /\ TypeBlocks /\ TypeCaches /\ TypeReader /\ ReaderInv /\ RacedInv /\ WaitInv
            /\ CacheInv /\ world.valid \subseteq committed

\* Reader r goes on with d; it puts nothing that others wait for.
Moves(r, d) ==
    /\ reader' = [reader EXCEPT ![r] = d]
    /\ Sound(d, world, preload, committed)
    /\ reader[r].pc \notin {"opsPut", "authPut"}
    /\ d.pc # "idle" => d.raced \/ ~PermissionSave
    /\ d.pc \in {"opsWait", "authWait"} =>
          \E p \in Readers \ {r} :
              /\ d.leader = {p}
              /\ reader[p].pc \in {"opsPut", "authPut"} /\ reader[p].at = d.at

\* A reader as it is.
LEMMA ReaderFacts ==
    ASSUME CheckInv, NEW r \in Readers
    PROVE  /\ reader[r] \in ReaderRecords /\ Staged(reader[r], preload, committed)
           /\ ~reader[r].raced => Honest(reader[r], world)
           /\ reader[r].pc # "idle" => reader[r].raced \/ ~PermissionSave
           /\ world \in GoodWorlds /\ world.granted \subseteq Auths
           /\ committed \subseteq Auths
<1>1. Sound(reader[r], world, preload, committed)
  BY DEF CheckInv, ReaderInv
<1>2. world \in GoodWorlds /\ world.granted \subseteq Auths /\ committed \subseteq Auths
  BY DEF CheckInv, TypeBlocks, GoodWorlds, Worlds
<1> QED BY <1>1, <1>2 DEF Sound, CheckInv, RacedInv

LEMMA StartMoves ==
    ASSUME CheckInv, NEW r \in Readers, NEW a \in Auths, NEW over \in BOOLEAN,
           StartCheck(r, a, over)
    PROVE  \E d : Moves(r, d)
<1>1. PICK d : d = [IdleReader EXCEPT !.pc = "signer", !.over = over, !.op = a,
                                      !.raced = over \/ PermissionSave]
  OBVIOUS
<1>2. /\ d \in ReaderRecords /\ d.pc = "signer" /\ d.over = over /\ d.acc = {}
      /\ d.raced = (over \/ PermissionSave)
  BY <1>1, IdleFacts DEF ReaderRecords, Stages
<1>3. over => preload # NoPreload
  BY DEF StartCheck
<1>4. Sound(d, world, preload, committed)
  BY <1>2, <1>3 DEF Sound, Staged, Honest
<1>5. reader' = [reader EXCEPT ![r] = d] /\ reader[r].pc = "idle"
  BY <1>1 DEF StartCheck, Goes
<1> QED BY <1>2, <1>4, <1>5 DEF Moves

LEMMA HitMoves ==
    ASSUME CheckInv, NEW r \in Readers, HitSigner(r)
    PROVE  \E d : Moves(r, d)
<1> DEFINE c == reader[r]
<1>1. PICK d : d = [c EXCEPT !.pc = "auth", !.acc = UNION signerCache,
                             !.raced = c.raced \/ "signer" \in dirty]
  OBVIOUS
<1>2. c \in ReaderRecords /\ c.pc = "signer" /\ signerCache # {}
  BY ReaderFacts DEF HitSigner
<1>3. UNION signerCache \subseteq Auths
  BY DEF CheckInv, TypeCaches
<1>4. /\ d \in ReaderRecords /\ d.pc = "auth" /\ d.over = c.over
      /\ d.acc = UNION signerCache /\ d.raced = (c.raced \/ "signer" \in dirty)
  BY <1>1, <1>2, <1>3 DEF ReaderRecords, Stages
<1>5. "signer" \notin dirty => UNION signerCache = world.granted
  <2>1. "signer" \notin dirty => signerCache \subseteq {world.granted}
    BY DEF CheckInv, CacheInv, CachedIsSavedUnlessRaced
  <2> QED BY <1>2, <2>1
<1>6. Sound(d, world, preload, committed)
  BY <1>2, <1>4, <1>5, ReaderFacts DEF Sound, Staged, Honest
<1>7. reader' = [reader EXCEPT ![r] = d]
  BY <1>1 DEF HitSigner, Goes
<1> QED BY <1>2, <1>4, <1>6, <1>7, ReaderFacts DEF Moves

LEMMA JoinSignerMoves ==
    ASSUME CheckInv, NEW r \in Readers, JoinSigner(r)
    PROVE  \E d : Moves(r, d)
<1> DEFINE c == reader[r]
<1>1. PICK p \in Readers : Goes(r, [reader[r] EXCEPT !.pc = "signerWait", !.leader = {p}])
  BY DEF JoinSigner
<1>2. PICK d : d = [c EXCEPT !.pc = "signerWait", !.leader = {p}]
  OBVIOUS
<1>3. c \in ReaderRecords /\ c.pc = "signer"
  BY ReaderFacts DEF JoinSigner
<1>4. /\ d \in ReaderRecords /\ d.pc = "signerWait" /\ d.over = c.over /\ d.acc = c.acc
      /\ d.raced = c.raced
  BY <1>2, <1>3 DEF ReaderRecords, Stages
<1>5. Sound(d, world, preload, committed)
  BY <1>3, <1>4, ReaderFacts DEF Sound, Staged, Honest
<1> QED BY <1>1, <1>2, <1>3, <1>4, <1>5, ReaderFacts DEF Moves, Goes

LEMMA MissMoves ==
    ASSUME CheckInv, NEW r \in Readers, MissSigner(r)
    PROVE  \E d : Moves(r, d)
<1> DEFINE c == reader[r]
<1>2. PICK d : d = [c EXCEPT !.pc = "idx"]
  OBVIOUS
<1>3. c \in ReaderRecords /\ c.pc = "signer"
  BY ReaderFacts DEF MissSigner
<1>4. /\ d \in ReaderRecords /\ d.pc = "idx" /\ d.over = c.over /\ d.acc = c.acc
      /\ d.raced = c.raced
  BY <1>2, <1>3 DEF ReaderRecords, Stages
<1>5. Sound(d, world, preload, committed)
  BY <1>3, <1>4, ReaderFacts DEF Sound, Staged, Honest
<1> QED BY <1>2, <1>3, <1>4, <1>5, ReaderFacts DEF Moves, Goes, MissSigner

\* The index that is found: that of the world, if nothing has raced the check.
LEMMA FoundMoves ==
    ASSUME CheckInv, NEW r \in Readers, reader[r].pc = "idx",
           NEW S \in SUBSET Auths, NEW dirt \in BOOLEAN,
           reader[r].raced \/ dirt \/ S = world.granted,
           NEW stage \in {"ops", "idxPut"},
           Goes(r, [reader[r] EXCEPT !.pc = stage, !.todo = S, !.raced = @ \/ dirt])
    PROVE  \E d : Moves(r, d)
<1> DEFINE c == reader[r]
<1>1. PICK d : d = [c EXCEPT !.pc = stage, !.todo = S, !.raced = c.raced \/ dirt]
  OBVIOUS
<1>2. c \in ReaderRecords /\ c.acc = {}
  BY ReaderFacts DEF Staged
<1>3. /\ d \in ReaderRecords /\ d.pc = stage /\ d.over = c.over /\ d.acc = {}
      /\ d.todo = S /\ d.raced = (c.raced \/ dirt)
  BY <1>1, <1>2 DEF ReaderRecords, Stages
<1>4. Sound(d, world, preload, committed)
  BY <1>2, <1>3, ReaderFacts DEF Sound, Staged, Honest
<1>5. reader' = [reader EXCEPT ![r] = d]
  BY <1>1 DEF Goes
<1> QED BY <1>3, <1>4, <1>5, ReaderFacts DEF Moves

LEMMA LookIdxMoves ==
    ASSUME CheckInv, NEW r \in Readers, LookIdx(r)
    PROVE  \E d : Moves(r, d)
<1> DEFINE c == reader[r]
           found(S, dirt) == Goes(r, [c EXCEPT !.pc = "ops", !.todo = S,
                                               !.raced = @ \/ dirt])
<1>1. /\ c \in ReaderRecords /\ c.pc = "idx" /\ c.raced \in BOOLEAN
      /\ c.over => c.raced /\ preload # NoPreload
  BY ReaderFacts DEF LookIdx, Staged, ReaderRecords
<1>2. CASE c.over /\ preload.kind = "grant"
  <2>1. found(preload.granted, FALSE)
    BY <1>2 DEF LookIdx
  <2>2. preload.granted \subseteq Auths
    BY <1>1, <1>2 DEF CheckInv, TypeBlocks, PreloadRecords
  <2> QED BY <1>1, <1>2, <2>1, <2>2, FoundMoves
<1>3. CASE ~(c.over /\ preload.kind = "grant") /\ idxCache # {}
  <2>1. found(UNION idxCache, "idx" \in dirty)
    BY <1>3 DEF LookIdx
  <2>2. UNION idxCache \subseteq Auths
    BY DEF CheckInv, TypeCaches
  <2>3. "idx" \notin dirty => UNION idxCache = world.granted
    <3>1. "idx" \notin dirty => idxCache \subseteq {world.granted}
      BY DEF CheckInv, CacheInv, CachedIsSavedUnlessRaced
    <3> QED BY <1>3, <3>1
  <2>4. PICK S \in SUBSET Auths : S = UNION idxCache
    BY <2>2
  <2>5. CASE "idx" \in dirty
    <3>1. found(S, TRUE)
      BY <2>1, <2>4, <2>5
    <3> QED BY <1>1, <3>1, FoundMoves
  <2>6. CASE "idx" \notin dirty
    <3>1. found(S, FALSE) /\ S = world.granted
      BY <2>1, <2>3, <2>4, <2>6
    <3> QED BY <1>1, <3>1, FoundMoves
  <2> QED BY <2>5, <2>6
<1>4. CASE ~(c.over /\ preload.kind = "grant") /\ idxCache = {}
  <2>1. IF world.granted = {} THEN found({}, FALSE)
        ELSE Goes(r, [c EXCEPT !.pc = "idxPut", !.todo = world.granted])
    BY <1>4 DEF LookIdx
  <2>2. CASE world.granted = {}
    BY <1>1, <2>1, <2>2, FoundMoves
  <2>3. CASE world.granted # {}
    <3>1. [c EXCEPT !.pc = "idxPut", !.todo = world.granted]
            = [c EXCEPT !.pc = "idxPut", !.todo = world.granted, !.raced = @ \/ FALSE]
      BY <1>1 DEF ReaderRecords
    <3>2. world.granted \subseteq Auths
      BY ReaderFacts
    <3> QED BY <1>1, <2>1, <2>3, <3>1, <3>2, FoundMoves
  <2> QED BY <2>2, <2>3
<1> QED BY <1>2, <1>3, <1>4

LEMMA PutIdxMoves ==
    ASSUME CheckInv, NEW r \in Readers, PutIdx(r)
    PROVE  \E d : Moves(r, d)
<1> DEFINE c == reader[r]
<1>2. PICK d : d = [c EXCEPT !.pc = "ops"]
  OBVIOUS
<1>3. c \in ReaderRecords /\ c.pc = "idxPut"
  BY ReaderFacts DEF PutIdx
<1>4. /\ d \in ReaderRecords /\ d.pc = "ops" /\ d.over = c.over /\ d.acc = c.acc
      /\ d.raced = c.raced /\ d.todo = c.todo
  BY <1>2, <1>3 DEF ReaderRecords, Stages
<1>5. Sound(d, world, preload, committed)
  BY <1>3, <1>4, ReaderFacts DEF Sound, Staged, Honest
<1> QED BY <1>2, <1>3, <1>4, <1>5, ReaderFacts DEF Moves, Goes, PutIdx

LEMMA DenyMoves ==
    ASSUME CheckInv, NEW r \in Readers, Deny(r)
    PROVE  \E d : Moves(r, d)
<1> DEFINE c == reader[r]
<1>2. PICK d : d = [c EXCEPT !.pc = "done", !.value = "none"]
  OBVIOUS
<1>3. c \in ReaderRecords /\ c.pc = "auth" /\ c.op \notin c.acc
  BY ReaderFacts DEF Deny
<1>4. /\ d \in ReaderRecords /\ d.pc = "done" /\ d.over = c.over /\ d.op = c.op
      /\ d.raced = c.raced /\ d.value = "none" /\ c.op \in Auths
  BY <1>2, <1>3 DEF ReaderRecords, Stages, Statuses
<1>5. c.op \notin world.granted => Status(world, c.op) = "none"
  BY <1>4, ReaderFacts, StatusFacts
<1>6. Sound(d, world, preload, committed)
  BY <1>3, <1>4, <1>5, ReaderFacts DEF Sound, Staged, Honest
<1> QED BY <1>2, <1>3, <1>4, <1>6, ReaderFacts DEF Moves, Goes, Deny

LEMMA EndMoves ==
    ASSUME CheckInv, NEW r \in Readers, EndCheck(r)
    PROVE  \E d : Moves(r, d)
<1>1. Sound(IdleReader, world, preload, committed) /\ IdleReader.pc = "idle"
  BY IdleFacts
<1> QED BY <1>1 DEF Moves, Goes, EndCheck

\* An authorization v that has been read leaves the check as it should be, if v is that of
\* the world or the check was raced.
OpsStages == {"ops", "opsPut", "opsWait"}
AuthStages == {"auth", "authPut", "authWait"}

LEMMA GotSound ==
    ASSUME world \in GoodWorlds,
           NEW c \in ReaderRecords, NEW v \in Statuses,
           NEW d, d = [GotAuth(c, v) EXCEPT !.raced = d.raced],
           d.raced \in BOOLEAN, c.raced => d.raced,
           c.pc \in OpsStages \cup AuthStages,
           c.pc \in OpsStages => c.at \in c.todo,
           c.pc \in AuthStages => c.at = c.op,
           c.over => c.raced /\ preload # NoPreload,
           ~d.raced => v = Status(world, c.at),
           ~c.raced /\ c.pc \in OpsStages => c.acc \cup c.todo = world.granted,
           v = "valid" => \/ c.at \in committed
                          \/ c.over /\ preload.on = c.at /\ preload.status = "valid"
    PROVE  Sound(d, world, preload, committed) /\ d.pc \in {"ops", "done"}
<1>1. c.raced \in BOOLEAN /\ c.over \in BOOLEAN /\ c.at \in Auths
  BY DEF ReaderRecords
<1>2. CASE c.pc \in OpsStages
  <2>1. GotAuth(c, v) = [c EXCEPT !.pc = "ops", !.todo = c.todo \ {c.at}, !.value = "none",
                                  !.leader = {},
                                  !.acc = IF v = "none" THEN c.acc ELSE c.acc \cup {c.at}]
    BY <1>2 DEF GotAuth, OpsStages
  <2>2. PICK acc \in SUBSET Auths :
            acc = (IF v = "none" THEN c.acc ELSE c.acc \cup {c.at})
    BY <1>1 DEF ReaderRecords
  <2>3. PICK q : q = [c EXCEPT !.pc = "ops", !.todo = c.todo \ {c.at}, !.value = "none",
                               !.leader = {}, !.acc = acc]
    OBVIOUS
  <2>4. /\ q \in ReaderRecords /\ q.pc = "ops" /\ q.over = c.over /\ q.acc = acc
        /\ q.todo = c.todo \ {c.at}
    BY <2>2, <2>3, <1>1 DEF ReaderRecords, Stages, Statuses
  <2>5. d = [q EXCEPT !.raced = d.raced]
    BY <2>1, <2>2, <2>3
  <2>6. /\ d \in ReaderRecords /\ d.pc = "ops" /\ d.over = c.over /\ d.acc = acc
        /\ d.todo = c.todo \ {c.at}
    BY <2>4, <2>5 DEF ReaderRecords
  <2>7. ~d.raced => d.acc \cup d.todo = world.granted
    <3> SUFFICES ASSUME ~d.raced PROVE d.acc \cup d.todo = world.granted
      OBVIOUS
    <3>1. c.acc \cup c.todo = world.granted /\ c.at \in c.todo /\ v = Status(world, c.at)
      BY <1>2
    <3>2. v # "none"
      BY <3>1, <1>1, StatusFacts
    <3> QED BY <2>2, <2>6, <3>1, <3>2
  <2> QED BY <2>6, <2>7, <1>1 DEF Sound, Staged, Honest
<1>3. CASE c.pc \in AuthStages
  <2>1. GotAuth(c, v) = [c EXCEPT !.pc = "done", !.value = v, !.leader = {}]
    BY <1>3 DEF GotAuth, AuthStages
  <2>2. PICK q : q = [c EXCEPT !.pc = "done", !.value = v, !.leader = {}]
    OBVIOUS
  <2>3. /\ q \in ReaderRecords /\ q.pc = "done" /\ q.over = c.over /\ q.op = c.op
        /\ q.value = v
    BY <2>2, <1>1 DEF ReaderRecords, Stages
  <2>4. /\ d \in ReaderRecords /\ d.pc = "done" /\ d.over = c.over /\ d.op = c.op
        /\ d.value = v
    <3>1. d = [q EXCEPT !.raced = d.raced]
      BY <2>1, <2>2
    <3> QED BY <2>3, <3>1 DEF ReaderRecords
  <2> QED BY <1>3, <2>4, <1>1 DEF Sound, Staged, Honest
<1> QED BY <1>2, <1>3

\* What is got and whether it raced.
LEMMA GotRaced ==
    ASSUME NEW c \in ReaderRecords, NEW v \in Statuses, NEW b \in BOOLEAN
    PROVE  LET d == [GotAuth(c, v) EXCEPT !.raced = @ \/ b]
           IN  d = [GotAuth(c, v) EXCEPT !.raced = d.raced] /\ d.raced = (c.raced \/ b)
<1>1. GotAuth(c, v) \in [pc : {"ops", "done"}, over : BOOLEAN, op : Auths,
                         acc : {c.acc, c.acc \cup {c.at}},
                         todo : {c.todo, c.todo \ {c.at}}, at : Auths, value : Statuses,
                         leader : {{}}, raced : {c.raced}]
  BY DEF GotAuth, ReaderRecords, Statuses
<1>2. PICK g : g = GotAuth(c, v)
  OBVIOUS
<1>3. g.raced = c.raced
  BY <1>1, <1>2
<1> QED BY <1>1, <1>2, <1>3

\* The case in which nothing else races the check.
LEMMA GotSame ==
    ASSUME NEW c \in ReaderRecords, NEW v \in Statuses
    PROVE  GotAuth(c, v) = [GotAuth(c, v) EXCEPT !.raced = @ \/ FALSE]
BY DEF GotAuth, ReaderRecords

\* What a reader is that looks for an authorization.
LEMMA LookFacts ==
    ASSUME CheckInv, NEW r \in Readers, NEW a \in Auths,
           \/ reader[r].pc = "ops" /\ a \in reader[r].todo
           \/ reader[r].pc = "auth" /\ a = reader[r].op /\ a \in reader[r].acc,
           NEW c, c = [reader[r] EXCEPT !.at = a]
    PROVE  /\ c \in ReaderRecords /\ c.at = a /\ c.pc = reader[r].pc
           /\ c.raced = reader[r].raced /\ c.over = reader[r].over
           /\ c.acc = reader[r].acc /\ c.todo = reader[r].todo
           /\ c.pc \in OpsStages \cup AuthStages /\ c.pc \in {"ops", "auth"}
           /\ c.pc \in OpsStages => c.at \in c.todo
           /\ c.pc \in AuthStages => c.pc = "auth" /\ c.at = c.op
           /\ c.over => c.raced /\ preload # NoPreload
           /\ c.raced \/ ~PermissionSave
           /\ ~c.raced /\ c.pc \in OpsStages => c.acc \cup c.todo = world.granted
           /\ ~c.raced /\ c.pc \in AuthStages => c.acc = world.granted
<1>1. reader[r] \in ReaderRecords
  BY ReaderFacts
<1>2. /\ c \in ReaderRecords /\ c.at = a /\ c.pc = reader[r].pc
      /\ c.raced = reader[r].raced /\ c.over = reader[r].over /\ c.op = reader[r].op
      /\ c.acc = reader[r].acc /\ c.todo = reader[r].todo
  BY <1>1 DEF ReaderRecords
<1>3. c.pc = "ops" \/ c.pc = "auth"
  BY <1>2
<1> QED BY <1>2, <1>3, ReaderFacts DEF Staged, Honest, OpsStages, AuthStages

LEMMA LookAuthMoves ==
    ASSUME CheckInv, NEW r \in Readers, NEW a \in Auths, LookAuth(r, a)
    PROVE  \E d : Moves(r, d)
<1>0. PICK c : c = [reader[r] EXCEPT !.at = a]
  OBVIOUS
<1>1. /\ c \in ReaderRecords /\ c.at = a /\ c.pc = reader[r].pc
      /\ c.raced = reader[r].raced /\ c.over = reader[r].over
      /\ c.pc \in OpsStages \cup AuthStages /\ c.pc \in {"ops", "auth"}
      /\ c.pc \in OpsStages => c.at \in c.todo
      /\ c.pc \in AuthStages => c.pc = "auth" /\ c.at = c.op
      /\ c.over => c.raced /\ preload # NoPreload
      /\ c.raced \/ ~PermissionSave
      /\ ~c.raced /\ c.pc \in OpsStages => c.acc \cup c.todo = world.granted
      /\ ~c.raced /\ c.pc \in AuthStages => c.acc = world.granted
  BY <1>0, LookFacts DEF LookAuth
<1>2. world \in GoodWorlds /\ c.raced \in BOOLEAN /\ c.over \in BOOLEAN
  BY <1>1, ReaderFacts DEF ReaderRecords
\* What has been found out ...
<1>3. ASSUME NEW v \in Statuses, NEW b \in BOOLEAN,
             ~(c.raced \/ b) => v = Status(world, a),
             v = "valid" => a \in committed \/ (c.over /\ preload.on = a
                                                /\ preload.status = "valid"),
             Goes(r, [GotAuth(c, v) EXCEPT !.raced = @ \/ b])
      PROVE  \E d : Moves(r, d)
  <2>1. PICK d : d = [GotAuth(c, v) EXCEPT !.raced = @ \/ b]
    OBVIOUS
  <2>2. d = [GotAuth(c, v) EXCEPT !.raced = d.raced] /\ d.raced = (c.raced \/ b)
    BY <1>1, <2>1, GotRaced
  <2>4. /\ d.raced \in BOOLEAN /\ (c.raced => d.raced)
        /\ ~d.raced => v = Status(world, c.at)
        /\ v = "valid" => \/ c.at \in committed
                          \/ c.over /\ preload.on = c.at /\ preload.status = "valid"
    BY <1>1, <1>2, <1>3, <2>2
  <2>5. Sound(d, world, preload, committed) /\ d.pc \in {"ops", "done"}
    BY <1>1, <1>2, <2>2, <2>4, GotSound
  <2>3. reader' = [reader EXCEPT ![r] = d]
    BY <1>3, <2>1 DEF Goes
  <2> QED BY <1>1, <1>2, <2>2, <2>3, <2>5 DEF Moves
\* ... and what is to be put.
<1>4. ASSUME Status(world, a) # "none",
             Goes(r, [c EXCEPT !.pc = IF c.pc = "ops" THEN "opsPut" ELSE "authPut",
                               !.value = Status(world, a)])
      PROVE  \E d : Moves(r, d)
  <2>1. PICK s \in {"opsPut", "authPut"} : s = IF c.pc = "ops" THEN "opsPut" ELSE "authPut"
    OBVIOUS
  <2>2. PICK d : d = [c EXCEPT !.pc = s, !.value = Status(world, a)]
    OBVIOUS
  <2>3. Status(world, a) \in Statuses
    BY <1>2, StatusFacts
  <2>4. /\ d \in ReaderRecords /\ d.pc = s /\ d.over = c.over /\ d.op = c.op
        /\ d.at = a /\ d.acc = c.acc /\ d.todo = c.todo /\ d.raced = c.raced
        /\ d.value = Status(world, a)
    BY <1>1, <2>1, <2>2, <2>3 DEF ReaderRecords, Stages
  <2>5. Status(world, a) = "valid" => a \in committed
    BY <1>2, StatusFacts DEF CheckInv
  <2>6. s = "opsPut" => c.pc \in OpsStages
    BY <2>1 DEF OpsStages
  <2>7. s = "authPut" => c.pc \in AuthStages
    BY <1>1, <2>1 DEF OpsStages
  <2>8. Staged(d, preload, committed)
    BY <1>1, <2>1, <2>4, <2>5, <2>6, <2>7 DEF Staged
  <2>9. ~d.raced => Honest(d, world)
    BY <1>1, <2>1, <2>4, <2>6, <2>7 DEF Honest
  <2>10. reader' = [reader EXCEPT ![r] = d]
    BY <1>4, <2>1, <2>2 DEF Goes
  <2> QED BY <1>1, <2>1, <2>4, <2>8, <2>9, <2>10 DEF Moves, Sound
<1>5. CASE c.over /\ preload.on = a
  <2>1. Goes(r, GotAuth(c, preload.status))
    BY <1>0, <1>5 DEF LookAuth
  <2>2. preload.status \in Statuses
    BY <1>1, <1>5 DEF CheckInv, TypeBlocks, PreloadRecords
  <2>3. Goes(r, [GotAuth(c, preload.status) EXCEPT !.raced = @ \/ FALSE])
    BY <1>1, <2>1, <2>2, GotSame
  <2> QED BY <1>1, <1>3, <1>5, <2>2, <2>3
<1>6. CASE ~(c.over /\ preload.on = a) /\ authCache[a] # "none"
  <2>1. Goes(r, [GotAuth(c, authCache[a]) EXCEPT !.raced = @ \/ a \in dirty])
    BY <1>0, <1>6 DEF LookAuth
  <2>2. PICK v \in Statuses : v = authCache[a]
    BY DEF CheckInv, TypeCaches
  <2>3. v = "valid" => a \in committed
    BY <2>2 DEF CheckInv, CacheInv, CommittedCached
  <2>4. CASE a \in dirty
    <3>1. Goes(r, [GotAuth(c, v) EXCEPT !.raced = @ \/ TRUE])
      BY <2>1, <2>2, <2>4
    <3> QED BY <1>3, <2>3, <3>1
  <2>5. CASE a \notin dirty
    <3>1. Goes(r, [GotAuth(c, v) EXCEPT !.raced = @ \/ FALSE])
      BY <2>1, <2>2, <2>5
    <3>2. v = Status(world, a)
      BY <1>6, <2>2, <2>5 DEF CheckInv, CacheInv, CachedIsSavedUnlessRaced
    <3> QED BY <1>3, <2>3, <3>1, <3>2
  <2> QED BY <2>4, <2>5
<1>7. CASE ~(c.over /\ preload.on = a) /\ authCache[a] = "none"
  <2>1. IF Status(world, a) = "none" THEN Goes(r, GotAuth(c, "none"))
        ELSE Goes(r, [c EXCEPT !.pc = IF c.pc = "ops" THEN "opsPut" ELSE "authPut",
                               !.value = Status(world, a)])
    BY <1>0, <1>7 DEF LookAuth
  <2>2. CASE Status(world, a) = "none"
    <3>1. Goes(r, [GotAuth(c, "none") EXCEPT !.raced = @ \/ FALSE])
      BY <1>1, <2>1, <2>2, GotSame DEF Statuses
    <3> QED BY <1>3, <2>2, <3>1 DEF Statuses
  <2>3. CASE Status(world, a) # "none"
    BY <1>4, <2>1, <2>3
  <2> QED BY <2>2, <2>3
<1> QED BY <1>5, <1>6, <1>7

LEMMA JoinAuthMoves ==
    ASSUME CheckInv, NEW r \in Readers, NEW a \in Auths, JoinAuth(r, a)
    PROVE  \E d : Moves(r, d)
<1>0. PICK c : c = [reader[r] EXCEPT !.at = a]
  OBVIOUS
<1>1. /\ c \in ReaderRecords /\ c.at = a /\ c.pc = reader[r].pc
      /\ c.raced = reader[r].raced /\ c.over = reader[r].over
      /\ c.pc \in OpsStages \cup AuthStages /\ c.pc \in {"ops", "auth"}
      /\ c.pc \in OpsStages => c.at \in c.todo
      /\ c.pc \in AuthStages => c.pc = "auth" /\ c.at = c.op
      /\ c.over => c.raced /\ preload # NoPreload
      /\ c.raced \/ ~PermissionSave
      /\ ~c.raced /\ c.pc \in OpsStages => c.acc \cup c.todo = world.granted
      /\ ~c.raced /\ c.pc \in AuthStages => c.acc = world.granted
  BY <1>0, LookFacts DEF JoinAuth
<1>2. PICK p \in Readers \ {r} :
          /\ reader[p].pc \in {"opsPut", "authPut"} /\ reader[p].at = a
          /\ Goes(r, [reader[r] EXCEPT !.at = a, !.leader = {p},
                            !.pc = IF reader[r].pc = "ops" THEN "opsWait" ELSE "authWait"])
  BY DEF JoinAuth
<1>3. PICK s \in {"opsWait", "authWait"} : s = IF c.pc = "ops" THEN "opsWait" ELSE "authWait"
  OBVIOUS
<1>4. PICK d : d = [reader[r] EXCEPT !.at = a, !.leader = {p}, !.pc = s]
  OBVIOUS
<1>5. /\ d \in ReaderRecords /\ d.pc = s /\ d.over = c.over /\ d.op = c.op
      /\ d.at = a /\ d.acc = c.acc /\ d.todo = c.todo /\ d.raced = c.raced
      /\ d.leader = {p}
  <2>1. reader[r] \in ReaderRecords
    BY ReaderFacts
  <2> QED BY <1>0, <1>3, <1>4, <2>1 DEF ReaderRecords, Stages
<1>6. s = "opsWait" => c.pc \in OpsStages
  BY <1>3 DEF OpsStages
<1>7. s = "authWait" => c.pc \in AuthStages
  BY <1>1, <1>3 DEF OpsStages
<1>8. Staged(d, preload, committed)
  BY <1>1, <1>3, <1>5, <1>6, <1>7 DEF Staged
<1>9. ~d.raced => Honest(d, world)
  BY <1>1, <1>3, <1>5, <1>6, <1>7 DEF Honest
<1>10. reader' = [reader EXCEPT ![r] = d]
  BY <1>1, <1>2, <1>3, <1>4 DEF Goes
<1>11. Sound(d, world, preload, committed)
  BY <1>5, <1>8, <1>9 DEF Sound
<1>12. d.leader = {p} /\ reader[p].pc \in {"opsPut", "authPut"} /\ reader[p].at = d.at
  BY <1>2, <1>5
<1> QED BY <1>1, <1>5, <1>10, <1>11, <1>12 DEF Moves

-----------------------------------------------------------------------------
(* What an authorization or a signer that is put does to those who wait.    *)

\* The steps that move one reader leave everything else alone, but for the index.
SingleSteps(r) ==
    \/ \E a \in Auths : \E over \in BOOLEAN : StartCheck(r, a, over)
    \/ \E a \in Auths : LookAuth(r, a) \/ JoinAuth(r, a)
    \/ HitSigner(r) \/ JoinSigner(r) \/ MissSigner(r) \/ LookIdx(r) \/ PutIdx(r)
    \/ Deny(r) \/ EndCheck(r)

LEMMA SingleMoves ==
    ASSUME CheckInv, NEW r \in Readers, SingleSteps(r)
    PROVE  \E d : Moves(r, d)
BY StartMoves, HitMoves, JoinSignerMoves, MissMoves, LookIdxMoves, PutIdxMoves, DenyMoves,
   EndMoves, LookAuthMoves, JoinAuthMoves
DEF SingleSteps

\* What a reader has to put.
LEMMA PuttingFacts ==
    ASSUME CheckInv, NEW r \in Readers, reader[r].pc \in {"opsPut", "authPut"}
    PROVE  LET c == reader[r]
           IN  /\ c \in ReaderRecords /\ c.at \in Auths /\ c.value \in Statuses
               /\ ~c.raced => c.value = Status(world, c.at)
               /\ c.value = "valid" => c.at \in committed
               /\ c.raced \in BOOLEAN /\ (c.raced \/ ~PermissionSave)
<1>1. /\ reader[r] \in ReaderRecords /\ Staged(reader[r], preload, committed)
      /\ ~reader[r].raced => Honest(reader[r], world)
      /\ reader[r].raced \/ ~PermissionSave
  BY ReaderFacts
<1>2. reader[r].at \in Auths /\ reader[r].value \in Statuses /\ reader[r].raced \in BOOLEAN
  BY <1>1 DEF ReaderRecords
<1> QED BY <1>1, <1>2 DEF Staged, Honest

\* All readers after an authorization has been put.
LEMMA PutAuthMoves ==
    ASSUME CheckInv, NEW r \in Readers, PutAuth(r)
    PROVE  /\ reader' \in [Readers -> ReaderRecords]
           /\ \A q \in Readers :
                /\ Sound(reader'[q], world, preload, committed)
                /\ reader'[q].pc # "idle" => reader'[q].raced \/ ~PermissionSave
                /\ \/ reader'[q].pc \in {"ops", "done"}
                   \/ q # r /\ q \notin Waiting(r, {"opsWait", "authWait"})
                /\ q # r /\ reader[q].pc \notin {"opsWait", "authWait"} =>
                      reader'[q] = reader[q]
                /\ \/ reader'[q].pc \in {"ops", "done"} \/ reader'[q] = reader[q]
<1> DEFINE c == reader[r]
<1>1. /\ c \in ReaderRecords /\ c.at \in Auths /\ c.value \in Statuses
      /\ ~c.raced => c.value = Status(world, c.at)
      /\ c.value = "valid" => c.at \in committed
      /\ c.raced \in BOOLEAN /\ (c.raced \/ ~PermissionSave)
      /\ c.pc \in {"opsPut", "authPut"}
  BY PuttingFacts DEF PutAuth
<1>2. PICK v \in Statuses, x \in Auths, b \in BOOLEAN : v = c.value /\ x = c.at /\ b = c.raced
  BY <1>1
<1> DEFINE W == Waiting(r, {"opsWait", "authWait"})
<1>3. reader' = [q \in Readers |->
          IF q = r THEN GotAuth(c, v)
          ELSE IF q \in W THEN [GotAuth(reader[q], v) EXCEPT !.raced = @ \/ b]
          ELSE reader[q]]
  BY <1>2 DEF PutAuth
<1>4. ASSUME NEW q \in Readers, q # r, q \in W
      PROVE  LET d == [GotAuth(reader[q], v) EXCEPT !.raced = @ \/ b]
             IN  /\ Sound(d, world, preload, committed) /\ d.pc \in {"ops", "done"}
                 /\ d.raced \/ ~PermissionSave
  <2>1. PICK e \in ReaderRecords : e = reader[q]
    BY ReaderFacts
  <2>2. e.pc \in {"opsWait", "authWait"} /\ e.leader = {r}
    BY <1>4, <2>1 DEF Waiting
  <2>3. e.at = x
    BY <1>2, <2>1, <2>2 DEF CheckInv, WaitInv
  <2>4. PICK d : d = [GotAuth(e, v) EXCEPT !.raced = @ \/ b]
    OBVIOUS
  <2>5. d = [GotAuth(e, v) EXCEPT !.raced = d.raced] /\ d.raced = (e.raced \/ b)
    BY <2>4, GotRaced
  <2>6. e.raced \in BOOLEAN /\ world \in GoodWorlds
    BY <2>1, ReaderFacts DEF ReaderRecords
  <2>7. /\ e.pc \in OpsStages \cup AuthStages
        /\ e.pc \in OpsStages => e.at \in e.todo
        /\ e.pc \in AuthStages => e.at = e.op
        /\ e.over => e.raced /\ preload # NoPreload
        /\ ~e.raced /\ e.pc \in OpsStages => e.acc \cup e.todo = world.granted
        /\ e.raced \/ ~PermissionSave
    BY <2>1, <2>2, ReaderFacts DEF Staged, Honest, OpsStages, AuthStages
  <2>8. /\ d.raced \in BOOLEAN /\ (e.raced => d.raced)
        /\ ~d.raced => v = Status(world, e.at)
        /\ v = "valid" => \/ e.at \in committed
                          \/ e.over /\ preload.on = e.at /\ preload.status = "valid"
    BY <1>1, <1>2, <2>3, <2>5, <2>6
  <2>9. Sound(d, world, preload, committed) /\ d.pc \in {"ops", "done"}
    BY <2>5, <2>6, <2>7, <2>8, GotSound
  <2>10. d.raced \/ ~PermissionSave
    BY <2>7, <2>8
  <2> QED BY <2>1, <2>4, <2>9, <2>10
<1>5. /\ Sound(GotAuth(c, v), world, preload, committed) /\ GotAuth(c, v).pc \in {"ops", "done"}
      /\ GotAuth(c, v).raced \/ ~PermissionSave
  <2>1. PICK e \in ReaderRecords : e = c
    BY <1>1
  <2>2. e.pc \in {"opsPut", "authPut"} /\ e.at = x
    BY <1>1, <1>2, <2>1
  <2>4. PICK d : d = [GotAuth(e, v) EXCEPT !.raced = @ \/ FALSE]
    OBVIOUS
  <2>5. d = [GotAuth(e, v) EXCEPT !.raced = d.raced] /\ d.raced = (e.raced \/ FALSE)
        /\ d = GotAuth(e, v)
    BY <2>4, GotRaced, GotSame
  <2>6. e.raced \in BOOLEAN /\ world \in GoodWorlds
    BY <2>1, ReaderFacts DEF ReaderRecords
  <2>7. /\ e.pc \in OpsStages \cup AuthStages
        /\ e.pc \in OpsStages => e.at \in e.todo
        /\ e.pc \in AuthStages => e.at = e.op
        /\ e.over => e.raced /\ preload # NoPreload
        /\ ~e.raced /\ e.pc \in OpsStages => e.acc \cup e.todo = world.granted
        /\ e.raced \/ ~PermissionSave
    BY <2>1, <2>2, ReaderFacts DEF Staged, Honest, OpsStages, AuthStages
  <2>8. /\ d.raced \in BOOLEAN /\ (e.raced => d.raced)
        /\ ~d.raced => v = Status(world, e.at)
        /\ v = "valid" => \/ e.at \in committed
                          \/ e.over /\ preload.on = e.at /\ preload.status = "valid"
    BY <1>1, <1>2, <2>1, <2>5, <2>6
  <2>9. Sound(d, world, preload, committed) /\ d.pc \in {"ops", "done"}
    BY <2>5, <2>6, <2>7, <2>8, GotSound
  <2> QED BY <2>1, <2>5, <2>7, <2>8, <2>9
<1>6. ASSUME NEW q \in Readers
      PROVE  /\ Sound(reader'[q], world, preload, committed)
             /\ reader'[q].pc # "idle" => reader'[q].raced \/ ~PermissionSave
             /\ \/ reader'[q].pc \in {"ops", "done"}
                \/ q # r /\ q \notin Waiting(r, {"opsWait", "authWait"})
             /\ q # r /\ reader[q].pc \notin {"opsWait", "authWait"} =>
                   reader'[q] = reader[q]
             /\ \/ reader'[q].pc \in {"ops", "done"} \/ reader'[q] = reader[q]
  <2>1. CASE q = r
    <3>1. reader'[q] = GotAuth(c, v)
      BY <1>3, <2>1
    <3> HIDE DEF c
    <3> QED BY <1>5, <2>1, <3>1
  <2>2. CASE q # r /\ q \in W
    <3>1. reader'[q] = [GotAuth(reader[q], v) EXCEPT !.raced = @ \/ b]
      BY <1>3, <2>2
    <3>2. reader[q].pc \in {"opsWait", "authWait"}
      BY <2>2 DEF Waiting
    <3> QED BY <1>4, <2>2, <3>1, <3>2
  <2>3. CASE q # r /\ q \notin W
    <3>1. reader'[q] = reader[q]
      BY <1>3, <2>3
    <3>2. Sound(reader[q], world, preload, committed)
      BY DEF CheckInv, ReaderInv
    <3> QED BY <2>3, <3>1, <3>2, ReaderFacts
  <2> QED BY <2>1, <2>2, <2>3
<1>7. reader' \in [Readers -> ReaderRecords]
  <2>1. \A q \in Readers : reader'[q] \in ReaderRecords
    BY <1>6 DEF Sound
  <2>2. reader' = [q \in Readers |-> reader'[q]]
    BY <1>3
  <2> QED BY <2>1, <2>2
<1> QED BY <1>6, <1>7

\* All readers after a signer has been put.
LEMMA PutSignerMoves ==
    ASSUME CheckInv, NEW r \in Readers, PutSigner(r)
    PROVE  /\ reader' \in [Readers -> ReaderRecords]
           /\ \A q \in Readers :
                /\ Sound(reader'[q], world, preload, committed)
                /\ reader'[q].pc # "idle" => reader'[q].raced \/ ~PermissionSave
                /\ reader'[q].pc = "auth" \/ (q # r /\ reader'[q] = reader[q])
                /\ q # r /\ reader[q].pc # "signerWait" => reader'[q] = reader[q]
           /\ reader[r].pc = "ops" /\ (~reader[r].raced => reader[r].acc = world.granted)
           /\ reader[r].acc \subseteq Auths
<1>1. PICK c \in ReaderRecords : c = reader[r]
  BY ReaderFacts
<1>2. /\ c.pc = "ops" /\ c.todo = {} /\ c.acc \subseteq Auths /\ c.raced \in BOOLEAN
      /\ ~c.raced => c.acc = world.granted
      /\ c.over => c.raced /\ preload # NoPreload
      /\ c.raced \/ ~PermissionSave
  BY <1>1, ReaderFacts DEF PutSigner, Staged, Honest, ReaderRecords
<1> DEFINE W == Waiting(r, {"signerWait"})
<1>3. reader' = [q \in Readers |->
          IF q = r THEN [c EXCEPT !.pc = "auth"]
          ELSE IF q \in W
          THEN [reader[q] EXCEPT !.pc = "auth", !.acc = c.acc, !.leader = {},
                                 !.raced = @ \/ c.raced]
          ELSE reader[q]]
  BY <1>1 DEF PutSigner
<1>4. ASSUME NEW q \in Readers
      PROVE  /\ Sound(reader'[q], world, preload, committed)
             /\ reader'[q].pc # "idle" => reader'[q].raced \/ ~PermissionSave
             /\ reader'[q].pc = "auth" \/ (q # r /\ reader'[q] = reader[q])
             /\ q # r /\ reader[q].pc # "signerWait" => reader'[q] = reader[q]
  <2>1. CASE q = r
    <3>1. PICK d : d = [c EXCEPT !.pc = "auth"]
      OBVIOUS
    <3>2. reader'[q] = d
      BY <1>3, <2>1, <3>1
    <3>3. /\ d \in ReaderRecords /\ d.pc = "auth" /\ d.over = c.over /\ d.acc = c.acc
          /\ d.raced = c.raced
      BY <3>1 DEF ReaderRecords, Stages
    <3>4. Sound(d, world, preload, committed)
      BY <1>2, <3>3 DEF Sound, Staged, Honest
    <3>5. d.pc = "auth" /\ (d.raced \/ ~PermissionSave)
      BY <1>2, <3>3
    <3> QED BY <2>1, <3>2, <3>4, <3>5
  <2>2. CASE q # r /\ q \in W
    <3>0. PICK e \in ReaderRecords : e = reader[q]
      BY ReaderFacts
    <3>1. PICK d : d = [e EXCEPT !.pc = "auth", !.acc = c.acc, !.leader = {},
                                 !.raced = e.raced \/ c.raced]
      OBVIOUS
    <3>2. reader'[q] = d
      BY <1>3, <2>2, <3>0, <3>1
    <3>3. /\ e.pc = "signerWait" /\ (e.over => e.raced /\ preload # NoPreload)
          /\ e.raced \in BOOLEAN
      BY <2>2, <3>0, ReaderFacts DEF Waiting, Staged, ReaderRecords
    <3>4. /\ d \in ReaderRecords /\ d.pc = "auth" /\ d.over = e.over /\ d.acc = c.acc
          /\ d.raced = (e.raced \/ c.raced)
      BY <1>2, <3>1, <3>3 DEF ReaderRecords, Stages
    <3>5. Sound(d, world, preload, committed)
      BY <1>2, <3>3, <3>4 DEF Sound, Staged, Honest
    <3>6. d.pc = "auth" /\ (d.raced \/ ~PermissionSave)
      BY <1>2, <3>4
    <3> QED BY <3>0, <3>2, <3>3, <3>5, <3>6
  <2>3. CASE q # r /\ q \notin W
    <3>1. reader'[q] = reader[q]
      BY <1>3, <2>3
    <3>2. Sound(reader[q], world, preload, committed)
      BY DEF CheckInv, ReaderInv
    <3> QED BY <2>3, <3>1, <3>2, ReaderFacts
  <2> QED BY <2>1, <2>2, <2>3
<1>5. reader' \in [Readers -> ReaderRecords]
  <2>1. \A q \in Readers : reader'[q] \in ReaderRecords
    BY <1>4 DEF Sound
  <2>2. reader' = [q \in Readers |-> reader'[q]]
    BY <1>3
  <2> QED BY <2>1, <2>2
<1> QED BY <1>1, <1>2, <1>4, <1>5

-----------------------------------------------------------------------------
(* The next-state relation by what a step may touch.                        *)

CheckSteps == \E r \in Readers : SingleSteps(r) \/ PutAuth(r) \/ PutSigner(r)

VoteSteps ==
    \/ \E t \in threads : UpdateVoteList(t) \/ GetVoteList(t) \/ SendVoteList(t)
    \/ ReadVoteList \/ ListenVoteList

LEMMA NextCases ==
    ASSUME [Next]_vars
    PROVE  /\ schedule' = schedule
           /\ \/ \E x \in Writes : Preload(x) \/ BeginSave(x)
              \/ Discard \/ BeginRollback \/ NotifyVoteList \/ Commit \/ CommitFails
              \/ \E k \in {"signer", "idx", "auth"} : DropEntry(k)
              \/ CheckSteps \/ VoteSteps \/ Restart \/ UNCHANGED vars
<1>1. schedule' = schedule
  BY DEF Next, vars
<1>2. CASE Saving
  BY <1>1, <1>2 DEF Saving
<1>3. CASE \E r \in Readers : Checking(r)
  <2>1. \A r \in Readers : Checking(r) => SingleSteps(r) \/ PutAuth(r) \/ PutSigner(r)
    BY DEF Checking, SingleSteps
  <2> QED BY <1>1, <1>3, <2>1 DEF CheckSteps
<1>4. CASE Voting
  BY <1>1, <1>4 DEF Voting, VoteSteps
<1>5. CASE Restart \/ UNCHANGED vars
  BY <1>1, <1>5
<1> QED BY <1>2, <1>3, <1>4, <1>5 DEF Next

\* A check leaves blocks and votes alone, and caches what it has.
LEMMA CheckFoot ==
    ASSUME CheckSteps
    PROVE  /\ UNCHANGED <<world, undo, saving, preload, committed>>
           /\ UNCHANGED <<list, tmp, changed, threads, mail, stable, strayed>>
           /\ left' = left \/ Uses("checks")
<1>1. PICK r \in Readers : SingleSteps(r) \/ PutAuth(r) \/ PutSigner(r)
  BY DEF CheckSteps
<1>2. CASE PutAuth(r)
  BY <1>2 DEF PutAuth, blocks, voting
<1>3. CASE PutSigner(r)
  BY <1>3 DEF PutSigner, blocks, voting
<1>4. CASE HitSigner(r) \/ JoinSigner(r) \/ MissSigner(r)
  BY <1>4 DEF HitSigner, JoinSigner, MissSigner, OnlyReads, blocks, voting
<1>5. CASE LookIdx(r)
  BY <1>5 DEF LookIdx, OnlyReads, blocks, voting
<1>6. CASE PutIdx(r) \/ Deny(r) \/ EndCheck(r)
  BY <1>6 DEF PutIdx, Deny, EndCheck, OnlyReads, blocks, voting
<1>7. ASSUME NEW a \in Auths, NEW over \in BOOLEAN, StartCheck(r, a, over)
      PROVE  /\ UNCHANGED <<world, undo, saving, preload, committed>>
             /\ UNCHANGED <<list, tmp, changed, threads, mail, stable, strayed>>
             /\ left' = left \/ Uses("checks")
  BY <1>7 DEF StartCheck, blocks, voting
<1>8. ASSUME NEW a \in Auths, LookAuth(r, a)
      PROVE  /\ UNCHANGED <<world, undo, saving, preload, committed>>
             /\ UNCHANGED <<list, tmp, changed, threads, mail, stable, strayed>>
             /\ left' = left
  BY <1>8 DEF LookAuth, OnlyReads, blocks, voting
<1>9. ASSUME NEW a \in Auths, JoinAuth(r, a)
      PROVE  /\ UNCHANGED <<world, undo, saving, preload, committed>>
             /\ UNCHANGED <<list, tmp, changed, threads, mail, stable, strayed>>
             /\ left' = left
  BY <1>9 DEF JoinAuth, OnlyReads, blocks, voting
<1> QED BY <1>1, <1>2, <1>3, <1>4, <1>5, <1>6, <1>7, <1>8, <1>9 DEF SingleSteps

\* What a check puts into a cache is that of the world, or is marked.
PutsIdx(r) ==
    /\ idxCache' = {reader[r].todo} /\ dirty' = Marked(r, "idx")
    /\ UNCHANGED <<signerCache, authCache>>
PutsAuth(r) ==
    /\ authCache' = [authCache EXCEPT ![reader[r].at] = reader[r].value]
    /\ dirty' = Marked(r, reader[r].at)
    /\ UNCHANGED <<signerCache, idxCache>>
PutsSigner(r) ==
    /\ signerCache' = {reader[r].acc} /\ dirty' = Marked(r, "signer")
    /\ UNCHANGED <<idxCache, authCache>>

LEMMA CheckCaches ==
    ASSUME CheckSteps
    PROVE  \/ UNCHANGED caches
           \/ \E r \in Readers :
                 \/ reader[r].pc = "idxPut" /\ PutsIdx(r)
                 \/ reader[r].pc \in {"opsPut", "authPut"} /\ PutsAuth(r)
                 \/ reader[r].pc = "ops" /\ reader[r].todo = {} /\ PutsSigner(r)
<1>1. PICK r \in Readers : SingleSteps(r) \/ PutAuth(r) \/ PutSigner(r)
  BY DEF CheckSteps
<1>2. CASE PutAuth(r)
  BY <1>2 DEF PutAuth, PutsAuth
<1>3. CASE PutSigner(r)
  BY <1>3 DEF PutSigner, PutsSigner
<1>4. CASE HitSigner(r) \/ JoinSigner(r) \/ MissSigner(r)
  BY <1>4 DEF HitSigner, JoinSigner, MissSigner, OnlyReads
<1>5. CASE LookIdx(r)
  BY <1>5 DEF LookIdx, OnlyReads
<1>6. CASE Deny(r) \/ EndCheck(r)
  BY <1>6 DEF Deny, EndCheck, OnlyReads
<1>7. CASE PutIdx(r)
  BY <1>7 DEF PutIdx, PutsIdx
<1>8. ASSUME NEW a \in Auths, NEW over \in BOOLEAN, StartCheck(r, a, over)
      PROVE  UNCHANGED caches
  BY <1>8 DEF StartCheck
<1>9. ASSUME NEW a \in Auths, LookAuth(r, a) PROVE UNCHANGED caches
  BY <1>9 DEF LookAuth, OnlyReads
<1>10. ASSUME NEW a \in Auths, JoinAuth(r, a) PROVE UNCHANGED caches
  BY <1>10 DEF JoinAuth, OnlyReads
<1> QED BY <1>1, <1>2, <1>3, <1>4, <1>5, <1>6, <1>7, <1>8, <1>9, <1>10 DEF SingleSteps

LEMMA VoteFoot ==
    ASSUME VoteSteps
    PROVE  UNCHANGED <<blocks, caches, reader, strayed, left>>
BY DEF VoteSteps, UpdateVoteList, GetVoteList, SendVoteList, ReadVoteList, ListenVoteList

\* What executions, saves and rollbacks leave alone.
SaveSteps ==
    \/ \E x \in Writes : Preload(x) \/ BeginSave(x)
    \/ Discard \/ BeginRollback \/ NotifyVoteList \/ Commit \/ CommitFails
    \/ \E k \in {"signer", "idx", "auth"} : DropEntry(k)

LEMMA SaveFoot ==
    ASSUME SaveSteps
    PROVE  /\ UNCHANGED <<list, tmp, changed, mail, stable>>
           /\ (~NotifyVoteList => threads' = threads)
           /\ (\A k \in {"signer", "idx", "auth"} : ~DropEntry(k)) => UNCHANGED caches
           /\ reader' = reader \/ reader' = AllRaced
           /\ \/ left' = left
              \/ \E k \in {"blocks", "rollbacks", "checks", "preloads", "faults"} : Uses(k)
<1>1. CASE \E x \in Writes : Preload(x) \/ BeginSave(x)
  BY <1>1 DEF Preload, BeginSave, voting
<1>2. CASE Discard \/ Commit
  BY <1>2 DEF Discard, Commit, voting
<1>3. CASE BeginRollback
  BY <1>3 DEF BeginRollback, voting
<1>4. CASE CommitFails
  BY <1>4 DEF CommitFails
<1>5. CASE NotifyVoteList
  BY <1>5 DEF NotifyVoteList
<1>6. CASE \E k \in {"signer", "idx", "auth"} : DropEntry(k)
  BY <1>6 DEF DropEntry, voting
<1> QED BY <1>1, <1>2, <1>3, <1>4, <1>5, <1>6 DEF SaveSteps

-----------------------------------------------------------------------------
(* Checks keep what readers hold.                                           *)

ReadersNext == TypeReader' /\ ReaderInv' /\ RacedInv' /\ WaitInv'

LEMMA SingleReaders ==
    ASSUME CheckInv, NEW r \in Readers, SingleSteps(r),
           UNCHANGED <<world, saving, preload, committed>>
    PROVE  ReadersNext
<1>1. PICK d : Moves(r, d)
  BY SingleMoves
<1>2. reader \in [Readers -> ReaderRecords] /\ reader' = [reader EXCEPT ![r] = d]
  BY <1>1 DEF Moves, CheckInv, TypeReader
<1>3. d \in ReaderRecords /\ Sound(d, world, preload, committed)
  BY <1>1 DEF Moves, Sound
<1>4. /\ reader' \in [Readers -> ReaderRecords] /\ reader'[r] = d
      /\ \A q \in Readers : q # r => reader'[q] = reader[q]
  BY <1>2, <1>3
<1>5. ReaderInv'
  <2>1. \A q \in Readers : Sound(reader[q], world, preload, committed)
    BY DEF CheckInv, ReaderInv
  <2>2. \A q \in Readers : Sound(reader'[q], world, preload, committed)
    BY <1>3, <1>4, <2>1
  <2> QED BY <2>2 DEF ReaderInv
<1>6. RacedInv'
  <2>1. PermissionSave' <=> PermissionSave
    BY DEF PermissionSave
  <2>2. d.pc # "idle" => d.raced \/ ~PermissionSave
    BY <1>1 DEF Moves
  <2> QED BY <1>4, <2>1, <2>2 DEF RacedInv, CheckInv
<1>7. WaitInv'
  <2> SUFFICES ASSUME NEW q \in Readers, reader'[q].pc \in {"opsWait", "authWait"}
               PROVE  \E p \in Readers :
                        /\ reader'[q].leader = {p}
                        /\ reader'[p].pc \in {"opsPut", "authPut"}
                        /\ reader'[p].at = reader'[q].at
    BY DEF WaitInv
  <2>1. PICK p \in Readers \ {r} :
            /\ reader'[q].leader = {p}
            /\ reader[p].pc \in {"opsPut", "authPut"} /\ reader[p].at = reader'[q].at
    <3>1. CASE q = r
      BY <1>1, <1>4, <3>1 DEF Moves
    <3>2. CASE q # r
      BY <1>1, <1>4, <3>2 DEF Moves, CheckInv, WaitInv
    <3> QED BY <3>1, <3>2
  <2> QED BY <1>4, <2>1
<1> QED BY <1>4, <1>5, <1>6, <1>7 DEF ReadersNext, TypeReader

LEMMA PutAuthReaders ==
    ASSUME CheckInv, NEW r \in Readers, PutAuth(r),
           UNCHANGED <<world, saving, preload, committed>>
    PROVE  ReadersNext
<1>1. /\ reader' \in [Readers -> ReaderRecords]
      /\ \A q \in Readers :
                /\ Sound(reader'[q], world, preload, committed)
                /\ reader'[q].pc # "idle" => reader'[q].raced \/ ~PermissionSave
                /\ \/ reader'[q].pc \in {"ops", "done"}
                   \/ q # r /\ q \notin Waiting(r, {"opsWait", "authWait"})
                /\ q # r /\ reader[q].pc \notin {"opsWait", "authWait"} =>
                      reader'[q] = reader[q]
                /\ \/ reader'[q].pc \in {"ops", "done"} \/ reader'[q] = reader[q]
  BY PutAuthMoves
<1>5. ReaderInv'
  BY <1>1 DEF ReaderInv
<1>6. RacedInv'
  <2>1. PermissionSave' <=> PermissionSave
    BY DEF PermissionSave
  <2> QED BY <1>1, <2>1 DEF RacedInv
<1>7. WaitInv'
  <2> SUFFICES ASSUME NEW q \in Readers, reader'[q].pc \in {"opsWait", "authWait"}
               PROVE  \E p \in Readers :
                        /\ reader'[q].leader = {p}
                        /\ reader'[p].pc \in {"opsPut", "authPut"}
                        /\ reader'[p].at = reader'[q].at
    BY DEF WaitInv
  <2>1. reader'[q] = reader[q] /\ q \notin Waiting(r, {"opsWait", "authWait"})
    BY <1>1
  <2>2. PICK p \in Readers :
            /\ reader[q].leader = {p}
            /\ reader[p].pc \in {"opsPut", "authPut"} /\ reader[p].at = reader[q].at
    BY <2>1 DEF CheckInv, WaitInv
  <2>3. p # r
    BY <2>1, <2>2 DEF Waiting
  <2>4. reader'[p] = reader[p]
    BY <1>1, <2>2, <2>3
  <2> QED BY <2>1, <2>2, <2>4
<1> QED BY <1>1, <1>5, <1>6, <1>7 DEF ReadersNext, TypeReader

LEMMA PutSignerReaders ==
    ASSUME CheckInv, NEW r \in Readers, PutSigner(r),
           UNCHANGED <<world, saving, preload, committed>>
    PROVE  ReadersNext
<1>1. /\ reader' \in [Readers -> ReaderRecords]
      /\ \A q \in Readers :
                /\ Sound(reader'[q], world, preload, committed)
                /\ reader'[q].pc # "idle" => reader'[q].raced \/ ~PermissionSave
                /\ reader'[q].pc = "auth" \/ (q # r /\ reader'[q] = reader[q])
                /\ q # r /\ reader[q].pc # "signerWait" => reader'[q] = reader[q]
      /\ reader[r].pc = "ops"
  BY PutSignerMoves
<1>5. ReaderInv'
  BY <1>1 DEF ReaderInv
<1>6. RacedInv'
  <2>1. PermissionSave' <=> PermissionSave
    BY DEF PermissionSave
  <2> QED BY <1>1, <2>1 DEF RacedInv
<1>7. WaitInv'
  <2> SUFFICES ASSUME NEW q \in Readers, reader'[q].pc \in {"opsWait", "authWait"}
               PROVE  \E p \in Readers :
                        /\ reader'[q].leader = {p}
                        /\ reader'[p].pc \in {"opsPut", "authPut"}
                        /\ reader'[p].at = reader'[q].at
    BY DEF WaitInv
  <2>1. reader'[q] = reader[q]
    BY <1>1
  <2>2. PICK p \in Readers :
            /\ reader[q].leader = {p}
            /\ reader[p].pc \in {"opsPut", "authPut"} /\ reader[p].at = reader[q].at
    BY <2>1 DEF CheckInv, WaitInv
  <2>4. reader'[p] = reader[p]
    BY <1>1, <2>2
  <2> QED BY <2>1, <2>2, <2>4
<1> QED BY <1>1, <1>5, <1>6, <1>7 DEF ReadersNext, TypeReader

LEMMA CheckReaders ==
    ASSUME CheckInv, CheckSteps
    PROVE  ReadersNext
BY CheckFoot, SingleReaders, PutAuthReaders, PutSignerReaders DEF CheckSteps

-----------------------------------------------------------------------------
(* Checks keep the caches.                                                  *)

CachesNext == TypeCaches' /\ CommittedCached' /\ CachedIsSavedUnlessRaced' /\ DropInv'

\* A check that puts something while permissions are saved was overtaken.
LEMMA PutsIdxNext ==
    ASSUME CheckInv, DropInv, NEW r \in Readers, reader[r].pc = "idxPut", PutsIdx(r),
           UNCHANGED <<world, saving, preload, committed>>
    PROVE  CachesNext
<1>1. PICK S \in SUBSET Auths, b \in BOOLEAN :
          /\ S = reader[r].todo /\ b = reader[r].raced
          /\ b \/ S = world.granted
          /\ b \/ ~PermissionSave
  BY ReaderFacts DEF Honest, ReaderRecords
<1>2. /\ idxCache' = {S} /\ dirty' = (IF b THEN dirty \cup {"idx"} ELSE dirty \ {"idx"})
      /\ signerCache' = signerCache /\ authCache' = authCache
  BY <1>1 DEF PutsIdx, Marked
<1>3. TypeCaches'
  BY <1>1, <1>2, SmallSets DEF CheckInv, TypeCaches
<1>4. CommittedCached'
  BY <1>2 DEF CheckInv, CacheInv, CommittedCached
<1>5. CachedIsSavedUnlessRaced'
  BY <1>1, <1>2, ConstantFacts DEF CheckInv, CacheInv, CachedIsSavedUnlessRaced
<1>6. DropInv'
  <2> SUFFICES ASSUME saving # NoSave PROVE DropInv'
    BY DEF DropInv
  <2>1. /\ saving.write \in Writes /\ saving.todo \subseteq KeysOf(saving.write)
        /\ saving.op # "none"
    BY SaveFacts, SaveOp DEF CheckInv
  <2>2. b \/ saving.write.kind = "votes"
    BY <1>1, <2>1 DEF PermissionSave
  <2>3. CASE b
    BY <1>2, <2>3 DEF DropInv
  <2>4. CASE saving.write.kind = "votes"
    BY <1>2, <2>1, <2>4, WriteFacts DEF DropInv
  <2> QED BY <2>2, <2>3, <2>4
<1> QED BY <1>3, <1>4, <1>5, <1>6 DEF CachesNext

LEMMA PutsSignerNext ==
    ASSUME CheckInv, DropInv, NEW r \in Readers, reader[r].pc = "ops",
           reader[r].todo = {}, PutsSigner(r),
           UNCHANGED <<world, saving, preload, committed>>
    PROVE  CachesNext
<1>1. PICK S \in SUBSET Auths, b \in BOOLEAN :
          /\ S = reader[r].acc /\ b = reader[r].raced
          /\ b \/ S = world.granted
          /\ b \/ ~PermissionSave
  BY ReaderFacts DEF Honest, ReaderRecords
<1>2. /\ signerCache' = {S}
      /\ dirty' = (IF b THEN dirty \cup {"signer"} ELSE dirty \ {"signer"})
      /\ idxCache' = idxCache /\ authCache' = authCache
  BY <1>1 DEF PutsSigner, Marked
<1>3. TypeCaches'
  BY <1>1, <1>2, SmallSets DEF CheckInv, TypeCaches
<1>4. CommittedCached'
  BY <1>2 DEF CheckInv, CacheInv, CommittedCached
<1>5. CachedIsSavedUnlessRaced'
  BY <1>1, <1>2, ConstantFacts DEF CheckInv, CacheInv, CachedIsSavedUnlessRaced
<1>6. DropInv'
  <2> SUFFICES ASSUME saving # NoSave PROVE DropInv'
    BY DEF DropInv
  <2>1. /\ saving.write \in Writes /\ saving.todo \subseteq KeysOf(saving.write)
        /\ saving.op # "none"
    BY SaveFacts, SaveOp DEF CheckInv
  <2>2. b \/ saving.write.kind = "votes"
    BY <1>1, <2>1 DEF PermissionSave
  <2>3. CASE b
    BY <1>2, <2>3 DEF DropInv
  <2>4. CASE saving.write.kind = "votes"
    BY <1>2, <2>1, <2>4, WriteFacts DEF DropInv
  <2> QED BY <2>2, <2>3, <2>4
<1> QED BY <1>3, <1>4, <1>5, <1>6 DEF CachesNext

LEMMA PutsAuthNext ==
    ASSUME CheckInv, DropInv, NEW r \in Readers, reader[r].pc \in {"opsPut", "authPut"},
           PutsAuth(r), UNCHANGED <<world, saving, preload, committed>>
    PROVE  CachesNext
<1>1. PICK a \in Auths, v \in Statuses, b \in BOOLEAN :
          /\ a = reader[r].at /\ v = reader[r].value /\ b = reader[r].raced
          /\ b \/ v = Status(world, a)
          /\ b \/ ~PermissionSave
          /\ v = "valid" => a \in committed
  BY PuttingFacts
<1>2. /\ authCache' = [authCache EXCEPT ![a] = v]
      /\ dirty' = (IF b THEN dirty \cup {a} ELSE dirty \ {a})
      /\ signerCache' = signerCache /\ idxCache' = idxCache
  BY <1>1 DEF PutsAuth, Marked
<1>3. authCache \in [Auths -> Statuses]
  BY DEF CheckInv, TypeCaches
<1>4. TypeCaches'
  BY <1>1, <1>2, <1>3 DEF CheckInv, TypeCaches
<1>5. CommittedCached'
  BY <1>1, <1>2, <1>3 DEF CheckInv, CacheInv, CommittedCached
<1>6. CachedIsSavedUnlessRaced'
  BY <1>1, <1>2, <1>3, ConstantFacts DEF CheckInv, CacheInv, CachedIsSavedUnlessRaced
<1>7. DropInv'
  <2> SUFFICES ASSUME saving # NoSave PROVE DropInv'
    BY DEF DropInv
  <2>1. /\ saving.write \in Writes /\ saving.todo \subseteq KeysOf(saving.write)
        /\ saving.op # "none"
    BY SaveFacts, SaveOp DEF CheckInv
  <2>2. b \/ saving.write.kind = "votes"
    BY <1>1, <2>1 DEF PermissionSave
  <2>3. CASE b
    BY <1>1, <1>2, <1>3, <2>3, ConstantFacts DEF DropInv
  <2>4. CASE saving.write.kind = "votes"
    BY <1>2, <2>1, <2>4, WriteFacts DEF DropInv
  <2> QED BY <2>2, <2>3, <2>4
<1> QED BY <1>4, <1>5, <1>6, <1>7 DEF CachesNext

LEMMA CheckCachesNext ==
    ASSUME CheckInv, DropInv, CheckSteps
    PROVE  CachesNext
<1>1. UNCHANGED <<world, saving, preload, committed>>
  BY CheckFoot
<1>2. CASE UNCHANGED caches
  BY <1>1, <1>2 DEF caches, CheckInv, CacheInv, CachesNext, TypeCaches, CommittedCached,
                    CachedIsSavedUnlessRaced, DropInv
<1> QED BY <1>1, <1>2, CheckCaches, PutsIdxNext, PutsAuthNext, PutsSignerNext

-----------------------------------------------------------------------------
(* Saves and rollbacks keep the blocks and the world.                       *)

BlocksNext == TypeBlocks' /\ WorldInv'

LEMMA SameButBack ==
    ASSUME NEW v, NEW w, NEW x, SameBut(v, w, x)
    PROVE  SameBut(w, v, x)
BY DEF SameBut

LEMMA PreloadBlocks ==
    ASSUME TypeBlocks, WorldInv,
           (\E x \in Writes : Preload(x)) \/ Discard
    PROVE  BlocksNext
<1>1. UNCHANGED <<world, undo, saving, committed>>
  BY DEF Preload, Discard
<1>2. preload' = NoPreload \/ preload' \in PreloadRecords
  <2>1. CASE Discard
    BY <2>1 DEF Discard
  <2>2. ASSUME NEW x \in Writes, Preload(x)
        PROVE  preload' \in PreloadRecords
    <3>1. PICK w : w = After(world, x)
      OBVIOUS
    <3>2. x.kind \in {"grant", "flip"} /\ x.on \in Auths
      BY <2>2, WriteFacts DEF Preload
    <3>3. w \in GoodWorlds /\ world \in GoodWorlds
      BY <2>2, <3>1, AfterFacts DEF Preload, TypeBlocks
    <3>4. w.granted \in SUBSET Auths /\ Status(w, x.on) \in Statuses
      BY <3>2, <3>3, StatusFacts DEF GoodWorlds, Worlds
    <3>5. preload' = [kind |-> x.kind, on |-> x.on, granted |-> w.granted,
                      status |-> Status(w, x.on)]
      BY <2>2, <3>1 DEF Preload
    <3> QED BY <3>2, <3>4, <3>5 DEF PreloadRecords
  <2> QED BY <2>1, <2>2
<1>3. TypeBlocks'
  BY <1>1, <1>2 DEF TypeBlocks
<1>4. WorldInv'
  BY <1>1 DEF WorldInv
<1> QED BY <1>3, <1>4 DEF BlocksNext

\* A batch that is opened.
LEMMA BeginBlocks ==
    ASSUME TypeBlocks, WorldInv, NEW op \in {"save", "rollback"}, NEW x \in Writes,
           NEW w \in GoodWorlds, SameBut(w, world, x),
           op = "save" /\ x.kind = "votes" => w.votes = x.on,
           op = "rollback" => undo # <<>> /\ w = undo[Len(undo)].before,
           saving' = [op |-> op, write |-> x, new |-> w, todo |-> KeysOf(x)],
           UNCHANGED <<world, undo, preload, committed>>
    PROVE  BlocksNext
<1>1. saving' \in SaveRecords
  BY WriteFacts DEF SaveRecords
<1>2. TypeBlocks'
  BY <1>1 DEF TypeBlocks
<1>3. WorldInv'
  BY DEF WorldInv
<1> QED BY <1>2, <1>3 DEF BlocksNext

\* The last block saved.
LEMMA LastUndo ==
    ASSUME TypeBlocks, undo # <<>>
    PROVE  /\ Len(undo) \in Nat \ {0} /\ Len(undo) \in DOMAIN undo
           /\ undo[Len(undo)] \in UndoRecords
           /\ undo[Len(undo)].write \in Writes /\ undo[Len(undo)].before \in GoodWorlds
<1>1. undo \in Seq(UndoRecords)
  BY DEF TypeBlocks
<1>2. Len(undo) \in Nat \ {0} /\ undo[Len(undo)] \in UndoRecords
  BY <1>1
<1> QED BY <1>1, <1>2 DEF UndoRecords

LEMMA BeginRollbackFacts ==
    ASSUME TypeBlocks, WorldInv, BeginRollback
    PROVE  \E x \in Writes, w \in GoodWorlds :
              /\ SameBut(w, world, x) /\ saving = NoSave
              /\ undo # <<>> /\ w = undo[Len(undo)].before
              /\ saving' = [op |-> "rollback", write |-> x, new |-> w, todo |-> KeysOf(x)]
              /\ reader' = IF x.kind = "votes" THEN reader ELSE AllRaced
              /\ UNCHANGED <<world, undo, preload, committed>>
<1>1. undo # <<>>
  BY DEF BeginRollback
<1>2. PICK n : n = Len(undo)
  OBVIOUS
<1>3. PICK u \in UndoRecords : u = undo[n] /\ n \in DOMAIN undo
  BY <1>1, <1>2, LastUndo
<1>4. u.write \in Writes /\ u.before \in GoodWorlds
  BY <1>3 DEF UndoRecords
<1>5. SameBut(world, u.before, u.write)
  BY <1>2, <1>3 DEF WorldInv
<1>6. SameBut(u.before, world, u.write)
  BY <1>5, SameButBack
<1>7. /\ saving = NoSave
      /\ saving' = [op |-> "rollback", write |-> u.write, new |-> u.before,
                    todo |-> KeysOf(u.write)]
      /\ reader' = IF u.write.kind = "votes" THEN reader ELSE AllRaced
      /\ UNCHANGED <<world, undo, preload, committed>>
  BY <1>2, <1>3 DEF BeginRollback
<1> QED BY <1>1, <1>2, <1>3, <1>4, <1>6, <1>7

\* One of the keys has been told of.
LEMMA ToldFacts ==
    ASSUME TypeBlocks, saving # NoSave, NEW k, Told(k)
    PROVE  /\ saving' # NoSave /\ saving'.op = saving.op /\ saving'.write = saving.write
           /\ saving'.new = saving.new /\ saving'.todo = saving.todo \ {k}
           /\ saving' \in SaveRecords
<1>1. saving \in SaveRecords
  BY SaveFacts
<1>2. /\ saving' \in SaveRecords /\ saving'.op = saving.op /\ saving'.write = saving.write
      /\ saving'.new = saving.new /\ saving'.todo = saving.todo \ {k}
  BY <1>1 DEF Told, SaveRecords
<1>3. saving'.op # "none" /\ NoSave.op = "none"
  BY <1>1, <1>2 DEF SaveRecords, NoSave
<1> QED BY <1>2, <1>3

LEMMA ToldBlocks ==
    ASSUME TypeBlocks, WorldInv, saving # NoSave, NEW k, Told(k),
           UNCHANGED <<world, undo, preload, committed>>
    PROVE  BlocksNext
<1>1. /\ saving' # NoSave /\ saving'.op = saving.op /\ saving'.write = saving.write
      /\ saving'.new = saving.new /\ saving'.todo = saving.todo \ {k}
      /\ saving' \in SaveRecords
  BY ToldFacts
<1>2. saving.todo \subseteq KeysOf(saving.write)
  BY SaveFacts
<1>3. TypeBlocks'
  BY <1>1, <1>2 DEF TypeBlocks
<1>4. WorldInv'
  BY <1>1 DEF WorldInv
<1> QED BY <1>3, <1>4 DEF BlocksNext

LEMMA NoSaveFacts == NoSave.op = "none" /\ NoSave \notin SaveRecords
<1>1. NoSave.op = "none" /\ \A s \in SaveRecords : s.op # "none"
  BY DEF NoSave, SaveRecords
<1> QED BY <1>1

LEMMA CommitBlocks ==
    ASSUME TypeBlocks, WorldInv, Commit
    PROVE  BlocksNext
<1>1. /\ saving.op \in {"save", "rollback"} /\ saving.write \in Writes
      /\ saving.new \in GoodWorlds /\ saving # NoSave
  BY SaveFacts DEF Commit
<1>2. PICK w \in GoodWorlds, x \in Writes : w = saving.new /\ x = saving.write
  BY <1>1
<1>3. /\ world' = w /\ saving' = NoSave /\ preload' = preload
      /\ committed' = committed \cup w.valid /\ SameBut(w, world, x)
  BY <1>1, <1>2 DEF Commit, WorldInv
<1>4. w.valid \subseteq Auths /\ world \in GoodWorlds /\ undo \in Seq(UndoRecords)
  BY DEF GoodWorlds, Worlds, TypeBlocks
<1>5. PICK n \in Nat : n = Len(undo)
  BY <1>4
<1>6. \A i \in 1 .. n :
          SameBut(IF i = n THEN world ELSE undo[i + 1].before, undo[i].before, undo[i].write)
  BY <1>4, <1>5 DEF WorldInv
<1>7. /\ undo' \in Seq(UndoRecords)
      /\ \A i \in DOMAIN undo' :
            SameBut(IF i = Len(undo') THEN w ELSE undo'[i + 1].before,
                    undo'[i].before, undo'[i].write)
  <2>1. CASE saving.op = "save"
    <3>1. PICK u \in UndoRecords : u = [write |-> x, before |-> world]
      BY <1>4 DEF UndoRecords
    <3>2. undo' = Append(undo, u) /\ u.write = x /\ u.before = world
      BY <1>2, <2>1, <3>1 DEF Commit
    <3>3. /\ undo' \in Seq(UndoRecords) /\ DOMAIN undo' = 1 .. (n + 1) /\ Len(undo') = n + 1
          /\ undo'[n + 1] = u /\ \A i \in 1 .. n : undo'[i] = undo[i]
      BY <1>4, <1>5, <3>2
    <3>4. ASSUME NEW i \in 1 .. n
          PROVE  SameBut(undo'[i + 1].before, undo[i].before, undo[i].write)
      <4>1. CASE i = n
        BY <1>6, <3>2, <3>3, <4>1
      <4>2. CASE i # n
        <5>1. i + 1 \in 1 .. n
          BY <4>2
        <5> QED BY <1>6, <3>3, <4>2, <5>1
      <4> QED BY <4>1, <4>2
    <3>5. ASSUME NEW i \in 1 .. (n + 1)
          PROVE  SameBut(IF i = n + 1 THEN w ELSE undo'[i + 1].before,
                         undo'[i].before, undo'[i].write)
      <4>1. CASE i = n + 1
        BY <1>3, <3>2, <3>3, <4>1
      <4>2. CASE i # n + 1
        <5>1. i \in 1 .. n
          BY <4>2
        <5> QED BY <3>3, <3>4, <4>2, <5>1
      <4> QED BY <4>1, <4>2
    <3> QED BY <3>3, <3>5
  <2>2. CASE saving.op = "rollback"
    <3>1. undo # <<>> /\ w = undo[n].before
      BY <1>1, <1>2, <1>5, <2>2 DEF WorldInv
    <3>2. undo' = SubSeq(undo, 1, n - 1) /\ n >= 1
      BY <1>4, <1>5, <2>2, <3>1 DEF Commit
    <3>3. PICK m \in Nat : m = n - 1
      BY <3>2
    <3>4. /\ undo' \in Seq(UndoRecords) /\ DOMAIN undo' = 1 .. m /\ Len(undo') = m
          /\ \A i \in 1 .. m : undo'[i] = undo[i]
      BY <1>4, <1>5, <3>2, <3>3
    <3>5. ASSUME NEW i \in 1 .. m
          PROVE  SameBut(IF i = m THEN w ELSE undo'[i + 1].before,
                         undo'[i].before, undo'[i].write)
      <4>1. i \in 1 .. n /\ i # n /\ undo'[i] = undo[i]
        BY <3>3, <3>4
      <4>2. SameBut(undo[i + 1].before, undo[i].before, undo[i].write)
        BY <1>6, <4>1
      <4>3. CASE i = m
        <5>1. undo[i + 1].before = w
          BY <3>1, <3>3, <4>3
        <5> QED BY <4>1, <4>2, <4>3, <5>1
      <4>4. CASE i # m
        <5>1. undo'[i + 1] = undo[i + 1]
          BY <3>4, <4>4
        <5> QED BY <4>1, <4>2, <4>4, <5>1
      <4> QED BY <4>3, <4>4
    <3> QED BY <3>4, <3>5
  <2> QED BY <1>1, <2>1, <2>2
<1>8. TypeBlocks'
  BY <1>3, <1>4, <1>7 DEF TypeBlocks
<1>9. WorldInv'
  <2>1. saving'.op = "none"
    BY <1>3, NoSaveFacts
  <2>2. world'.valid \subseteq committed'
    BY <1>3
  <2> QED BY <1>3, <1>7, <2>1, <2>2 DEF WorldInv
<1> QED BY <1>8, <1>9 DEF BlocksNext

LEMMA FailsBlocks ==
    ASSUME TypeBlocks, WorldInv, saving' = NoSave, preload' \in {preload, NoPreload},
           UNCHANGED <<world, undo, committed>>
    PROVE  BlocksNext
<1>1. TypeBlocks'
  BY DEF TypeBlocks
<1>2. saving'.op = "none"
  BY NoSaveFacts
<1>3. WorldInv'
  BY <1>2 DEF WorldInv
<1> QED BY <1>1, <1>3 DEF BlocksNext

LEMMA SaveBlocks ==
    ASSUME TypeBlocks, WorldInv, SaveSteps
    PROVE  BlocksNext
<1>1. CASE (\E x \in Writes : Preload(x)) \/ Discard
  BY <1>1, PreloadBlocks
<1>2. ASSUME NEW x \in Writes, BeginSave(x)
      PROVE  BlocksNext
  <2>1. PICK w : w = After(world, x)
    OBVIOUS
  <2>2. w \in GoodWorlds /\ SameBut(w, world, x) /\ (x.kind = "votes" => w.votes = x.on)
    BY <1>2, <2>1, AfterFacts DEF BeginSave, TypeBlocks
  <2>3. /\ saving' = [op |-> "save", write |-> x, new |-> w, todo |-> KeysOf(x)]
        /\ UNCHANGED <<world, undo, preload, committed>>
    BY <1>2, <2>1 DEF BeginSave
  <2> QED BY <2>2, <2>3, BeginBlocks
<1>3. CASE BeginRollback
  <2>1. PICK x \in Writes, w \in GoodWorlds :
              /\ SameBut(w, world, x) /\ saving = NoSave
              /\ undo # <<>> /\ w = undo[Len(undo)].before
              /\ saving' = [op |-> "rollback", write |-> x, new |-> w, todo |-> KeysOf(x)]
              /\ UNCHANGED <<world, undo, preload, committed>>
    BY <1>3, BeginRollbackFacts
  <2> QED BY <2>1, BeginBlocks
<1>4. CASE NotifyVoteList
  BY <1>4, ToldBlocks DEF NotifyVoteList
<1>5. ASSUME NEW k \in {"signer", "idx", "auth"}, DropEntry(k)
      PROVE  BlocksNext
  BY <1>5, ToldBlocks DEF DropEntry
<1>6. CASE Commit
  BY <1>6, CommitBlocks
<1>7. CASE CommitFails
  BY <1>7, FailsBlocks DEF CommitFails
<1> QED BY <1>1, <1>2, <1>3, <1>4, <1>5, <1>6, <1>7 DEF SaveSteps

-----------------------------------------------------------------------------
(* Saves and rollbacks keep what readers hold.                              *)

\* A check that is idle, raced or about the same authorizations stays sound.
LEMMA SoundKept ==
    ASSUME NEW c, NEW w, NEW v, NEW p, NEW q, NEW k, NEW l, Sound(c, w, p, k),
           k \subseteq l,
           q = p \/ c.pc = "idle" \/ ~c.over,
           c.raced \/ c.pc = "idle" \/ (v.granted = w.granted /\ v.valid = w.valid)
    PROVE  Sound(c, v, q, l)
<1>1. c \in ReaderRecords /\ Staged(c, p, k) /\ (~c.raced => Honest(c, w))
  BY DEF Sound
<1>2. Staged(c, q, l)
  BY <1>1 DEF Staged
<1>3. ~c.raced => Honest(c, v)
  <2>1. v.granted = w.granted /\ v.valid = w.valid => \A a : Status(v, a) = Status(w, a)
    BY DEF Status
  <2> QED BY <1>1, <2>1 DEF Honest
<1> QED BY <1>1, <1>2, <1>3 DEF Sound

\* All readers as they were.
LEMMA ReadersKept ==
    ASSUME TypeReader, ReaderInv, RacedInv, WaitInv, reader' = reader,
           committed \subseteq committed', PermissionSave' => PermissionSave,
           \/ preload' = preload
           \/ \A r \in Readers : reader[r].pc # "idle" => ~reader[r].over,
           \/ world'.granted = world.granted /\ world'.valid = world.valid
           \/ \A r \in Readers : reader[r].pc # "idle" => reader[r].raced
    PROVE  ReadersNext
<1>1. ReaderInv'
  <2> SUFFICES ASSUME NEW r \in Readers
               PROVE  Sound(reader'[r], world', preload', committed')
    BY DEF ReaderInv
  <2>1. PICK c : c = reader[r]
    OBVIOUS
  <2>2. Sound(c, world, preload, committed)
    BY <2>1 DEF ReaderInv
  <2>3. /\ preload' = preload \/ c.pc = "idle" \/ ~c.over
        /\ \/ c.raced \/ c.pc = "idle"
           \/ world'.granted = world.granted /\ world'.valid = world.valid
    BY <2>1
  <2>4. Sound(c, world', preload', committed')
    BY <2>2, <2>3, SoundKept
  <2> QED BY <2>1, <2>4
<1> QED BY <1>1 DEF ReadersNext, TypeReader, RacedInv, WaitInv

\* All readers, overtaken.
LEMMA ReadersRaced ==
    ASSUME TypeReader, ReaderInv, RacedInv, WaitInv, reader' = AllRaced,
           UNCHANGED <<world, preload, committed>>
    PROVE  ReadersNext
<1>1. ASSUME NEW r \in Readers
      PROVE  /\ reader'[r].pc = reader[r].pc /\ reader'[r].leader = reader[r].leader
             /\ reader'[r].at = reader[r].at
             /\ reader'[r].pc # "idle" => reader'[r].raced
             /\ Sound(reader'[r], world, preload, committed)
  <2>1. PICK c \in ReaderRecords : c = reader[r]
    BY DEF TypeReader
  <2>2. Sound(c, world, preload, committed)
    BY <2>1 DEF ReaderInv
  <2>3. CASE c.pc = "idle"
    <3>1. reader'[r] = c
      BY <2>1, <2>3 DEF AllRaced
    <3> QED BY <2>1, <2>2, <2>3, <3>1
  <2>4. CASE c.pc # "idle"
    <3>1. PICK d : d = [c EXCEPT !.raced = TRUE]
      OBVIOUS
    <3>2. reader'[r] = d
      BY <2>1, <2>4, <3>1 DEF AllRaced
    <3>3. /\ d \in ReaderRecords /\ d.raced /\ d.pc = c.pc /\ d.over = c.over
          /\ d.op = c.op /\ d.acc = c.acc /\ d.todo = c.todo /\ d.at = c.at
          /\ d.value = c.value /\ d.leader = c.leader
      BY <3>1 DEF ReaderRecords
    <3>4. Staged(d, preload, committed)
      BY <2>2, <3>3 DEF Sound, Staged
    <3>5. Sound(d, world, preload, committed)
      BY <3>3, <3>4 DEF Sound
    <3> QED BY <2>1, <3>2, <3>3, <3>5
  <2> QED BY <2>3, <2>4
<1>2. reader' \in [Readers -> ReaderRecords]
  <2>1. reader' = [r \in Readers |-> reader'[r]]
    BY DEF AllRaced
  <2>2. \A r \in Readers : reader'[r] \in ReaderRecords
    BY <1>1 DEF Sound
  <2> QED BY <2>1, <2>2
<1>3. ReaderInv'
  BY <1>1 DEF ReaderInv
<1>4. RacedInv'
  BY <1>1 DEF RacedInv
<1>5. WaitInv'
  <2> SUFFICES ASSUME NEW q \in Readers, reader'[q].pc \in {"opsWait", "authWait"}
               PROVE  \E p \in Readers :
                        /\ reader'[q].leader = {p}
                        /\ reader'[p].pc \in {"opsPut", "authPut"}
                        /\ reader'[p].at = reader'[q].at
    BY DEF WaitInv
  <2>1. PICK p \in Readers :
            /\ reader[q].leader = {p}
            /\ reader[p].pc \in {"opsPut", "authPut"} /\ reader[p].at = reader[q].at
    BY <1>1 DEF WaitInv
  <2> QED BY <1>1, <2>1
<1> QED BY <1>2, <1>3, <1>4, <1>5 DEF ReadersNext, TypeReader

LEMMA SaveReaders ==
    ASSUME TypeBlocks, WorldInv, TypeReader, ReaderInv, RacedInv, WaitInv, SaveSteps
    PROVE  ReadersNext
<1>1. ASSUME NEW x \in Writes, Preload(x)
      PROVE  ReadersNext
  <2>1. preload = NoPreload /\ UNCHANGED <<world, saving, committed, reader>>
    BY <1>1 DEF Preload
  <2>2. \A r \in Readers : reader[r].pc # "idle" => ~reader[r].over
    BY <2>1 DEF ReaderInv, Sound, Staged
  <2>3. PermissionSave' <=> PermissionSave
    BY <2>1 DEF PermissionSave
  <2> QED BY <2>1, <2>2, <2>3, ReadersKept
<1>2. CASE Discard
  <2>1. UNCHANGED <<world, saving, committed, reader>>
    BY <1>2 DEF Discard
  <2>2. \A r \in Readers : reader[r].pc # "idle" => ~reader[r].over
    BY <1>2 DEF Discard
  <2>3. PermissionSave' <=> PermissionSave
    BY <2>1 DEF PermissionSave
  <2> QED BY <2>1, <2>2, <2>3, ReadersKept
<1>3. ASSUME NEW x, reader' = (IF x.kind = "votes" THEN reader ELSE AllRaced),
             saving'.write = x, UNCHANGED <<world, preload, committed>>
      PROVE  ReadersNext
  <2>1. CASE x.kind = "votes"
    <3>1. ~PermissionSave'
      BY <1>3, <2>1 DEF PermissionSave
    <3> QED BY <1>3, <2>1, <3>1, ReadersKept
  <2>2. CASE x.kind # "votes"
    BY <1>3, <2>2, ReadersRaced
  <2> QED BY <2>1, <2>2
<1>4. ASSUME NEW x \in Writes, BeginSave(x)
      PROVE  ReadersNext
  BY <1>3, <1>4 DEF BeginSave
<1>5. CASE BeginRollback
  <2>1. PICK x \in Writes, w \in GoodWorlds :
              /\ saving' = [op |-> "rollback", write |-> x, new |-> w, todo |-> KeysOf(x)]
              /\ reader' = IF x.kind = "votes" THEN reader ELSE AllRaced
              /\ UNCHANGED <<world, undo, preload, committed>>
    BY <1>5, BeginRollbackFacts
  <2> QED BY <1>3, <2>1
<1>6. ASSUME NEW k, Told(k), saving # NoSave, UNCHANGED <<world, preload, committed, reader>>
      PROVE  ReadersNext
  <2>1. PermissionSave' <=> PermissionSave
    BY <1>6, ToldFacts DEF PermissionSave
  <2> QED BY <1>6, <2>1, ReadersKept
<1>7. CASE NotifyVoteList
  BY <1>6, <1>7 DEF NotifyVoteList
<1>8. ASSUME NEW k \in {"signer", "idx", "auth"}, DropEntry(k)
      PROVE  ReadersNext
  BY <1>6, <1>8 DEF DropEntry
<1>9. CASE Commit
  <2>1. /\ saving # NoSave /\ world' = saving.new /\ UNCHANGED <<preload, reader>>
        /\ saving' = NoSave /\ committed \subseteq committed'
    BY <1>9 DEF Commit
  <2>2. ~PermissionSave'
    BY <2>1, NoSaveFacts DEF PermissionSave
  <2>3. CASE saving.write.kind = "votes"
    <3>1. world'.granted = world.granted /\ world'.valid = world.valid
      BY <2>1, <2>3 DEF WorldInv, SameBut
    <3> QED BY <2>1, <2>2, <3>1, ReadersKept
  <2>4. CASE saving.write.kind # "votes"
    <3>1. PermissionSave
      BY <2>1, <2>4, SaveOp DEF PermissionSave
    <3>2. \A r \in Readers : reader[r].pc # "idle" => reader[r].raced
      BY <3>1 DEF RacedInv
    <3> QED BY <2>1, <2>2, <3>2, ReadersKept
  <2> QED BY <2>3, <2>4
<1>10. CASE CommitFails
  <2>1. UNCHANGED <<world, preload, committed, reader>> /\ saving' = NoSave
    BY <1>10 DEF CommitFails
  <2>2. ~PermissionSave'
    BY <2>1, NoSaveFacts DEF PermissionSave
  <2> QED BY <2>1, <2>2, ReadersKept
<1> QED BY <1>1, <1>2, <1>4, <1>5, <1>7, <1>8, <1>9, <1>10 DEF SaveSteps

-----------------------------------------------------------------------------
(* Saves and rollbacks keep the caches.                                     *)

LEMMA DropCaches ==
    ASSUME TypeBlocks, TypeCaches, CacheInv, DropInv,
           NEW k \in {"signer", "idx", "auth"}, DropEntry(k)
    PROVE  CachesNext
<1>1. /\ saving # NoSave /\ k \in saving.todo /\ Told(k)
      /\ UNCHANGED <<world, committed>>
  BY DEF DropEntry
<1>2. /\ saving' # NoSave /\ saving'.write = saving.write
      /\ saving'.todo = saving.todo \ {k}
  BY <1>1, ToldFacts
<1>3. saving.write \in Writes /\ saving.todo \subseteq KeysOf(saving.write)
  BY <1>1, SaveFacts
<1>4. /\ k \in {"signer", "idx"} \/ (k = "auth" /\ saving.write.on \in Auths)
      /\ saving.write.kind = "votes" => FALSE
  BY <1>1, <1>3, WriteFacts
<1>5. PICK x : x = saving.write.on
  OBVIOUS
<1>6. CASE k = "auth"
  <2>1. /\ authCache' = [authCache EXCEPT ![x] = "none"] /\ dirty' = dirty \ {x}
        /\ UNCHANGED <<signerCache, idxCache>> /\ x \in Auths
    BY <1>4, <1>5, <1>6 DEF DropEntry
  <2>2. authCache \in [Auths -> Statuses]
    BY DEF TypeCaches
  <2>3. TypeCaches'
    BY <2>1, <2>2 DEF TypeCaches, Statuses
  <2>4. CommittedCached' /\ CachedIsSavedUnlessRaced'
    BY <1>1, <2>1, <2>2, ConstantFacts DEF CacheInv, CommittedCached, CachedIsSavedUnlessRaced
  <2>5. DropInv'
    BY <1>1, <1>2, <1>5, <1>6, <2>1, <2>2, ConstantFacts DEF DropInv
  <2> QED BY <2>3, <2>4, <2>5 DEF CachesNext
<1>7. CASE k = "signer"
  <2>1. /\ signerCache' = {} /\ dirty' = dirty \ {"signer"}
        /\ UNCHANGED <<idxCache, authCache>>
    BY <1>7 DEF DropEntry
  <2>3. TypeCaches'
    BY <2>1, SmallSets DEF TypeCaches
  <2>4. CommittedCached' /\ CachedIsSavedUnlessRaced'
    BY <1>1, <2>1, ConstantFacts DEF CacheInv, CommittedCached, CachedIsSavedUnlessRaced
  <2>5. "auth" \in KeysOf(saving.write) => saving.write.on \in Auths
    BY <1>3, WriteFacts
  <2>6. DropInv'
    BY <1>1, <1>2, <1>7, <2>1, <2>5, ConstantFacts DEF DropInv
  <2> QED BY <2>3, <2>4, <2>6 DEF CachesNext
<1>8. CASE k = "idx"
  <2>1. /\ idxCache' = {} /\ dirty' = dirty \ {"idx"}
        /\ UNCHANGED <<signerCache, authCache>>
    BY <1>8 DEF DropEntry
  <2>3. TypeCaches'
    BY <2>1, SmallSets DEF TypeCaches
  <2>4. CommittedCached' /\ CachedIsSavedUnlessRaced'
    BY <1>1, <2>1, ConstantFacts DEF CacheInv, CommittedCached, CachedIsSavedUnlessRaced
  <2>5. "auth" \in KeysOf(saving.write) => saving.write.on \in Auths
    BY <1>3, WriteFacts
  <2>6. DropInv'
    BY <1>1, <1>2, <1>8, <2>1, <2>5, ConstantFacts DEF DropInv
  <2> QED BY <2>3, <2>4, <2>6 DEF CachesNext
<1> QED BY <1>6, <1>7, <1>8

\* The entries of a save that commits are out of the caches.
LEMMA CommitCaches ==
    ASSUME TypeBlocks, TypeCaches, WorldInv, CacheInv, DropInv, Commit
    PROVE  CachesNext
<1>1. /\ saving # NoSave /\ saving.todo = {} /\ world' = saving.new /\ saving' = NoSave
      /\ committed \subseteq committed' /\ UNCHANGED caches
  BY DEF Commit
<1>2. UNCHANGED <<signerCache, idxCache, authCache, dirty>>
  BY <1>1 DEF caches
<1>3. PICK x \in Writes, w \in GoodWorlds :
          x = saving.write /\ w = saving.new /\ SameBut(w, world, x)
  BY <1>1, SaveFacts DEF WorldInv
<1>4. world \in GoodWorlds
  BY DEF TypeBlocks
<1>5. TypeCaches' /\ CommittedCached' /\ DropInv'
  BY <1>1, <1>2 DEF TypeCaches, CacheInv, CommittedCached, DropInv
<1>6. /\ "signer" \notin dirty => signerCache \subseteq {world.granted}
      /\ "idx" \notin dirty => idxCache \subseteq {world.granted}
      /\ \A a \in Auths \ dirty : authCache[a] \in {"none", Status(world, a)}
  BY DEF CacheInv, CachedIsSavedUnlessRaced
<1>7. /\ "signer" \in KeysOf(x) => signerCache = {} \/ "signer" \in dirty
      /\ "idx" \in KeysOf(x) => idxCache = {} \/ "idx" \in dirty
      /\ "auth" \in KeysOf(x) => authCache[x.on] = "none" \/ x.on \in dirty
  BY <1>1, <1>3 DEF DropInv
<1>8. /\ "signer" \notin dirty => signerCache \subseteq {w.granted}
      /\ "idx" \notin dirty => idxCache \subseteq {w.granted}
  BY <1>3, <1>6, <1>7, WriteFacts DEF SameBut
<1>9. ASSUME NEW a \in Auths, a \notin dirty
      PROVE  authCache[a] \in {"none", Status(w, a)}
  <2>1. CASE x.kind = "votes"
    <3>1. w.granted = world.granted /\ w.valid = world.valid
      BY <1>3, <2>1 DEF SameBut
    <3>2. Status(w, a) = Status(world, a)
      BY <3>1 DEF Status
    <3> QED BY <1>6, <1>9, <3>2
  <2>2. CASE x.kind # "votes" /\ a = x.on
    BY <1>7, <1>9, <2>2, WriteFacts
  <2>3. CASE a # x.on
    <3>1. (a \in w.valid <=> a \in world.valid) /\ (a \in w.granted <=> a \in world.granted)
      BY <1>3, <2>3 DEF SameBut
    <3>2. Status(w, a) = Status(world, a)
      BY <3>1 DEF Status
    <3> QED BY <1>6, <1>9, <3>2
  <2> QED BY <2>1, <2>2, <2>3
<1>10. CachedIsSavedUnlessRaced'
  <2>1. world' = w
    BY <1>1, <1>3
  <2> QED BY <1>2, <1>8, <1>9, <2>1 DEF CachedIsSavedUnlessRaced
<1> QED BY <1>5, <1>10 DEF CachesNext

LEMMA SaveCaches ==
    ASSUME TypeBlocks, TypeCaches, WorldInv, CacheInv, DropInv, SaveSteps
    PROVE  CachesNext
<1>1. ASSUME UNCHANGED <<world, saving, committed>>, UNCHANGED caches
      PROVE  CachesNext
  BY <1>1 DEF caches, CacheInv, CachesNext, TypeCaches, CommittedCached,
              CachedIsSavedUnlessRaced, DropInv
<1>2. CASE (\E x \in Writes : Preload(x)) \/ Discard
  BY <1>1, <1>2 DEF Preload, Discard
<1>3. ASSUME DropInv', UNCHANGED <<world, committed>>, UNCHANGED caches
      PROVE  CachesNext
  BY <1>3 DEF caches, CacheInv, CachesNext, TypeCaches, CommittedCached,
              CachedIsSavedUnlessRaced
<1>4. ASSUME NEW x \in Writes, BeginSave(x)
      PROVE  CachesNext
  <2>1. saving'.todo = KeysOf(saving'.write)
    BY <1>4 DEF BeginSave
  <2>2. DropInv'
    BY <2>1 DEF DropInv
  <2> QED BY <1>3, <1>4, <2>2 DEF BeginSave
<1>5. CASE BeginRollback
  <2>1. saving'.todo = KeysOf(saving'.write)
    BY <1>5 DEF BeginRollback
  <2>2. DropInv'
    BY <2>1 DEF DropInv
  <2> QED BY <1>3, <1>5, <2>2 DEF BeginRollback
<1>6. CASE NotifyVoteList
  <2>1. saving # NoSave /\ Told("votes")
    BY <1>6 DEF NotifyVoteList
  <2>2. saving'.write = saving.write /\ saving'.todo = saving.todo \ {"votes"}
    BY <2>1, ToldFacts
  <2>3. UNCHANGED caches
    BY <1>6 DEF NotifyVoteList
  <2>4. DropInv'
    BY <2>1, <2>2, <2>3 DEF DropInv, caches
  <2> QED BY <1>3, <1>6, <2>3, <2>4 DEF NotifyVoteList
<1>7. ASSUME NEW k \in {"signer", "idx", "auth"}, DropEntry(k)
      PROVE  CachesNext
  BY <1>7, DropCaches
<1>8. CASE Commit
  BY <1>8, CommitCaches
<1>9. CASE CommitFails
  <2>1. saving' = NoSave
    BY <1>9 DEF CommitFails
  <2>2. DropInv'
    BY <2>1 DEF DropInv
  <2> QED BY <1>3, <1>9, <2>2 DEF CommitFails
<1> QED BY <1>2, <1>4, <1>5, <1>6, <1>7, <1>8, <1>9 DEF SaveSteps

-----------------------------------------------------------------------------
(* The vote list.                                                           *)

VotesNext == TypeVoting' /\ VoteInv'

\* What the vote list is about, with nothing of it under way or with one thread.
Quiet ==
    /\ threads = {} /\ Current = Target
    /\ IF mail = <<>> THEN stable = Target ELSE mail[Len(mail)] = Target

Pending(t) ==
    /\ threads = {t}
    /\ t.pc = "update" => t.list = Target /\ t.list \notin Short
    /\ t.pc # "update" => Current = Target
    /\ t.pc = "send" => t.list = Target

LEMMA VoteParts ==
    VoteInv <=> (~strayed => Quiet \/ \E t \in threads : Pending(t))
BY DEF VoteInv, Quiet, Pending

\* Nothing of it changes.
LEMMA VotesKept ==
    ASSUME TypeVoting, VoteInv, UNCHANGED <<list, tmp, changed, threads, mail, stable>>,
           strayed' \in BOOLEAN, ~strayed' => ~strayed /\ Target' = Target
    PROVE  VotesNext
<1>1. TypeVoting'
  BY DEF TypeVoting
<1>2. VoteInv'
  <2>1. Current' = Current
    BY DEF Current
  <2> QED BY <2>1 DEF VoteInv
<1> QED BY <1>1, <1>2 DEF VotesNext

LEMMA CurrentType ==
    ASSUME TypeVoting
    PROVE  Current \in Lists
BY DEF TypeVoting, Current

\* The one thread, if the list has not gone its own way.
LEMMA OneThread ==
    ASSUME VoteInv, ~strayed, NEW t \in threads
    PROVE  Pending(t)
BY VoteParts DEF Quiet, Pending

LEMMA UpdateVotes ==
    ASSUME TypeVoting, VoteInv, NEW t \in threads, UpdateVoteList(t),
           UNCHANGED <<strayed, world, saving>>
    PROVE  VotesNext
<1>1. t \in ThreadRecords /\ t.pc = "update" /\ t.list \in Lists
  BY DEF TypeVoting, UpdateVoteList, SomeThread, ThreadRecords
<1>2. PICK u : u = [t EXCEPT !.pc = "get"]
  OBVIOUS
<1>3. u \in ThreadRecords /\ u.pc = "get"
  BY <1>1, <1>2 DEF ThreadRecords
<1>4. /\ tmp' = (IF t.list \in Short THEN tmp ELSE t.list)
      /\ changed' = (changed \/ t.list \notin Short)
      /\ threads' = (threads \ {t}) \cup {u} /\ UNCHANGED <<list, mail, stable>>
  BY <1>2 DEF UpdateVoteList, Step
<1>5. TypeVoting'
  BY <1>1, <1>3, <1>4 DEF TypeVoting
<1>6. VoteInv'
  <2> SUFFICES ASSUME ~strayed PROVE Pending(u)' /\ u \in threads'
    BY DEF VoteInv, Pending
  <2>1. threads = {t} /\ t.list = Target /\ t.list \notin Short
    BY <1>1, OneThread DEF Pending
  <2>2. threads' = {u} /\ tmp' = t.list /\ changed'
    BY <1>4, <2>1
  <2>3. Current' = t.list
    BY <1>1, <2>2, ConstantFacts DEF Current
  <2>4. Target' = Target
    BY DEF Target
  <2> QED BY <1>3, <2>1, <2>2, <2>3, <2>4 DEF Pending
<1> QED BY <1>5, <1>6 DEF VotesNext

LEMMA GetVotes ==
    ASSUME TypeVoting, VoteInv, NEW t \in threads, GetVoteList(t),
           UNCHANGED <<strayed, world, saving>>
    PROVE  VotesNext
<1>1. t \in ThreadRecords /\ t.pc = "get"
  BY DEF TypeVoting, GetVoteList, SomeThread
<1>2. PICK l \in Lists : l = Current
  BY CurrentType
<1>3. PICK u : u = [t EXCEPT !.pc = "send", !.list = l]
  OBVIOUS
<1>4. u \in ThreadRecords /\ u.pc = "send" /\ u.list = l
  BY <1>1, <1>3 DEF ThreadRecords
<1>5. /\ list' = l /\ changed' = FALSE /\ UNCHANGED <<tmp, mail, stable>>
      /\ threads' = (threads \ {t}) \cup {u}
  BY <1>2, <1>3 DEF GetVoteList, TakeOver, Step
<1>6. TypeVoting'
  BY <1>4, <1>5 DEF TypeVoting
<1>7. VoteInv'
  <2> SUFFICES ASSUME ~strayed PROVE Pending(u)' /\ u \in threads'
    BY DEF VoteInv, Pending
  <2>1. threads = {t} /\ l = Target
    BY <1>1, <1>2, OneThread DEF Pending
  <2>2. Current' = l
    BY <1>5 DEF Current
  <2>3. Target' = Target
    BY DEF Target
  <2>4. threads' = {u}
    BY <1>5, <2>1
  <2> QED BY <1>4, <2>1, <2>2, <2>3, <2>4 DEF Pending
<1> QED BY <1>6, <1>7 DEF VotesNext

LEMMA SendVotes ==
    ASSUME TypeVoting, VoteInv, NEW t \in threads, SendVoteList(t),
           UNCHANGED <<strayed, world, saving>>
    PROVE  VotesNext
<1>1. t \in ThreadRecords /\ t.pc = "send" /\ t.list \in Lists /\ mail \in Seq(Lists)
  BY DEF TypeVoting, SendVoteList, SomeThread, ThreadRecords
<1>2. /\ mail' = Append(mail, t.list) /\ threads' = threads \ {t}
      /\ UNCHANGED <<list, tmp, changed, stable>>
  BY DEF SendVoteList, Step
<1>3. mail' \in Seq(Lists) /\ mail' # <<>> /\ mail'[Len(mail')] = t.list
  BY <1>1, <1>2
<1>4. TypeVoting'
  BY <1>2, <1>3 DEF TypeVoting
<1>5. VoteInv'
  <2> SUFFICES ASSUME ~strayed PROVE Quiet'
    BY DEF VoteInv, Quiet
  <2>1. threads = {t} /\ t.list = Target /\ Current = Target
    BY <1>1, OneThread DEF Pending
  <2>2. Current' = Current
    BY <1>2 DEF Current
  <2>3. Target' = Target
    BY DEF Target
  <2>4. threads' = {}
    BY <1>2, <2>1
  <2> QED BY <1>3, <2>1, <2>2, <2>3, <2>4 DEF Quiet
<1> QED BY <1>4, <1>5 DEF VotesNext

LEMMA ReadVotes ==
    ASSUME TypeVoting, VoteInv, ReadVoteList, UNCHANGED <<strayed, world, saving>>
    PROVE  VotesNext
<1>1. list' = Current /\ changed' = FALSE /\ UNCHANGED <<tmp, threads, mail, stable>>
  BY DEF ReadVoteList, TakeOver
<1>2. TypeVoting'
  BY <1>1, CurrentType DEF TypeVoting
<1>3. Current' = Current
  BY <1>1 DEF Current
<1>4. Target' = Target
  BY DEF Target
<1>5. VoteInv'
  BY <1>1, <1>3, <1>4 DEF VoteInv
<1> QED BY <1>2, <1>5 DEF VotesNext

LEMMA ListenVotes ==
    ASSUME TypeVoting, VoteInv, ListenVoteList, UNCHANGED <<strayed, world, saving>>
    PROVE  VotesNext
<1>1. /\ mail \in Seq(Lists) /\ mail # <<>> /\ stable' = Head(mail) /\ mail' = Tail(mail)
      /\ UNCHANGED <<list, tmp, changed, threads>>
  BY DEF ListenVoteList, TypeVoting
<1>2. mail' \in Seq(Lists) /\ stable' \in Lists
  BY <1>1
<1>3. TypeVoting'
  BY <1>1, <1>2 DEF TypeVoting
<1>4. PICK l : l = mail[Len(mail)]
  OBVIOUS
<1>5. IF mail' = <<>> THEN stable' = l ELSE mail'[Len(mail')] = l
  <2>1. PICK n \in Nat : n = Len(mail) /\ n > 0
    BY <1>1
  <2>2. Len(mail') = n - 1 /\ \A i \in 1 .. (n - 1) : mail'[i] = mail[i + 1]
    BY <1>1, <2>1
  <2>3. CASE n = 1
    BY <1>1, <1>2, <1>4, <2>1, <2>2, <2>3
  <2>4. CASE n > 1
    <3>1. n - 1 \in 1 .. (n - 1) /\ mail' # <<>>
      BY <1>2, <2>1, <2>2, <2>4
    <3>2. mail'[n - 1] = mail[n]
      BY <2>1, <2>2, <3>1
    <3> QED BY <1>4, <2>1, <2>2, <3>1, <3>2
  <2> QED BY <2>1, <2>3, <2>4
<1>6. Current' = Current
  BY <1>1 DEF Current
<1>7. Target' = Target
  BY DEF Target
<1>8. VoteInv'
  BY <1>1, <1>4, <1>5, <1>6, <1>7 DEF VoteInv
<1> QED BY <1>3, <1>8 DEF VotesNext

LEMMA VoteStepVotes ==
    ASSUME TypeVoting, VoteInv, VoteSteps
    PROVE  VotesNext
<1>1. UNCHANGED <<strayed, world, saving>>
  BY VoteFoot DEF blocks
<1> QED BY <1>1, UpdateVotes, GetVotes, SendVotes, ReadVotes, ListenVotes DEF VoteSteps

\* A thread of its own is given the list that is written.
LEMMA NotifyVotes ==
    ASSUME TypeBlocks, TypeLeft, WorldInv, TypeVoting, NotifyVoteList
    PROVE  VotesNext
<1>1. /\ saving # NoSave /\ "votes" \in saving.todo /\ Told("votes")
      /\ UNCHANGED <<list, tmp, changed, mail, stable, world>>
  BY DEF NotifyVoteList
<1>2. /\ saving.write \in Writes /\ saving.write.kind = "votes"
      /\ saving.write.on \in Lists /\ saving.op \in {"save", "rollback"}
  BY <1>1, SaveFacts, WriteFacts
<1>3. /\ saving' # NoSave /\ saving'.new = saving.new
      /\ saving'.todo = saving.todo \ {"votes"}
  BY <1>1, ToldFacts
<1>4. PICK i \in Nat : i = left.blocks + left.rollbacks
  BY DEF TypeLeft, ScheduleRecords
<1>5. PICK t : t = [id |-> i, list |-> saving.write.on, pc |-> "update"]
  OBVIOUS
<1>6. t \in ThreadRecords /\ t.pc = "update" /\ t.list = saving.write.on
  BY <1>2, <1>5 DEF ThreadRecords
<1>7. /\ threads' = threads \cup {t}
      /\ strayed' = (saving.op = "rollback" \/ saving.write.on \in Short \/ threads # {})
  BY <1>4, <1>5 DEF NotifyVoteList
<1>8. TypeVoting'
  <2>1. strayed' \in BOOLEAN
    BY <1>7
  <2> QED BY <1>1, <1>6, <1>7, <2>1 DEF TypeVoting
<1>9. VoteInv'
  <2> SUFFICES ASSUME ~strayed' PROVE t \in threads' /\ Pending(t)'
    BY DEF VoteInv, Pending
  <2>1. saving.op = "save" /\ t.list \notin Short /\ threads' = {t}
    BY <1>2, <1>6, <1>7
  <2>2. saving.new.votes = t.list
    BY <1>2, <1>6, <2>1 DEF WorldInv
  <2>3. Target' = t.list
    BY <1>3, <2>2 DEF Target
  <2> QED BY <1>6, <2>1, <2>3 DEF Pending
<1> QED BY <1>8, <1>9 DEF VotesNext

LEMMA SaveVotes ==
    ASSUME TypeBlocks, TypeLeft, WorldInv, TypeVoting, VoteInv, SaveSteps
    PROVE  VotesNext
<1>0. strayed \in BOOLEAN
  BY DEF TypeVoting
<1>1. CASE (\E x \in Writes : Preload(x)) \/ Discard
  <2>1. UNCHANGED <<list, tmp, changed, threads, mail, stable, strayed, world, saving>>
    BY <1>1 DEF Preload, Discard, voting
  <2>2. Target' = Target
    BY <2>1 DEF Target
  <2> QED BY <1>0, <2>1, <2>2, VotesKept
<1>2. ASSUME NEW x \in Writes, NEW op, NEW w, SameBut(w, world, x), saving = NoSave,
             saving' = [op |-> op, write |-> x, new |-> w, todo |-> KeysOf(x)],
             UNCHANGED <<list, tmp, changed, threads, mail, stable, strayed, world>>
      PROVE  VotesNext
  <2>1. Target = world.votes
    BY <1>2 DEF Target
  <2>2. saving'.todo = KeysOf(x) /\ saving'.new = w
    BY <1>2
  <2>3. Target' = world.votes
    <3>1. CASE x.kind = "votes"
      BY <1>2, <2>2, <3>1, WriteFacts DEF Target
    <3>2. CASE x.kind # "votes"
      <4>1. w.votes = world.votes
        BY <1>2, <3>2 DEF SameBut
      <4> QED BY <1>2, <2>2, <4>1 DEF Target
    <3> QED BY <3>1, <3>2
  <2> QED BY <1>0, <1>2, <2>1, <2>3, VotesKept
<1>3. ASSUME NEW x \in Writes, BeginSave(x)
      PROVE  VotesNext
  <2>1. PICK w : w = After(world, x)
    OBVIOUS
  <2>2. SameBut(w, world, x)
    BY <1>3, <2>1, AfterFacts DEF BeginSave, TypeBlocks
  <2>3. /\ saving = NoSave
        /\ saving' = [op |-> "save", write |-> x, new |-> w, todo |-> KeysOf(x)]
        /\ UNCHANGED <<list, tmp, changed, threads, mail, stable, strayed, world>>
    BY <1>3, <2>1 DEF BeginSave, voting
  <2> QED BY <1>2, <2>2, <2>3
<1>4. CASE BeginRollback
  <2>1. PICK x \in Writes, w \in GoodWorlds :
              /\ SameBut(w, world, x) /\ saving = NoSave
              /\ saving' = [op |-> "rollback", write |-> x, new |-> w, todo |-> KeysOf(x)]
    BY <1>4, BeginRollbackFacts
  <2>2. UNCHANGED <<list, tmp, changed, threads, mail, stable, strayed, world>>
    BY <1>4 DEF BeginRollback, voting
  <2> QED BY <1>2, <2>1, <2>2
<1>5. CASE NotifyVoteList
  BY <1>5, NotifyVotes
<1>6. ASSUME NEW k \in {"signer", "idx", "auth"}, DropEntry(k)
      PROVE  VotesNext
  <2>1. /\ saving # NoSave /\ Told(k)
        /\ UNCHANGED <<list, tmp, changed, threads, mail, stable, strayed, world>>
    BY <1>6 DEF DropEntry, voting
  <2>2. /\ saving' # NoSave /\ saving'.new = saving.new
        /\ saving'.todo = saving.todo \ {k}
    BY <2>1, ToldFacts
  <2>3. Target' = Target
    BY <1>6, <2>1, <2>2 DEF Target
  <2> QED BY <1>0, <2>1, <2>3, VotesKept
<1>7. CASE Commit
  <2>1. /\ saving # NoSave /\ saving.todo = {} /\ world' = saving.new /\ saving' = NoSave
        /\ UNCHANGED <<list, tmp, changed, threads, mail, stable, strayed>>
    BY <1>7 DEF Commit, voting
  <2>2. Target = saving.new.votes /\ Target' = saving.new.votes
    BY <2>1 DEF Target
  <2> QED BY <1>0, <2>1, <2>2, VotesKept
<1>8. CASE CommitFails
  <2>1. /\ saving # NoSave /\ saving.todo = {} /\ saving' = NoSave
        /\ strayed' = (strayed \/ saving.write.kind = "votes")
        /\ UNCHANGED <<list, tmp, changed, threads, mail, stable, world>>
    BY <1>8 DEF CommitFails
  <2>2. saving.write.kind # "votes" => Target' = Target
    BY <2>1 DEF Target, WorldInv, SameBut
  <2>3. strayed' \in BOOLEAN /\ (~strayed' => ~strayed /\ saving.write.kind # "votes")
    BY <1>0, <2>1
  <2> QED BY <2>1, <2>2, <2>3, VotesKept
<1> QED BY <1>1, <1>3, <1>4, <1>5, <1>6, <1>7, <1>8 DEF SaveSteps

-----------------------------------------------------------------------------
(* The invariant.                                                           *)

LEMMA InvariantParts ==
    Invariant <=> /\ TypeParts /\ WorldInv /\ ReaderInv /\ RacedInv /\ WaitInv
                  /\ DropInv /\ CacheInv /\ VoteInv
BY TypeFacts DEF Invariant, CacheInv

InvariantNext ==
    BlocksNext /\ ReadersNext /\ CachesNext /\ VotesNext /\ TypeLeft'

LEMMA NextParts ==
    ASSUME InvariantNext
    PROVE  Invariant'
<1>1. TypeParts'
  BY DEF InvariantNext, BlocksNext, ReadersNext, CachesNext, VotesNext, TypeParts
<1>2. TypeInv' <=> TypeParts'
  BY TypeFacts, PTL
<1> QED BY <1>1, <1>2 DEF InvariantNext, BlocksNext, ReadersNext, CachesNext, VotesNext,
                          Invariant

LEMMA LeftNext ==
    ASSUME TypeLeft, schedule' = schedule,
           left' = left \/ \E k \in {"blocks", "rollbacks", "checks", "preloads", "faults"} :
                               Uses(k)
    PROVE  TypeLeft'
<1>1. CASE left' = left
  BY <1>1 DEF TypeLeft
<1> QED BY <1>1, UsesType

LEMMA InitInvariant == Init => Invariant
<1> SUFFICES ASSUME Init PROVE Invariant
  OBVIOUS
<1> USE DEF Init
<1>1. world = [granted |-> {}, valid |-> {}, votes |-> FirstList] /\ world \in GoodWorlds
  BY ConstantFacts DEF GoodWorlds, Worlds
<1>2. TypeBlocks
  BY <1>1 DEF TypeBlocks
<1>3. WorldInv
  BY <1>1, NoSaveFacts DEF WorldInv
<1>4. TypeCaches
  BY SmallSets DEF TypeCaches, Statuses
<1>5. CacheInv /\ DropInv
  BY DEF CacheInv, CommittedCached, CachedIsSavedUnlessRaced, DropInv
<1>6. TypeReader /\ ReaderInv /\ RacedInv /\ WaitInv
  BY IdleFacts DEF TypeReader, ReaderInv, RacedInv, WaitInv
<1>7. TypeVoting
  <2>1. mail \in Seq(Lists) /\ threads \subseteq ThreadRecords
    OBVIOUS
  <2> QED BY <2>1, ConstantFacts DEF TypeVoting
<1>8. VoteInv
  <2>1. Current = FirstList
    BY DEF Current
  <2>2. Target = FirstList
    BY <1>1 DEF Target
  <2> QED BY <2>1, <2>2 DEF VoteInv
<1>9. TypeLeft
  BY ConstantFacts DEF TypeLeft
<1> QED BY <1>2, <1>3, <1>4, <1>5, <1>6, <1>7, <1>8, <1>9, InvariantParts DEF TypeParts

LEMMA RestartNext ==
    ASSUME TypeParts, WorldInv, Restart, schedule' = schedule
    PROVE  InvariantNext
<1>1. /\ saving' = NoSave /\ preload' = NoPreload /\ UNCHANGED <<world, undo, committed>>
      /\ world \in GoodWorlds
  BY DEF Restart, TypeParts, TypeBlocks
<1>2. BlocksNext
  BY <1>1, FailsBlocks DEF TypeParts
<1>3. ReadersNext
  <2>1. reader' = [r \in Readers |-> IdleReader]
    BY DEF Restart
  <2>2. \A r \in Readers : reader'[r] = IdleReader
    BY <2>1
  <2>3. reader' \in [Readers -> ReaderRecords]
    BY <2>1, IdleFacts
  <2>4. ReaderInv' /\ RacedInv' /\ WaitInv'
    BY <2>2, IdleFacts DEF ReaderInv, RacedInv, WaitInv
  <2> QED BY <2>3, <2>4 DEF ReadersNext, TypeReader
<1>4. CachesNext
  <2>1. /\ signerCache' = {} /\ idxCache' = {} /\ dirty' = {}
        /\ authCache' = [a \in Auths |-> "none"]
    BY DEF Restart
  <2> QED BY <1>1, <2>1, SmallSets DEF CachesNext, TypeCaches, CommittedCached,
                                       CachedIsSavedUnlessRaced, DropInv, Statuses
<1>5. VotesNext
  <2>1. /\ list' = world.votes /\ stable' = world.votes
        /\ tmp' = NoList /\ changed' = FALSE /\ threads' = {} /\ mail' = <<>>
        /\ strayed' = FALSE
    BY DEF Restart
  <2>2. world.votes \in Lists
    BY <1>1 DEF GoodWorlds, Worlds
  <2>3. TypeVoting'
    <3>1. mail' \in Seq(Lists) /\ threads' \subseteq ThreadRecords /\ list' \in Lists
      BY <2>1, <2>2
    <3>2. stable' \in Lists /\ tmp' \in Lists \cup {NoList} /\ changed' \in BOOLEAN
      BY <2>1, <2>2
    <3> QED BY <2>1, <3>1, <3>2 DEF TypeVoting
  <2>4. Current' = world.votes /\ Target' = world.votes
    BY <1>1, <2>1 DEF Current, Target
  <2>5. VoteInv'
    BY <2>1, <2>4 DEF VoteInv
  <2> QED BY <2>3, <2>5 DEF VotesNext
<1>6. TypeLeft'
  BY LeftNext DEF Restart, TypeParts
<1> QED BY <1>2, <1>3, <1>4, <1>5, <1>6 DEF InvariantNext

\* Every step keeps the invariant.
LEMMA StepInvariant == Invariant /\ [Next]_vars => Invariant'
<1> SUFFICES ASSUME Invariant, [Next]_vars PROVE Invariant'
  OBVIOUS
<1>1. /\ TypeBlocks /\ TypeCaches /\ TypeReader /\ TypeVoting /\ TypeLeft
      /\ WorldInv /\ ReaderInv /\ RacedInv /\ WaitInv /\ DropInv /\ CacheInv /\ VoteInv
  BY InvariantParts DEF TypeParts
<1>2. CheckInv
  BY <1>1 DEF CheckInv, WorldInv
<1>3. schedule' = schedule
  BY NextCases
<1>4. CASE SaveSteps
  <2>1. TypeLeft'
    BY <1>1, <1>3, <1>4, SaveFoot, LeftNext
  <2>2. BlocksNext /\ ReadersNext
    BY <1>1, <1>4, SaveBlocks, SaveReaders
  <2>3. CachesNext /\ VotesNext
    BY <1>1, <1>4, SaveCaches, SaveVotes
  <2> QED BY <2>1, <2>2, <2>3, NextParts DEF InvariantNext
<1>5. CASE CheckSteps
  <2>1. /\ UNCHANGED <<world, undo, saving, preload, committed>>
        /\ UNCHANGED <<list, tmp, changed, threads, mail, stable, strayed>>
        /\ left' = left \/ Uses("checks")
    BY <1>5, CheckFoot
  <2>2. TypeLeft'
    BY <1>1, <1>3, <2>1, LeftNext
  <2>3. BlocksNext
    BY <1>1, <2>1 DEF BlocksNext, TypeBlocks, WorldInv
  <2>4. VotesNext
    <3>1. Target' = Target
      BY <2>1 DEF Target
    <3> QED BY <1>1, <2>1, <3>1, VotesKept DEF TypeVoting
  <2>5. ReadersNext /\ CachesNext
    BY <1>1, <1>2, <1>5, CheckReaders, CheckCachesNext
  <2> QED BY <2>2, <2>3, <2>4, <2>5, NextParts DEF InvariantNext
<1>6. CASE VoteSteps
  <2>1. UNCHANGED <<blocks, caches, reader, left>>
    BY <1>6, VoteFoot
  <2>2. VotesNext
    BY <1>1, <1>6, VoteStepVotes
  <2>3. BlocksNext
    BY <1>1, <2>1 DEF blocks, BlocksNext, TypeBlocks, WorldInv
  <2>4. ReadersNext
    BY <1>1, <2>1 DEF blocks, ReadersNext, TypeReader, ReaderInv, RacedInv, WaitInv,
                      PermissionSave
  <2>5. CachesNext
    BY <1>1, <2>1 DEF blocks, caches, CachesNext, CacheInv, TypeCaches, CommittedCached,
                      CachedIsSavedUnlessRaced, DropInv
  <2>6. TypeLeft'
    BY <1>1, <1>3, <2>1 DEF TypeLeft
  <2> QED BY <2>2, <2>3, <2>4, <2>5, <2>6, NextParts DEF InvariantNext
<1>7. CASE Restart
  BY <1>1, <1>3, <1>7, RestartNext, NextParts DEF TypeParts
<1>8. CASE UNCHANGED vars
  <2>1. UNCHANGED <<blocks, caches, reader, voting, left>>
    BY <1>8 DEF vars
  <2>2. VotesNext
    <3>1. UNCHANGED <<list, tmp, changed, threads, mail, stable, strayed, world, saving>>
      BY <2>1 DEF voting, blocks
    <3>2. Target' = Target
      BY <3>1 DEF Target
    <3> QED BY <1>1, <3>1, <3>2, VotesKept DEF TypeVoting
  <2>3. BlocksNext
    BY <1>1, <2>1 DEF blocks, BlocksNext, TypeBlocks, WorldInv
  <2>4. ReadersNext
    BY <1>1, <2>1 DEF blocks, ReadersNext, TypeReader, ReaderInv, RacedInv, WaitInv,
                      PermissionSave
  <2>5. CachesNext
    BY <1>1, <2>1 DEF blocks, caches, CachesNext, CacheInv, TypeCaches, CommittedCached,
                      CachedIsSavedUnlessRaced, DropInv
  <2>6. TypeLeft'
    BY <1>1, <1>3, <2>1 DEF TypeLeft
  <2> QED BY <2>2, <2>3, <2>4, <2>5, <2>6, NextParts DEF InvariantNext
<1> QED BY <1>4, <1>5, <1>6, <1>7, <1>8, NextCases DEF SaveSteps

-----------------------------------------------------------------------------
(* Theorems.                                                                *)

\* Blocks, caches, checks and the vote list are in step, whatever saves, rollbacks,
\* failures and restarts come between the steps of checks.
THEOREM InvariantCorrect == Spec => []Invariant
BY InitInvariant, StepInvariant, PTL DEF Spec

\* All variables are of their types.
THEOREM TypeCorrect == Spec => []TypeOK
<1>1. Invariant => TypeOK
  BY DEF Invariant, TypeInv
<1> QED BY <1>1, InvariantCorrect, PTL

\* What the caches hold of the signer, the index and the authorizations is what the
\* database holds, unless the check that put it there was overtaken by a save or rollback
\* of permissions or went by the overlay of a block (updateCache, DropEntry).
THEOREM CachedCorrect == Spec => []CachedIsSavedUnlessRaced
<1>1. Invariant => CachedIsSavedUnlessRaced
  BY DEF Invariant
<1> QED BY <1>1, InvariantCorrect, PTL

\* A check that nothing overtook answers by the committed state: it held what the world
\* does at each of its stages, and the world cannot have changed since.
THEOREM CheckedCorrect == Spec => []CheckedIsSavedUnlessRaced
<1>1. Invariant => CheckedIsSavedUnlessRaced
  BY DEF Invariant, ReaderInv, Sound, Honest, CheckedIsSavedUnlessRaced
<1> QED BY <1>1, InvariantCorrect, PTL

\* No check, raced or not, finds an authorization valid that never was in a saved state,
\* but for the calls of the very block that grants it: values of an overlay are not cached.
THEOREM GrantsCorrect == Spec => []GrantsWereCommitted
<1>1. Invariant => GrantsWereCommitted
  BY DEF Invariant, ReaderInv, Sound, Staged, GrantsWereCommitted
<1> QED BY <1>1, InvariantCorrect, PTL

\* The vote list and the stable nodes become those of the committed state, if its changes
\* do not come one over the other and none is rolled back, fails or is too short.
THEOREM VotesCorrect == Spec => []VotesAreSavedUnlessStrayed
<1>1. Invariant => VotesAreSavedUnlessStrayed
  BY DEF Invariant, VoteInv, Target, VotesAreSavedUnlessStrayed
<1> QED BY <1>1, InvariantCorrect, PTL
=============================================================================
