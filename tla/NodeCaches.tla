------------------------------ MODULE NodeCaches ------------------------------
(***************************************************************************)
(* What a node keeps in memory of its world state: the permission caches   *)
(* (authority/cache), from which contract calls and REST queries are       *)
(* authorised, and the vote list (network/cluster/management).  While a    *)
(* block is saved or rolled back BlockStorager tells both of each key it   *)
(* writes, before the batch commits.  The caches drop the key and read it  *)
(* again when it is needed; the vote list is handed the new value, which a *)
(* thread of its own applies.                                              *)
(*                                                                         *)
(* One account is modelled, with an authorization for each of some         *)
(* operations.  Its index of authorizations and the authorizations are     *)
(* written together by grantOperate and never removed; the signer entry is *)
(* not written, but what is cached for it is derived from all of them.     *)
(***************************************************************************)
EXTENDS Integers, Sequences, FiniteSets

CONSTANTS Auths,         \* authorizations, each of an operation of its own
          Lists,         \* vote lists
          Short,         \* the vote lists below getMinVoteNumber
          FirstList,     \* the vote list of the configuration
          NoList,        \* null
          Readers,       \* threads that check permissions
          Schedules      \* bound: what may happen in a behaviour, one of these

\* A schedule bounds the kinds of writes, the blocks saved or given up and those rolled
\* back, the permission checks, the blocks executed before they are saved, and the
\* failed commits and crashes.
ScheduleRecords ==
    [kinds : SUBSET {"grant", "flip", "votes"}, blocks : Nat, rollbacks : Nat,
     checks : Nat, preloads : Nat, faults : Nat]

\* The signer and the index have names of their own among the cached entries.
ASSUME CachesAssumption ==
    /\ Auths # {} /\ Auths \cap {"signer", "idx"} = {}
    /\ Short \subseteq Lists /\ FirstList \in Lists \ Short /\ NoList \notin Lists
    /\ Schedules \subseteq ScheduleRecords

VARIABLES world,        \* the committed world state: [granted, valid, votes]
          undo,         \* the blocks saved: [write, before]
          saving,       \* the batch of a save or rollback, and the keys to tell of
          preload,      \* the overlay of the block being executed
          signerCache,  \* at most one element: the operations known for the signer
          idxCache,     \* at most one element: the index of authorizations
          authCache,    \* status of each cached authorization
          reader,       \* what each thread is doing
          list,         \* voteListOfConfig
          tmp,          \* tmpVoteListOfConfig
          changed,      \* isChangeVoteListOfConfig
          threads,      \* UpdateVoteListThreads: [id, list, pc]
          mail,         \* vote lists on their way to the member listener
          stable,       \* the list behind the stable nodes of the member listener
          dirty,        \* history: entries cached by a check that was raced
          committed,    \* history: authorizations that were valid in some saved state
          strayed,      \* history: the vote list went its own way
          schedule,     \* what may happen in this behaviour
          left          \* what is left of it

caches == <<signerCache, idxCache, authCache, dirty>>
voting == <<list, tmp, changed, threads, mail, stable, strayed>>
blocks == <<world, undo, saving, preload, committed>>
vars == <<blocks, caches, reader, voting, schedule, left>>

-----------------------------------------------------------------------------
(* Data.                                                                    *)

Status(w, a) ==
    IF a \in w.valid THEN "valid" ELSE IF a \in w.granted THEN "revoked" ELSE "none"

\* Writes of a block: an authorization granted, or revoked or restored, or a vote list.
Writes == [kind : {"grant", "flip"}, on : Auths] \cup [kind : {"votes"}, on : Lists]

\* What the contracts accept.
Possible(w, x) ==
    CASE x.kind = "grant" -> x.on \notin w.granted
      [] x.kind = "flip" -> x.on \in w.granted
      [] OTHER -> x.on # w.votes

After(w, x) ==
    CASE x.kind = "grant" -> [w EXCEPT !.granted = @ \cup {x.on}, !.valid = @ \cup {x.on}]
      [] x.kind = "flip" -> [w EXCEPT !.valid = IF x.on \in @ THEN @ \ {x.on}
                                                ELSE @ \cup {x.on}]
      [] OTHER -> [w EXCEPT !.votes = x.on]

\* The signer is left out.
MutKeysOf(x) ==
    CASE x.kind = "grant" -> {"idx", "auth"}
      [] x.kind = "flip" -> {"auth"}
      [] OTHER -> {"votes"}

\* The keys the node is told of; that of the index has the signer's entry dropped too.
KeysOf(x) ==
    CASE x.kind = "grant" -> {"signer", "idx", "auth"}
      [] x.kind = "flip" -> {"auth"}
      [] OTHER -> {"votes"}

NoSave == [op |-> "none"]
NoPreload == [kind |-> "none"]

IdleReader == [pc |-> "idle", over |-> FALSE, op |-> CHOOSE a \in Auths : TRUE, acc |-> {},
               todo |-> {}, at |-> CHOOSE a \in Auths : TRUE, value |-> "none",
               leader |-> {}, raced |-> FALSE]

\* One of the bounds is used.
Uses(k) == left[k] > 0 /\ left' = [left EXCEPT ![k] = @ - 1]

\* A save or rollback of permission keys is under way.
PermissionSave == saving.op # "none" /\ saving.write.kind # "votes"

\* Every check under way has been overtaken by a save.
AllRaced == [r \in Readers |->
                IF reader[r].pc = "idle" THEN reader[r]
                ELSE [reader[r] EXCEPT !.raced = TRUE]]

-----------------------------------------------------------------------------
(* Blocks: preload, save and rollback.                                      *)

\* A block, or a transaction on trial, has been executed up to a write; the
\* transactions after it are checked against its overlay.
Preload(x) ==
    /\ preload = NoPreload
    /\ x.kind \in schedule.kinds \ {"votes"} /\ Possible(world, x)
    /\ LET w == After(world, x)
       IN  preload' = [kind |-> x.kind, on |-> x.on, granted |-> w.granted,
                       status |-> Status(w, x.on)]
    /\ Uses("preloads")
    /\ UNCHANGED <<world, undo, saving, committed, caches, reader, voting>>

\* The overlay is freed, whether or not the block will be saved.
Discard ==
    /\ preload # NoPreload
    /\ \A r \in Readers : reader[r].pc # "idle" => ~reader[r].over
    /\ preload' = NoPreload
    /\ UNCHANGED <<world, undo, saving, committed, caches, reader, voting, left>>

\* saveBlock opens its batch.
BeginSave(x) ==
    /\ saving = NoSave /\ x.kind \in schedule.kinds /\ Possible(world, x)
    /\ saving' = [op |-> "save", write |-> x, new |-> After(world, x), todo |-> KeysOf(x)]
    /\ reader' = IF x.kind = "votes" THEN reader ELSE AllRaced
    /\ Uses("blocks")
    /\ UNCHANGED <<world, undo, preload, committed, caches, voting>>

\* A rollback that tells of no key.
MutBeginRollback ==
    LET last == undo[Len(undo)]
    IN  /\ saving = NoSave /\ undo # <<>>
        /\ saving' = [op |-> "rollback", write |-> last.write, new |-> last.before,
                      todo |-> {}]
        /\ reader' = IF last.write.kind = "votes" THEN reader ELSE AllRaced
        /\ Uses("rollbacks")
        /\ UNCHANGED <<world, undo, preload, committed, caches, voting>>

\* rollback opens its batch; it tells of the same keys, with the value written.
BeginRollback ==
    LET last == undo[Len(undo)]
    IN  /\ saving = NoSave /\ undo # <<>>
        /\ saving' = [op |-> "rollback", write |-> last.write, new |-> last.before,
                      todo |-> KeysOf(last.write)]
        /\ reader' = IF last.write.kind = "votes" THEN reader ELSE AllRaced
        /\ Uses("rollbacks")
        /\ UNCHANGED <<world, undo, preload, committed, caches, voting>>

Told(k) == saving' = [saving EXCEPT !.todo = @ \ {k}]

\* updateCache: the entry is dropped, the signer's before that of the index.
DropEntry(k) ==
    /\ saving # NoSave /\ k \in saving.todo /\ k # "votes"
    /\ k = "idx" => "signer" \notin saving.todo
    /\ Told(k)
    /\ signerCache' = IF k = "signer" THEN {} ELSE signerCache
    /\ idxCache' = IF k = "idx" THEN {} ELSE idxCache
    /\ authCache' = IF k = "auth" THEN [authCache EXCEPT ![saving.write.on] = "none"]
                    ELSE authCache
    /\ dirty' = dirty \ IF k = "auth" THEN {saving.write.on} ELSE {k}
    /\ UNCHANGED <<world, undo, preload, committed, reader, voting, left>>

\* notifyVoteListChange: a new thread is given the list that was written, also
\* when the write is being rolled back.
NotifyVoteList ==
    /\ saving # NoSave /\ "votes" \in saving.todo
    /\ Told("votes")
    /\ threads' = threads \cup {[id |-> left.blocks + left.rollbacks,
                                 list |-> saving.write.on, pc |-> "update"]}
    /\ strayed' = (\/ saving.op = "rollback" \/ saving.write.on \in Short
                   \/ threads # {})
    /\ UNCHANGED <<world, undo, preload, committed, caches, reader, list, tmp, changed,
                   mail, stable, left>>

Commit ==
    /\ saving # NoSave /\ saving.todo = {}
    /\ world' = saving.new
    /\ undo' = IF saving.op = "save"
               THEN Append(undo, [write |-> saving.write, before |-> world])
               ELSE SubSeq(undo, 1, Len(undo) - 1)
    /\ committed' = committed \cup saving.new.valid
    /\ saving' = NoSave
    /\ UNCHANGED <<preload, caches, reader, voting, left>>

\* The write of the block or the commit throws, anywhere after the keys were told of.
CommitFails ==
    /\ saving # NoSave /\ saving.todo = {}
    /\ saving' = NoSave
    /\ strayed' = (strayed \/ saving.write.kind = "votes")
    /\ Uses("faults")
    /\ UNCHANGED <<world, undo, preload, committed, caches, reader, list, tmp, changed,
                   threads, mail, stable>>

-----------------------------------------------------------------------------
(* Permission checks: PermissionVerify.CheckPermission over the caches.     *)

Goes(r, rec) == reader' = [reader EXCEPT ![r] = rec]
OnlyReads == UNCHANGED <<blocks, caches, voting, left>>

\* A check of the operation of a: a contract call of the block being executed, or
\* a request that has no overlay.
StartCheck(r, a, over) ==
    /\ reader[r].pc = "idle"
    /\ over => preload # NoPreload
    /\ Goes(r, [IdleReader EXCEPT !.pc = "signer", !.over = over, !.op = a,
                                  !.raced = over \/ PermissionSave])
    /\ Uses("checks")
    /\ UNCHANGED <<blocks, caches, voting>>

\* The signer is in the cache, ...
HitSigner(r) ==
    /\ reader[r].pc = "signer" /\ signerCache # {}
    /\ Goes(r, [reader[r] EXCEPT !.pc = "auth", !.acc = UNION signerCache,
                                 !.raced = @ \/ "signer" \in dirty])
    /\ OnlyReads

Reading(r) == reader[r].pc \in {"idx", "idxPut", "ops", "opsPut", "opsWait"}

\* ... or another thread is reading it, ...
JoinSigner(r) ==
    /\ reader[r].pc = "signer" /\ signerCache = {}
    /\ \E p \in Readers \ {r} :
          /\ Reading(p)
          /\ Goes(r, [reader[r] EXCEPT !.pc = "signerWait", !.leader = {p}])
    /\ OnlyReads

\* ... or this thread reads it, and derives the operations from index and
\* authorizations.
MissSigner(r) ==
    /\ reader[r].pc = "signer" /\ signerCache = {}
    /\ Goes(r, [reader[r] EXCEPT !.pc = "idx"])
    /\ OnlyReads

\* The index comes from the overlay, from its cache or from the database.
LookIdx(r) ==
    LET c == reader[r]
        found(S, dirt) == Goes(r, [c EXCEPT !.pc = "ops", !.todo = S, !.raced = @ \/ dirt])
    IN  /\ c.pc = "idx"
        /\ CASE c.over /\ preload.kind = "grant" -> found(preload.granted, FALSE)
             [] ~(c.over /\ preload.kind = "grant") /\ idxCache # {} ->
                   found(UNION idxCache, "idx" \in dirty)
             [] OTHER -> IF world.granted = {} THEN found({}, FALSE)
                         ELSE Goes(r, [c EXCEPT !.pc = "idxPut", !.todo = world.granted])
        /\ OnlyReads

\* What was put is marked if its reader was raced.
Marked(r, k) == IF reader[r].raced THEN dirty \cup {k} ELSE dirty \ {k}

PutIdx(r) ==
    /\ reader[r].pc = "idxPut"
    /\ idxCache' = {reader[r].todo}
    /\ dirty' = Marked(r, "idx")
    /\ Goes(r, [reader[r] EXCEPT !.pc = "ops"])
    /\ UNCHANGED <<blocks, signerCache, authCache, voting, left>>

\* An authorization has been read: one more operation of the signer, or the result.
GotAuth(c, v) ==
    IF c.pc \in {"ops", "opsPut", "opsWait"}
    THEN [c EXCEPT !.pc = "ops", !.todo = @ \ {c.at}, !.value = "none", !.leader = {},
                   !.acc = IF v = "none" THEN @ ELSE @ \cup {c.at}]
    ELSE [c EXCEPT !.pc = "done", !.value = v, !.leader = {}]

\* A preload value that is cached for everyone.
MutLookAuth(r, a) ==
    LET c == [reader[r] EXCEPT !.at = a]
        putting == IF c.pc = "ops" THEN "opsPut" ELSE "authPut"
    IN  /\ \/ c.pc = "ops" /\ a \in c.todo
           \/ c.pc = "auth" /\ a = c.op /\ a \in c.acc
        /\ CASE c.over /\ preload.on = a ->
                   Goes(r, [c EXCEPT !.pc = putting, !.value = preload.status])
             [] ~(c.over /\ preload.on = a) /\ authCache[a] # "none" ->
                   Goes(r, [GotAuth(c, authCache[a]) EXCEPT !.raced = @ \/ a \in dirty])
             [] OTHER -> IF Status(world, a) = "none" THEN Goes(r, GotAuth(c, "none"))
                         ELSE Goes(r, [c EXCEPT !.pc = putting, !.value = Status(world, a)])
        /\ OnlyReads

\* An authorization: from the overlay, from its cache or from the database.
LookAuth(r, a) ==
    LET c == [reader[r] EXCEPT !.at = a]
        putting == IF c.pc = "ops" THEN "opsPut" ELSE "authPut"
    IN  /\ \/ c.pc = "ops" /\ a \in c.todo
           \/ c.pc = "auth" /\ a = c.op /\ a \in c.acc
        /\ CASE c.over /\ preload.on = a -> Goes(r, GotAuth(c, preload.status))
             [] ~(c.over /\ preload.on = a) /\ authCache[a] # "none" ->
                   Goes(r, [GotAuth(c, authCache[a]) EXCEPT !.raced = @ \/ a \in dirty])
             [] OTHER -> IF Status(world, a) = "none" THEN Goes(r, GotAuth(c, "none"))
                         ELSE Goes(r, [c EXCEPT !.pc = putting, !.value = Status(world, a)])
        /\ OnlyReads

\* Another thread is reading it: its result is awaited.
JoinAuth(r, a) ==
    LET c == reader[r]
    IN  /\ \/ c.pc = "ops" /\ a \in c.todo
           \/ c.pc = "auth" /\ a = c.op /\ a \in c.acc
        /\ ~(c.over /\ preload.on = a) /\ authCache[a] = "none"
        /\ \E p \in Readers \ {r} :
              /\ reader[p].pc \in {"opsPut", "authPut"} /\ reader[p].at = a
              /\ Goes(r, [c EXCEPT !.at = a, !.leader = {p},
                                   !.pc = IF c.pc = "ops" THEN "opsWait" ELSE "authWait"])
        /\ OnlyReads

\* Those who wait for reader r, in one of some states.
Waiting(r, pcs) == {q \in Readers : reader[q].pc \in pcs /\ reader[q].leader = {r}}

PutAuth(r) ==
    LET c == reader[r]
        waiting == Waiting(r, {"opsWait", "authWait"})
    IN  /\ c.pc \in {"opsPut", "authPut"}
        /\ authCache' = [authCache EXCEPT ![c.at] = c.value]
        /\ dirty' = Marked(r, c.at)
        /\ reader' = [q \in Readers |->
              IF q = r THEN GotAuth(c, c.value)
              ELSE IF q \in waiting
              THEN [GotAuth(reader[q], c.value) EXCEPT !.raced = @ \/ c.raced]
              ELSE reader[q]]
        /\ UNCHANGED <<blocks, signerCache, idxCache, voting, left>>

\* All operations are known: the signer is cached, and those who wait go on with it.
PutSigner(r) ==
    LET c == reader[r]
    IN  /\ c.pc = "ops" /\ c.todo = {}
        /\ signerCache' = {c.acc}
        /\ dirty' = Marked(r, "signer")
        /\ reader' = [q \in Readers |->
              IF q = r THEN [c EXCEPT !.pc = "auth"]
              ELSE IF q \in Waiting(r, {"signerWait"})
              THEN [reader[q] EXCEPT !.pc = "auth", !.acc = c.acc, !.leader = {},
                                       !.raced = @ \/ c.raced]
              ELSE reader[q]]
        /\ UNCHANGED <<blocks, idxCache, authCache, voting, left>>

\* The operation is not among those of the signer.
Deny(r) ==
    /\ reader[r].pc = "auth" /\ reader[r].op \notin reader[r].acc
    /\ Goes(r, [reader[r] EXCEPT !.pc = "done", !.value = "none"])
    /\ OnlyReads

EndCheck(r) ==
    /\ reader[r].pc = "done"
    /\ Goes(r, IdleReader)
    /\ OnlyReads

-----------------------------------------------------------------------------
(* The vote list: ConsensusNodeConfig and MemberListener.                   *)

\* The flag is read the wrong way round.
MutCurrent == IF changed THEN list ELSE tmp

\* getVoteListOfConfig takes over a list that waits.
Current == IF changed /\ tmp # NoList THEN tmp ELSE list
TakeOver == list' = Current /\ changed' = FALSE

SomeThread(t, pc) == t \in threads /\ t.pc = pc
Step(t, u) == threads' = (threads \ {t}) \cup u

\* A thread that leaves the flag to others.
MutUpdateVoteList(t) ==
    /\ SomeThread(t, "update")
    /\ tmp' = IF t.list \in Short THEN tmp ELSE t.list
    /\ Step(t, {[t EXCEPT !.pc = "get"]})
    /\ UNCHANGED <<blocks, caches, reader, list, changed, mail, stable, strayed, left>>

\* updateVoteList, under its lock; a list that is too short is passed over.
UpdateVoteList(t) ==
    /\ SomeThread(t, "update")
    /\ tmp' = IF t.list \in Short THEN tmp ELSE t.list
    /\ changed' = (changed \/ t.list \notin Short)
    /\ Step(t, {[t EXCEPT !.pc = "get"]})
    /\ UNCHANGED <<blocks, caches, reader, list, mail, stable, strayed, left>>

\* The thread reads the list ...
GetVoteList(t) ==
    /\ SomeThread(t, "get")
    /\ TakeOver
    /\ Step(t, {[t EXCEPT !.pc = "send", !.list = Current]})
    /\ UNCHANGED <<blocks, caches, reader, tmp, mail, stable, strayed, left>>

\* ... and sends it to the member listener.
SendVoteList(t) ==
    /\ SomeThread(t, "send")
    /\ mail' = Append(mail, t.list)
    /\ Step(t, {})
    /\ UNCHANGED <<blocks, caches, reader, list, tmp, changed, stable, strayed, left>>

\* Anyone else reads the list.
ReadVoteList ==
    /\ changed
    /\ TakeOver
    /\ UNCHANGED <<blocks, caches, reader, tmp, threads, mail, stable, strayed, left>>

\* The listener makes the members on the list the stable nodes.
ListenVoteList ==
    /\ mail # <<>>
    /\ stable' = Head(mail)
    /\ mail' = Tail(mail)
    /\ UNCHANGED <<blocks, caches, reader, list, tmp, changed, threads, strayed, left>>

-----------------------------------------------------------------------------

\* The process dies at any point: the batch and all that is in memory are gone, and
\* the vote list is loaded from the database.
Restart ==
    /\ saving' = NoSave /\ preload' = NoPreload
    /\ signerCache' = {} /\ idxCache' = {} /\ dirty' = {}
    /\ authCache' = [a \in Auths |-> "none"]
    /\ reader' = [r \in Readers |-> IdleReader]
    /\ list' = world.votes /\ stable' = world.votes
    /\ tmp' = NoList /\ changed' = FALSE /\ threads' = {} /\ mail' = <<>>
    /\ strayed' = FALSE
    /\ Uses("faults")
    /\ UNCHANGED <<world, undo, committed>>

Init ==
    /\ world = [granted |-> {}, valid |-> {}, votes |-> FirstList]
    /\ undo = <<>> /\ saving = NoSave /\ preload = NoPreload /\ committed = {}
    /\ signerCache = {} /\ idxCache = {} /\ dirty = {}
    /\ authCache = [a \in Auths |-> "none"]
    /\ reader = [r \in Readers |-> IdleReader]
    /\ list = FirstList /\ stable = FirstList
    /\ tmp = NoList /\ changed = FALSE /\ threads = {} /\ mail = <<>>
    /\ strayed = FALSE
    /\ schedule \in Schedules /\ left = schedule

Saving ==
    \/ \E x \in Writes : Preload(x) \/ BeginSave(x)
    \/ Discard \/ BeginRollback \/ NotifyVoteList \/ Commit \/ CommitFails
    \/ \E k \in {"signer", "idx", "auth"} : DropEntry(k)
Checking(r) ==
    \/ \E a \in Auths, over \in BOOLEAN : StartCheck(r, a, over)
    \/ \E a \in Auths : LookAuth(r, a) \/ JoinAuth(r, a)
    \/ HitSigner(r) \/ JoinSigner(r) \/ MissSigner(r) \/ LookIdx(r) \/ PutIdx(r)
    \/ PutAuth(r) \/ PutSigner(r) \/ Deny(r) \/ EndCheck(r)
Voting ==
    \/ \E t \in threads : UpdateVoteList(t) \/ GetVoteList(t) \/ SendVoteList(t)
    \/ ReadVoteList \/ ListenVoteList

Next ==
    /\ Saving \/ (\E r \in Readers : Checking(r)) \/ Voting \/ Restart
    /\ UNCHANGED schedule

Spec == Init /\ [][Next]_vars

-----------------------------------------------------------------------------
(* Properties.                                                              *)

Worlds == [granted : SUBSET Auths, valid : SUBSET Auths, votes : Lists]
Statuses == {"valid", "revoked", "none"}
Stages == {"idle", "signer", "signerWait", "idx", "idxPut", "ops", "opsPut", "opsWait",
           "auth", "authPut", "authWait", "done"}

\* Types of the variables; nothing is valid that was not granted.
TypeOK ==
    /\ world \in Worlds /\ world.valid \subseteq world.granted
    /\ \A i \in DOMAIN undo : undo[i].write \in Writes /\ undo[i].before \in Worlds
    /\ saving # NoSave => /\ saving.op \in {"save", "rollback"}
                          /\ saving.write \in Writes /\ saving.new \in Worlds
                          /\ saving.todo \subseteq KeysOf(saving.write)
    /\ preload # NoPreload =>
          preload \in [kind : {"grant", "flip"}, on : Auths, granted : SUBSET Auths,
                       status : Statuses]
    /\ signerCache \subseteq SUBSET Auths /\ Cardinality(signerCache) <= 1
    /\ idxCache \subseteq SUBSET Auths /\ Cardinality(idxCache) <= 1
    /\ authCache \in [Auths -> Statuses]
    /\ reader \in [Readers -> [pc : Stages, over : BOOLEAN, op : Auths, acc : SUBSET Auths,
                               todo : SUBSET Auths, at : Auths, value : Statuses,
                               leader : SUBSET Readers, raced : BOOLEAN]]
    /\ list \in Lists /\ tmp \in Lists \cup {NoList} /\ changed \in BOOLEAN
    /\ threads \subseteq [id : Nat, list : Lists, pc : {"update", "get", "send"}]
    /\ mail \in Seq(Lists) /\ stable \in Lists
    /\ dirty \subseteq {"signer", "idx"} \cup Auths
    /\ committed \subseteq Auths /\ strayed \in BOOLEAN
    /\ schedule \in Schedules /\ left \in ScheduleRecords

\* A cached entry is what the database holds, unless the check that cached it was
\* overtaken by a save or rollback of permission keys, used the overlay of a block, or
\* went by such an entry or thread: every key that a write changes, the signer's
\* derived entry included, is dropped.
CachedIsSavedUnlessRaced ==
    /\ "signer" \notin dirty => signerCache \subseteq {world.granted}
    /\ "idx" \notin dirty => idxCache \subseteq {world.granted}
    /\ \A a \in Auths \ dirty : authCache[a] \in {"none", Status(world, a)}

\* The result of a check that was not overtaken is that of the committed state:
\* whatever is cached, what was granted is seen and what was revoked is not.
CheckedIsSavedUnlessRaced ==
    \A r \in Readers : reader[r].pc = "done" /\ ~reader[r].raced =>
        reader[r].value = Status(world, reader[r].op)

\* An authorization that was only ever in the overlay of a block being executed lets
\* nobody else do anything, although the signer's entry derived from it is shared.
GrantsWereCommitted ==
    \A r \in Readers : reader[r].pc = "done" /\ reader[r].value = "valid" =>
        \/ reader[r].op \in committed
        \/ reader[r].over /\ preload.on = reader[r].op /\ preload.status = "valid"

\* Once nothing is under way the vote list and the stable nodes are those of the
\* committed state, unless the last change of it was rolled back or its commit failed,
\* its list is too short, or two changes were applied at the same time.
VotesAreSavedUnlessStrayed ==
    saving = NoSave /\ threads = {} /\ mail = <<>> /\ ~strayed =>
        Current = world.votes /\ stable = world.votes

=============================================================================
