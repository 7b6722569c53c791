----------------------------- MODULE DirPathHash -----------------------------
(***************************************************************************)
(* The cache of the directory table that the backends of one server share  *)
(* (falcon/dir_path_shmem/dir_path_hash.c): Search, Insert and Delete of   *)
(* an entry with its lock, the eviction of entries, and what the end of a  *)
(* transaction does to the cache (FalconTransactionCallback in             *)
(* falcon/transaction/transaction.c), also when the transaction was        *)
(* prepared for the CN.                                                    *)
(*                                                                         *)
(* One partition of the table is modelled: partitions share nothing.  What *)
(* a backend does under the partition's LWLock is one action.  A lock is   *)
(* the RWLock of module RWLock, seen from outside: a backend refers to an  *)
(* entry while it waits for its lock or holds it, and an entry somebody    *)
(* refers to is not destroyable.                                           *)
(***************************************************************************)
EXTENDS Naturals, Sequences, FiniteSets

CONSTANTS
    Procs,        \* the backends
    Keys,         \* <<parentId, name>> pairs
    Slots,        \* memory for entries
    Threshold,    \* entries beyond this many are evicted at commit
    Programs,     \* what a transaction may call: sequences of calls
    MaxId,        \* bound: how many inode ids are generated
    Ends          \* how a transaction may end

Modes == {"exclusive", "shared", "none"}

Calls == [op: {"search", "insert", "delete"}, key: Keys, mode: Modes,
          need: {"any", "absent", "present"}]

ASSUME ConstantsOK ==
    /\ Programs \subseteq Seq(Calls)
    /\ \A pr \in Programs : pr # <<>>
    /\ "no key" \notin Keys /\ "no slot" \notin Slots
    /\ Threshold \in Nat /\ MaxId \in Nat
    /\ Ends \subseteq {"commit", "abort", "commit prepared",
                       "rollback prepared", "session lost"}

VARIABLES
    slot,         \* the entries: a key and the inode id cached for it
    db,           \* falcon_directory_table, as committed
    nextId,       \* the sequence of inode ids
    pc, prog,     \* where a backend is, and the calls it has left
    at,           \* the entry the call works on
    id,           \* the inode id for what the transaction creates
    seen,         \* what the call read from the table
    held,         \* locks held: [slot, key, mode]
    mine,         \* the transaction's own writes to the table
    todo,         \* DirPathHashToCommitAction and its infos
    known,        \* what Search last returned under a lock, by key
    limbo         \* writes of prepared transactions whose session is gone

vars == <<slot, db, nextId, pc, prog, at, id, seen, held, mine, todo, known, limbo>>

-----------------------------------------------------------------------------
NotExist == 0     \* DIR_HASH_TABLE_PATH_NOT_EXIST

Unknown == MaxId + 1  \* DIR_HASH_TABLE_PATH_UNKNOWN

Nil == MaxId + 2  \* no value

Values == 0 .. MaxId + 2

NoKey == "no key"

NoSlot == "no slot"

Free == [key |-> NoKey, val |-> Unknown]

NoWrites == [k \in Keys |-> Nil]

Updates == [act: {"A", "U"}, key: Keys, val: Values]

TypeOK ==
    /\ slot \in [Slots -> [key: Keys \cup {NoKey}, val: Values]]
    /\ db \in [Keys -> Values]
    /\ nextId \in 1 .. MaxId + 1
    /\ pc \in [Procs -> {"idle", "probe", "read", "enter", "acquire", "use",
                         "done", "error", "prepared", "publish"}]
    /\ prog \in [Procs -> Seq(Calls)]
    /\ at \in [Procs -> Slots \cup {NoSlot}]
    /\ id \in [Procs -> Values]
    /\ seen \in [Procs -> Values]
    /\ held \in [Procs -> SUBSET [slot: Slots, key: Keys, mode: Modes \ {"none"}]]
    /\ mine \in [Procs -> [Keys -> Values]]
    /\ todo \in [Procs -> Seq(Updates)]
    /\ known \in [Procs -> [Keys -> Values]]
    /\ limbo \subseteq [Keys -> Values]

Init ==
    /\ slot = [s \in Slots |-> Free]
    /\ db = [k \in Keys |-> NotExist]
    /\ nextId = 1
    /\ pc = [p \in Procs |-> "idle"]
    /\ prog = [p \in Procs |-> <<>>]
    /\ at = [p \in Procs |-> NoSlot]
    /\ id = [p \in Procs |-> Nil]
    /\ seen = [p \in Procs |-> Nil]
    /\ held = [p \in Procs |-> {}]
    /\ mine = [p \in Procs |-> NoWrites]
    /\ todo = [p \in Procs |-> <<>>]
    /\ known = [p \in Procs |-> NoWrites]
    /\ limbo = {}

-----------------------------------------------------------------------------
Call(p) == Head(prog[p])

Entries == {s \in Slots : slot[s].key # NoKey}

Find(k) == {s \in Slots : slot[s].key = k}

Goto(p, step) == pc' = [pc EXCEPT ![p] = step]

\* SearchDirectoryTableInfo: the committed table and the backend's own writes.
View(p, k) == IF mine[p][k] # Nil THEN mine[p][k] ELSE db[k]

Waiting(p, s) == pc[p] = "acquire" /\ at[p] = s

Holds(p, s) == \E h \in held[p] : h.slot = s

\* Mutant: a backend that waits for the lock does not count.
DestroyableIgnoringWaiters(s) == s \in Entries /\ \A p \in Procs : ~ Holds(p, s)

\* RWLockCheckDestroyable: nobody has a reference to the entry's lock.
Destroyable(s) ==
    /\ s \in Entries
    /\ \A p \in Procs : ~ Waiting(p, s) /\ ~ Holds(p, s)

\* The call goes on with entry s; with a lock mode it refers to the lock first.
Pin(p, s) ==
    /\ at' = [at EXCEPT ![p] = s]
    /\ Goto(p, IF Call(p).mode = "none" THEN "use" ELSE "acquire")

(* A backend starts a transaction; one that creates a directory has an     *)
(* inode id for it, never used before.                                     *)
Begin(p, pr) ==
    LET creates == \E i \in DOMAIN pr : pr[i].op = "insert" IN
    /\ pc[p] = "idle"
    /\ Goto(p, "probe")
    /\ prog' = [prog EXCEPT ![p] = pr]
    /\ creates => nextId <= MaxId
    /\ nextId' = IF creates THEN nextId + 1 ELSE nextId
    /\ id' = [id EXCEPT ![p] = IF creates THEN nextId ELSE Nil]
    /\ UNCHANGED <<slot, db, at, seen, held, mine, todo, known, limbo>>

(* The first look, under the shared LWLock.  Only Delete makes do with an  *)
(* entry whose inode id is UNKNOWN.                                        *)
Probe(p) ==
    LET c == Call(p)
        hit == {s \in Find(c.key) : c.op = "delete" \/ slot[s].val # Unknown}
    IN
    /\ pc[p] = "probe"
    /\ IF hit # {}
         THEN \E s \in hit : Pin(p, s)
         ELSE /\ Goto(p, IF c.op = "delete" THEN "enter" ELSE "read")
              /\ UNCHANGED at
    /\ UNCHANGED <<id, slot, db, nextId, prog, seen, held, mine, todo, known, limbo>>

(* The table is read without any lock; Insert raises "target exists.".     *)
ReadTable(p) ==
    LET v == View(p, Call(p).key) IN
    /\ pc[p] = "read"
    /\ seen' = [seen EXCEPT ![p] = v]
    /\ Goto(p, IF Call(p).op = "insert" /\ v # NotExist THEN "error" ELSE "enter")
    /\ UNCHANGED <<id, slot, db, nextId, prog, at, held, mine, todo, known, limbo>>

(* HASH_ENTER_NULL under the exclusive LWLock, the entry found; an inode   *)
(* id other than the one read raises "dir path hash table is corrupt.".    *)
EnterFound(p) ==
    LET c == Call(p) IN
    /\ pc[p] = "enter"
    /\ \E s \in Find(c.key) :
         IF c.op = "delete"
           THEN /\ Pin(p, s)
                /\ UNCHANGED slot
         ELSE IF slot[s].val \in {Unknown, seen[p]}
           THEN /\ Pin(p, s)
                /\ slot' = [slot EXCEPT ![s].val = seen[p]]
         ELSE Goto(p, "error") /\ UNCHANGED <<slot, at>>
    /\ UNCHANGED <<id, db, nextId, prog, seen, held, mine, todo, known, limbo>>

(* The same, a new entry.                                                  *)
EnterNew(p) ==
    LET c == Call(p)
        v == IF c.op = "delete" THEN Unknown ELSE seen[p]
    IN
    /\ pc[p] = "enter"
    /\ Find(c.key) = {}
    /\ \E s \in Slots \ Entries :
         /\ slot' = [slot EXCEPT ![s] = [key |-> c.key, val |-> v]]
         /\ Pin(p, s)
    /\ todo' = [todo EXCEPT ![p] =
                  Append(@, [act |-> "A", key |-> c.key, val |-> Nil])]
    /\ UNCHANGED <<id, db, nextId, prog, seen, held, mine, known, limbo>>

(* The same without space: a call that locks evicts an entry and tries     *)
(* again, one that does not goes on without an entry.                      *)
EnterNoSpace(p) ==
    /\ pc[p] = "enter"
    /\ Find(Call(p).key) = {} /\ Entries = Slots
    /\ Call(p).mode = "none"
    /\ at' = [at EXCEPT ![p] = NoSlot]
    /\ Goto(p, "use")
    /\ UNCHANGED <<id, slot, db, nextId, prog, seen, held, mine, todo, known, limbo>>

\* EliminateDirPathHashByLRU: the clock over usageCount may pick any entry
\* that is destroyable, and removes it if it still is.
Evictable(s) == Cardinality(Entries) > Threshold /\ Destroyable(s)

Eliminate(s) ==
    /\ Evictable(s)
    /\ slot' = [slot EXCEPT ![s] = Free]

\* Mutant: a table that is full but not over the threshold is left as it is.
MakeSpaceTooLate(p) ==
    /\ pc[p] = "enter"
    /\ Find(Call(p).key) = {} /\ Entries = Slots
    /\ Call(p).mode # "none"
    /\ UNCHANGED vars

MakeSpace(p) ==
    /\ pc[p] = "enter"
    /\ Find(Call(p).key) = {} /\ Entries = Slots
    /\ Call(p).mode # "none"
    /\ \E s \in Slots : Eliminate(s)
    /\ UNCHANGED <<db, nextId, pc, prog, at, id, seen, held, mine, todo, known, limbo>>

\* Mutant: a shared request that does not see the exclusive holder.
AcquireIgnoringExclusive(p) ==
    /\ pc[p] = "acquire"
    /\ Call(p).mode = "exclusive" =>
          \A q \in Procs : \A h \in held[q] : h.slot # at[p]
    /\ held' = [held EXCEPT ![p] = @ \cup
                  {[slot |-> at[p], key |-> Call(p).key, mode |-> Call(p).mode]}]
    /\ Goto(p, "use")
    /\ UNCHANGED <<slot, db, nextId, prog, at, id, seen, mine, todo, known, limbo>>

(* RWLockAcquire and RWLockUndeclare.                                      *)
Acquire(p) ==
    LET s == at[p]
        m == Call(p).mode
    IN
    /\ pc[p] = "acquire"
    /\ \A q \in Procs : \A h \in held[q] :
         h.slot = s => m = "shared" /\ h.mode = "shared"
    /\ held' = [held EXCEPT ![p] = @ \cup
                  {[slot |-> s, key |-> Call(p).key, mode |-> m]}]
    /\ Goto(p, "use")
    /\ UNCHANGED <<slot, db, nextId, prog, at, id, seen, mine, todo, known, limbo>>

-----------------------------------------------------------------------------
\* The call has returned.
Return(p) ==
    /\ prog' = [prog EXCEPT ![p] = Tail(@)]
    /\ Goto(p, IF Tail(prog[p]) = <<>> THEN "done" ELSE "probe")

(* Search returns the inode id in the entry, or the one read from the      *)
(* table when there is no entry; its caller gives up if that is not what   *)
(* it needs (PathParseTreeInsert).                                         *)
SearchReturns(p) ==
    LET c == Call(p)
        v == IF at[p] = NoSlot THEN seen[p] ELSE slot[at[p]].val
    IN
    /\ pc[p] = "use" /\ c.op = "search"
    /\ IF \/ c.need = "any"
          \/ c.need = "absent" /\ v = NotExist
          \/ c.need = "present" /\ v # NotExist
         THEN Return(p)
         ELSE Goto(p, "error") /\ UNCHANGED prog
    /\ known' = IF c.mode = "none" THEN known
                ELSE [known EXCEPT ![p][c.key] = v]
    /\ UNCHANGED <<id, slot, db, nextId, at, seen, held, mine, todo, limbo>>

\* Writes of key k that are not yet committed, by others.
Pending(p, k) ==
    \/ \E q \in Procs \ {p} : mine[q][k] # Nil
    \/ \E x \in limbo : x[k] # Nil

\* The write of a call, and the update of the entry that goes with it.
Write(p, k, v) ==
    /\ mine' = [mine EXCEPT ![p][k] = v]
    /\ todo' = IF at[p] = NoSlot THEN todo
               ELSE [todo EXCEPT ![p] =
                       Append(@, [act |-> "U", key |-> k, val |-> v])]
    /\ known' = [known EXCEPT ![p][k] = Nil]
    /\ Return(p)

(* InsertIntoDirectoryTable: the unique index waits for another writer of  *)
(* the key, and refuses a key that exists.                                 *)
InsertReturns(p) ==
    LET k == Call(p).key IN
    /\ pc[p] = "use" /\ Call(p).op = "insert"
    /\ ~ Pending(p, k)
    /\ IF View(p, k) = NotExist
         THEN Write(p, k, id[p])
         ELSE Goto(p, "error") /\ UNCHANGED <<mine, todo, known, prog>>
    /\ UNCHANGED <<slot, db, nextId, at, id, seen, held, limbo>>

(* DeleteFromDirectoryTable: "can not find" when there is no row to see;   *)
(* otherwise the delete waits for another writer of the row.               *)
DeleteReturns(p) ==
    LET k == Call(p).key IN
    /\ pc[p] = "use" /\ Call(p).op = "delete"
    /\ IF View(p, k) # NotExist
         THEN ~ Pending(p, k) /\ Write(p, k, NotExist)
         ELSE Goto(p, "error") /\ UNCHANGED <<mine, todo, known, prog>>
    /\ UNCHANGED <<id, slot, db, nextId, at, seen, held, limbo>>

-----------------------------------------------------------------------------
\* The table with the writes x in it.
Applied(x) == [k \in Keys |-> IF x[k] # Nil THEN x[k] ELSE db[k]]

\* RWLockReleaseAll, and the end of what the transaction remembers.
Forget(p) ==
    /\ held' = [held EXCEPT ![p] = {}]
    /\ todo' = [todo EXCEPT ![p] = <<>>]
    /\ known' = [known EXCEPT ![p] = NoWrites]
    /\ mine' = [mine EXCEPT ![p] = NoWrites]
    /\ prog' = [prog EXCEPT ![p] = <<>>]
    /\ at' = [at EXCEPT ![p] = NoSlot]
    /\ id' = [id EXCEPT ![p] = Nil]
    /\ seen' = [seen EXCEPT ![p] = Nil]
    /\ Goto(p, "idle")

\* Mutant: the locks are released before the updates are published, which are
\* lost with them.
ReleaseWithoutPublish(p) ==
    /\ pc[p] = "publish"
    /\ Forget(p)
    /\ UNCHANGED <<slot, db, nextId, limbo>>

(* The local commit makes the rows visible; XACT_EVENT_COMMIT follows.     *)
Commit(p) ==
    /\ pc[p] = "done" /\ "commit" \in Ends
    /\ db' = Applied(mine[p])
    /\ mine' = [mine EXCEPT ![p] = NoWrites]
    /\ known' = [known EXCEPT ![p] = NoWrites]
    /\ Goto(p, "publish")
    /\ UNCHANGED <<id, slot, nextId, prog, at, seen, held, todo, limbo>>

(* XACT_EVENT_ABORT: AbortForDirPathHash forgets the updates.              *)
Abort(p) ==
    /\ pc[p] = "error" \/ (pc[p] = "done" /\ "abort" \in Ends)
    /\ Forget(p)
    /\ UNCHANGED <<slot, db, nextId, limbo>>

(* PREPARE TRANSACTION: XACT_EVENT_PREPARE leaves the locks and the        *)
(* updates as they are.                                                    *)
Prepare(p) ==
    /\ pc[p] = "done" /\ mine[p] # NoWrites
    /\ Ends \cap {"commit prepared", "rollback prepared", "session lost"} # {}
    /\ Goto(p, "prepared")
    /\ known' = [known EXCEPT ![p] = NoWrites]
    /\ UNCHANGED <<slot, db, nextId, prog, at, id, seen, held, mine, todo, limbo>>

(* COMMIT PREPARED in the same session is a transaction of its own, and    *)
(* its XACT_EVENT_COMMIT publishes the updates.                            *)
CommitPrepared(p) ==
    /\ pc[p] = "prepared" /\ "commit prepared" \in Ends
    /\ db' = Applied(mine[p])
    /\ mine' = [mine EXCEPT ![p] = NoWrites]
    /\ Goto(p, "publish")
    /\ UNCHANGED <<id, slot, nextId, prog, at, seen, held, todo, known, limbo>>

(* ROLLBACK PREPARED is too: it commits, so the same event publishes the   *)
(* updates of the transaction that is gone.                                *)
RollbackPrepared(p) ==
    /\ pc[p] = "prepared" /\ "rollback prepared" \in Ends
    /\ mine' = [mine EXCEPT ![p] = NoWrites]
    /\ Goto(p, "publish")
    /\ UNCHANGED <<slot, db, nextId, prog, at, id, seen, held, todo, known, limbo>>

(* The session of a prepared transaction ends (FalconCleanupOnExit).       *)
SessionLost(p) ==
    /\ pc[p] = "prepared" /\ "session lost" \in Ends
    /\ limbo' = limbo \cup {mine[p]}
    /\ Forget(p)
    /\ UNCHANGED <<slot, db, nextId>>

(* The CN's daemon ends such a transaction from a session of its own,      *)
(* which has no updates to publish.                                        *)
DaemonCommit(x) ==
    /\ x \in limbo
    /\ db' = Applied(x)
    /\ limbo' = limbo \ {x}
    /\ UNCHANGED <<slot, nextId, pc, prog, at, id, seen, held, mine, todo, known>>

DaemonRollback(x) ==
    /\ x \in limbo
    /\ limbo' = limbo \ {x}
    /\ UNCHANGED <<slot, db, nextId, pc, prog, at, id, seen, held, mine, todo, known>>

(* CommitForDirPathHash, one action of the list: 'A' evicts an entry when  *)
(* there are too many, 'U' writes the inode id, into a new entry when the  *)
(* old one is gone and there is space.                                     *)
Publish(p) ==
    LET e == Head(todo[p])
        k == e.key
        new == [key |-> k, val |-> e.val]
    IN
    /\ pc[p] = "publish" /\ todo[p] # <<>>
    /\ \/ /\ e.act = "A"
          /\ \/ \E s \in Slots : Eliminate(s)
             \/ (\A s \in Slots : ~ Evictable(s)) /\ UNCHANGED slot
       \/ /\ e.act = "U"
          /\ LET S == IF Find(k) # {} THEN Find(k) ELSE Slots \ Entries IN
             IF S = {} THEN UNCHANGED slot
             ELSE \E s \in S : slot' = [slot EXCEPT ![s] = new]
    /\ todo' = [todo EXCEPT ![p] = Tail(@)]
    /\ UNCHANGED <<db, nextId, pc, prog, at, id, seen, held, mine, known, limbo>>

(* RWLockReleaseAll comes after the last one.                              *)
Release(p) ==
    /\ pc[p] = "publish" /\ todo[p] = <<>>
    /\ Forget(p)
    /\ UNCHANGED <<slot, db, nextId, limbo>>

-----------------------------------------------------------------------------
Step(p) ==
    \/ Probe(p) \/ ReadTable(p) \/ EnterFound(p) \/ EnterNew(p)
    \/ EnterNoSpace(p) \/ MakeSpace(p)
    \/ SearchReturns(p) \/ InsertReturns(p) \/ DeleteReturns(p)
    \/ Commit(p) \/ Abort(p) \/ Prepare(p)
    \/ CommitPrepared(p) \/ RollbackPrepared(p) \/ SessionLost(p)
    \/ Publish(p) \/ Release(p)

Daemon == \E x \in limbo : DaemonCommit(x) \/ DaemonRollback(x)

Next ==
    \/ \E p \in Procs, pr \in Programs : Begin(p, pr)
    \/ \E p \in Procs : Step(p)
    \/ \E p \in Procs : Acquire(p)
    \/ Daemon

Spec == Init /\ [][Next]_vars

(* A backend takes its steps, and a backend that waits for a lock that is  *)
(* free again and again gets it (RWLock: the flag of an exclusive waiter   *)
(* keeps new readers out).                                                 *)
FairSpec ==
    /\ Spec
    /\ \A p \in Procs : WF_vars(Step(p)) /\ SF_vars(Acquire(p))
    /\ WF_vars(Daemon)

-----------------------------------------------------------------------------
(* Two backends never hold conflicting locks on one directory, and a lock  *)
(* somebody holds or waits for is the lock of the entry that still caches  *)
(* that directory: eviction and reuse of the memory never take it away     *)
(* (EliminateDirPathHashByLRU, RWLockDeclare under the LWLock).            *)
KeyExclusion ==
    /\ \A p, q \in Procs : p # q =>
          \A g \in held[p], h \in held[q] :
              g.key = h.key => g.mode = "shared" /\ h.mode = "shared"
    /\ \A p \in Procs : \A h \in held[p] : slot[h.slot].key = h.key
    /\ \A p \in Procs : pc[p] = "acquire" => slot[at[p]].key = Call(p).key

\* A directory has one entry: HASH_ENTER finds the one that is there.
OneEntry ==
    \A s, t \in Slots : slot[s].key = slot[t].key /\ slot[s].key # NoKey => s = t

\* A backend inside a call has that call, and one that waits for a lock has an
\* entry and a lock mode to wait with.
CallsSound ==
    \A p \in Procs :
        /\ pc[p] \in {"probe", "read", "enter", "acquire", "use"} => prog[p] # <<>>
        /\ pc[p] = "acquire" => at[p] \in Slots /\ Call(p).mode # "none"

\* All of it, with the types of the variables.
Inv == TypeOK /\ KeyExclusion /\ OneEntry /\ CallsSound

(* The cache agrees with the directory table wherever no transaction has   *)
(* the directory locked for writing (Search's use of an entry without a    *)
(* look at the table relies on it).                                        *)
CacheCoherent ==
    \A s \in Entries :
        \/ slot[s].val \in {Unknown, db[slot[s].key]}
        \/ \E p \in Procs : \E h \in held[p] : h.slot = s /\ h.mode = "exclusive"

(* What Search returned under a lock stays true for as long as the lock is *)
(* held: nobody creates or removes the directory meanwhile                 *)
(* (SearchDirectoryByDirectoryHashTable for PathParseTreeInsert).          *)
LockedSearchFresh ==
    \A p \in Procs, k \in Keys : known[p][k] \in {Nil, db[k]}

\* Why the two hold (DirPathHashProofs).  A handler writes a directory under
\* its exclusive lock, and does not look it up again in the same transaction.
Disciplined(pr) ==
    \A i \in 1 .. Len(pr) : pr[i].op # "search" =>
        /\ \E j \in 1 .. i : pr[j].key = pr[i].key /\ pr[j].mode = "exclusive"
        /\ \A j \in i + 1 .. Len(pr) : pr[j].key # pr[i].key

\* There is memory for every entry before the eviction begins, and no prepared
\* transaction is rolled back or loses its session.
Undisturbed ==
    /\ IsFiniteSet(Slots) /\ Cardinality(Slots) <= Threshold
    /\ Ends \subseteq {"commit", "abort", "commit prepared"}
    /\ \A pr \in Programs : Disciplined(pr)

Owns(p, k) == \E h \in held[p] : h.key = k /\ h.mode = "exclusive"

\* p has committed and an update of directory k is still to be published.
Publishing(p, k) ==
    /\ pc[p] = "publish"
    /\ \E i \in 1 .. Len(todo[p]) : todo[p][i].act = "U" /\ todo[p][i].key = k

\* The calls left to p keep the discipline.
CallsDisciplined(p) ==
    \A i \in 1 .. Len(prog[p]) :
        LET c == prog[p][i] IN
        /\ mine[p][c.key] = Nil
        /\ c.op = "insert" => id[p] \in 0 .. MaxId
        /\ c.op # "search" =>
             /\ \/ Owns(p, c.key)
                \/ \E j \in 1 .. i : prog[p][j].key = c.key /\ prog[p][j].mode = "exclusive"
             /\ \A j \in i + 1 .. Len(prog[p]) : prog[p][j].key # c.key

\* A write is under the exclusive lock and its update is on the list; after
\* the commit the list has what the table has.
WritesLocked(p) ==
    /\ \A k \in Keys : mine[p][k] # Nil =>
          /\ mine[p][k] \in 0 .. MaxId /\ Owns(p, k)
          /\ pc[p] \notin {"idle", "publish"}
          /\ \E i \in 1 .. Len(todo[p]) : todo[p][i].act = "U" /\ todo[p][i].key = k
    /\ \A i \in 1 .. Len(todo[p]) : todo[p][i].act = "U" =>
          LET k == todo[p][i].key IN
          /\ Owns(p, k)
          /\ todo[p][i].val = IF pc[p] = "publish" THEN db[k] ELSE mine[p][k]
          /\ todo[p][i].val # Nil

\* What a call read from the table is still there when it enters it, or is
\* thrown away.
SeenFresh(p) ==
    pc[p] = "enter" /\ Call(p).op # "delete" =>
        /\ seen[p] \in 0 .. MaxId
        /\ \/ seen[p] = db[Call(p).key]
           \/ \E s \in Find(Call(p).key) :
                 slot[s].val # Unknown \/ \E q \in Procs : Publishing(q, Call(p).key)

\* A call that uses an entry uses that of its directory, under its lock if it
\* asked for one.
UseSound(p) ==
    /\ pc[p] \in {"acquire", "use"} /\ at[p] # NoSlot =>
          /\ slot[at[p]].key = Call(p).key
          /\ Call(p).op = "search" => slot[at[p]].val # Unknown
    /\ pc[p] = "use" /\ Call(p).mode # "none" =>
          [slot |-> at[p], key |-> Call(p).key, mode |-> Call(p).mode] \in held[p]
    /\ pc[p] = "use" /\ at[p] = NoSlot => ~ Owns(p, Call(p).key)

\* What a backend knows it knows under a lock.
KnownLocked(p) ==
    \A k \in Keys : known[p][k] # Nil =>
        /\ known[p][k] = db[k]
        /\ \E h \in held[p] : h.key = k
        /\ pc[p] \notin {"idle", "prepared", "publish"}

Coherent(p) ==
    /\ CallsDisciplined(p) /\ WritesLocked(p) /\ SeenFresh(p)
    /\ UseSound(p) /\ KnownLocked(p)

\* An entry is true, or about to be made true.
EntriesTrue ==
    \A s \in Entries :
        \/ slot[s].val \in {Unknown, db[slot[s].key]}
        \/ \E p \in Procs : Publishing(p, slot[s].key)

CoherenceInv ==
    /\ limbo = {} /\ db \in [Keys -> 0 .. MaxId]
    /\ EntriesTrue
    /\ \A p \in Procs : Coherent(p)

(* Once no more operations arrive, those that have begun end: the waits    *)
(* for locks, the loop that looks for space in a full table and the wait   *)
(* for the daemon are over some time.  While lookups keep arriving they    *)
(* may refer to every entry of a full table whenever                       *)
(* EliminateDirPathHashByLRU looks, so the condition is needed.            *)
Finishes ==
    <>[][\A p \in Procs : pc[p] = "idle" => pc'[p] = "idle"]_vars
        => \A p \in Procs : pc[p] # "idle" ~> pc[p] = "idle"

=============================================================================
