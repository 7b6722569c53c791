------------------------------ MODULE MetaRows ------------------------------
(***************************************************************************)
(* What the backends of one worker do to its tables in the handlers of     *)
(* falcon/metadb/meta_handle.c that stay on one worker: the inode rows of  *)
(* one directory (create, stat, open, close, unlink, utimens, chown,       *)
(* chmod, readdir), the key-value and slice metadata and the slice id      *)
(* counters.  The paths are resolved already (the module Namespace).       *)
(*                                                                         *)
(* The tables are PostgreSQL's: a scan sees the rows that are committed    *)
(* when it begins and the transaction's own, a write of a row waits for    *)
(* the transaction that wrote it last, the unique index refuses a second   *)
(* row, and an update or delete of a row that changed since it was read is *)
(* an error.                                                               *)
(***************************************************************************)
EXTENDS Integers, Sequences, FiniteSets, SequencesExt

CONSTANTS
    Sessions,    \* the backends, each with one request
    Requests,    \* the requests a session may be sent: [op, items]
    Names,       \* file names, as numbers in the order of strcmp
    Part,        \* HashPartId of a name
    Shards,      \* how many shards the worker has
    ShardOf,     \* the shard of a name
    UserKeys,    \* keys of the key-value metadata
    Chunks,      \* chunks that have slices
    OldNames,    \* names that have a file at first
    OldDirs,     \* names that have a directory at first
    GroupSize,   \* BATCH_OPERATION_GROUP_SIZE
    PageSize,    \* readDirMaxReadCount
    BlockSize,   \* ids a backend takes from the sequence at a time
    FirstId      \* where the sequence of inode ids stands at first

\* A row: the inode id (or the value, or the counter), the type, the links, and
\* the sessions whose updates of other columns it holds.
None == [id |-> 0, isDir |-> FALSE, nlink |-> 0, by |-> {}]
File(id) == [id |-> id, isDir |-> FALSE, nlink |-> 1, by |-> {}]
Directory(id) == [id |-> id, isDir |-> TRUE, nlink |-> 2, by |-> {}]
Value(v) == [id |-> v, isDir |-> FALSE, nlink |-> 0, by |-> {}]

SliceId == <<"sliceid", 0>>
Keys == ({"inode"} \X Names) \cup ({"kv"} \X UserKeys) \cup {SliceId}

ReadOps == {"stat", "open", "kvget"}
UpdateOps == {"close", "utimens", "chown", "chmod", "unlink", "kvdel"}
SliceOps == {"sliceput", "sliceget", "slicedel"}
Ops == ReadOps \cup UpdateOps \cup SliceOps \cup {"create", "kvput", "fetch", "readdir"}

\* What the items of a request are: names, keys, chunks, or how many slice ids.
ItemsOf(op) == IF op \in {"kvput", "kvget", "kvdel"} THEN UserKeys
               ELSE IF op \in SliceOps THEN Chunks ELSE IF op = "fetch" THEN Nat ELSE Names

ASSUME MetaRowsAssumptions ==
    /\ Names \subseteq Nat /\ IsFiniteSet(Names) /\ OldNames \subseteq Names /\ OldDirs \subseteq Names
    /\ OldNames \cap OldDirs = {}
    /\ Part \in [Names -> Nat] /\ Shards \in Nat /\ ShardOf \in [Names -> 1..Shards]
    /\ GroupSize \in Nat \ {0} /\ PageSize \in Nat \ {0} /\ BlockSize \in Nat \ {0}
    /\ FirstId \in Nat \ {0} /\ OldNames \cup OldDirs \subseteq 1..(FirstId - 1)
    /\ \A s \in Sessions : \A r \in Requests[s] :
         /\ r.op \in Ops /\ r.items \in Seq(ItemsOf(r.op))
         /\ r.op = "fetch" => Len(r.items) = 1

VARIABLES
    table,      \* the committed rows with their versions: [row, ver]
    slices,     \* committed slice rows: <<chunk, slice>>
    own,        \* a transaction's uncommitted rows: key -> row
    ownSlices,  \* its uncommitted slice rows: put, deleted, and about to be deleted
    seen,       \* the row and version its scan has found
    pc, job, turn,   \* its step, request and item
    answer,     \* the error code of each item
    ids,        \* the inode ids drawn for a create
    group,      \* create: shards to do, the list of this one, the place in it, what
                \* the group may still insert, and the rows when it began
    stream,     \* readdir: [shard, state, last, count, listed, on]
    stable, ever,    \* history: names there all the time, and at any time, while
                \* a readdir stream is open
    sequence, cache, \* the inode id sequence, and what a backend has taken of it
    granted,    \* history: ranges of slice ids that were committed
    updated     \* history: committed updates, <<session, key, inode id>>

txn == <<own, ownSlices, seen, group>>
history == <<stable, ever, granted, updated>>
vars == <<table, slices, txn, pc, job, turn, answer, ids, stream, sequence, cache, history>>

NoFun == [k \in {} |-> None]
NoSlices == [put |-> {}, del |-> {}, want |-> {}]
NoGroup == [shards |-> {}, list |-> <<>>, at |-> 1, left |-> 0, saved |-> NoFun]
NoStream == [shard |-> 0, state |-> "NEW_SHARD", last |-> 0, count |-> 0,
             listed |-> <<>>, on |-> FALSE]
NoJob == [op |-> "none", items |-> <<>>]

Live(t) == {n \in Names : t[<<"inode", n>>].row # None}

Init ==
    /\ table = [k \in Keys |->
         [row |-> IF k[1] # "inode" THEN None
                  ELSE IF k[2] \in OldNames THEN File(k[2])
                  ELSE IF k[2] \in OldDirs THEN Directory(k[2]) ELSE None,
          ver |-> 0]]
    /\ slices = Chunks \X {"old"}
    /\ own = [s \in Sessions |-> NoFun] /\ ownSlices = [s \in Sessions |-> NoSlices]
    /\ seen = [s \in Sessions |-> [row |-> None, ver |-> 0]]
    /\ pc = [s \in Sessions |-> "start"] /\ job = [s \in Sessions |-> NoJob]
    /\ turn = [s \in Sessions |-> 1]
    /\ answer = [s \in Sessions |-> <<>>] /\ ids = [s \in Sessions |-> <<>>]
    /\ group = [s \in Sessions |-> NoGroup] /\ stream = [s \in Sessions |-> NoStream]
    /\ stable = [s \in Sessions |-> {}] /\ ever = [s \in Sessions |-> {}]
    /\ sequence = FirstId /\ cache = [s \in Sessions |-> [left |-> 0, next |-> 0]]
    /\ granted = {} /\ updated = {}

-----------------------------------------------------------------------------
(* The sequence, the tables.                                                *)

\* GetNextSequenceNum called n times: [got, cache, sequence].  A backend uses up
\* the ids it has left, and asks the sequence for a block whenever it has none.
GetNextSequenceNum(c, q, n) ==
    LET more == IF n > c.left THEN n - c.left ELSE 0
        blocks == (more + BlockSize - 1) \div BlockSize
    IN [got |-> [i \in 1..n |-> IF i <= c.left THEN c.next + i - 1 ELSE q + i - c.left - 1],
        cache |-> [left |-> c.left + blocks * BlockSize - n,
                   next |-> IF more = 0 THEN c.next + n ELSE q + more],
        sequence |-> q + blocks * BlockSize]

Sees(s, k) == IF k \in DOMAIN own[s] THEN own[s][k] ELSE table[k].row
Free(s, k) == \A o \in Sessions \ {s} : k \notin DOMAIN own[o]
Put(f, k, v) == [x \in DOMAIN f \cup {k} |-> IF x = k THEN v ELSE f[x]]
Write(s, k, row) == own' = [own EXCEPT ![s] = Put(@, k, row)]

\* SearchAndUpdateInodeTableInfo: the row after an update by s.  The last link
\* deletes the row; a row of another type than required stays as it is.
SearchAndUpdateInodeTableInfo(s, row, links, mustBeFile) ==
    IF links # 0 /\ row.nlink = links THEN None
    ELSE IF mustBeFile /\ row.isDir THEN row
    ELSE [row EXCEPT !.by = @ \cup {s}, !.nlink = @ - links]

-----------------------------------------------------------------------------
Item(s) == job[s].items[turn[s]]
Op(s) == job[s].op
HasItem(s) == turn[s] <= Len(job[s].items)
At(s, ops) == pc[s] = "item" /\ HasItem(s) /\ Op(s) \in ops
InodeKey(n) == <<"inode", n>>
ItemKey(s) == <<IF Op(s) \in {"kvput", "kvget", "kvdel"} THEN "kv" ELSE "inode", Item(s)>>

\* A request arrives: FileMetaProcess, KVMetaProcess, SliceMetaProcess or
\* SliceIdProcess decodes it and calls its handler.  Resolving the paths has
\* drawn the inode ids of a create, one for each item.
Begin(s) ==
    /\ pc[s] = "start"
    /\ \E r \in Requests[s] :
        LET created == IF r.op = "create" THEN 1..Len(r.items) ELSE {}
            draw == GetNextSequenceNum(cache[s], sequence,
                        IF r.op = "create" THEN Len(r.items) ELSE 0) IN
        /\ job' = [job EXCEPT ![s] = r]
        /\ ids' = [ids EXCEPT ![s] = draw.got]
        /\ cache' = [cache EXCEPT ![s] = draw.cache] /\ sequence' = draw.sequence
        /\ answer' = [answer EXCEPT ![s] = [i \in 1..Len(r.items) |-> "SUCCESS"]]
        /\ group' = [group EXCEPT ![s].shards = {ShardOf[r.items[i]] : i \in created}]
        /\ stream' = [stream EXCEPT ![s].on = r.op = "readdir", ![s].shard = 1]
        /\ stable' = [stable EXCEPT ![s] = Live(table)]
        /\ ever' = [ever EXCEPT ![s] = Live(table)]
        /\ pc' = [pc EXCEPT ![s] = CASE r.op = "create" -> "shard"
                                     [] r.op = "readdir" -> "scan" [] OTHER -> "item"]
    /\ UNCHANGED <<table, slices, own, ownSlices, seen, turn, granted, updated>>

Rest == <<table, slices, job, ids, stream, sequence, cache, history>>

\* An error of a statement ends the transaction, and is the answer of the whole
\* request.
Fail(s) ==
    /\ pc' = [pc EXCEPT ![s] = "failed"]
    /\ answer' = [answer EXCEPT ![s] = [i \in DOMAIN @ |-> "ERROR"]]
    /\ own' = [own EXCEPT ![s] = NoFun] /\ ownSlices' = [ownSlices EXCEPT ![s] = NoSlices]
    /\ UNCHANGED <<Rest, seen, group, turn>>

Answer(s, code) ==
    /\ answer' = [answer EXCEPT ![s][turn[s]] = code]
    /\ turn' = [turn EXCEPT ![s] = @ + 1]

ReadRow(s) ==
    /\ Answer(s, IF Sees(s, ItemKey(s)) = None THEN "FILE_NOT_EXISTS" ELSE "SUCCESS")
    /\ seen' = [seen EXCEPT ![s].row = Sees(s, ItemKey(s))]
    /\ UNCHANGED <<Rest, pc, own, ownSlices, group>>

StatHandle(s) == At(s, {"stat"}) /\ ReadRow(s)
OpenHandle(s) == At(s, {"open"}) /\ ReadRow(s)
KvmetaGetHandle(s) ==
    /\ At(s, {"kvget"})
    /\ IF Sees(s, ItemKey(s)) = None THEN Fail(s) ELSE ReadRow(s)

\* The row that each update writes, from the row it has found.
CloseHandle(s) == SearchAndUpdateInodeTableInfo(s, seen[s].row, 0, FALSE)
UtimeNsHandle(s) == SearchAndUpdateInodeTableInfo(s, seen[s].row, 0, FALSE)
ChownHandle(s) == SearchAndUpdateInodeTableInfo(s, seen[s].row, 0, FALSE)
ChmodHandle(s) == SearchAndUpdateInodeTableInfo(s, seen[s].row, 0, FALSE)
UnlinkHandle(s) == SearchAndUpdateInodeTableInfo(s, seen[s].row, 1, TRUE)
KvmetaDelHandle(s) == None

NewRow(s) == CASE Op(s) = "close" -> CloseHandle(s) [] Op(s) = "utimens" -> UtimeNsHandle(s)
               [] Op(s) = "chown" -> ChownHandle(s) [] Op(s) = "chmod" -> ChmodHandle(s)
               [] Op(s) = "unlink" -> UnlinkHandle(s) [] OTHER -> KvmetaDelHandle(s)

\* The scan of an update.  A row that is not there is an error of utimens,
\* chown, chmod and kvdel, and an answer of close and unlink.
FindRow(s) ==
    /\ At(s, UpdateOps)
    /\ LET k == ItemKey(s) IN
       \/ /\ Sees(s, k) # None
          /\ seen' = [seen EXCEPT ![s] = [row |-> Sees(s, k), ver |-> table[k].ver]]
          /\ pc' = [pc EXCEPT ![s] = "write"]
          /\ UNCHANGED <<Rest, turn, answer, own, ownSlices, group>>
       \/ /\ Sees(s, k) = None /\ Op(s) \in {"close", "unlink"}
          /\ Answer(s, "FILE_NOT_EXISTS")
          /\ UNCHANGED <<Rest, pc, txn>>
       \/ Sees(s, k) = None /\ Op(s) \notin {"close", "unlink"} /\ Fail(s)

WrongType(s) == Op(s) = "unlink" /\ seen[s].row.isDir

\* Mutant: the update takes the row as it finds it now.
NeverChanged(s) == FALSE

\* CatalogTupleUpdate and CatalogTupleDelete refuse a row that has changed.
Changed(s) == table[ItemKey(s)].ver # seen[s].ver

UpdateRow(s) ==
    /\ pc[s] = "write" /\ Op(s) # "fetch"
    /\ \/ /\ WrongType(s) /\ Answer(s, "PATH_VERIFY_FAILED")
          /\ pc' = [pc EXCEPT ![s] = "item"] /\ UNCHANGED <<Rest, txn>>
       \/ /\ ~WrongType(s) /\ Free(s, ItemKey(s)) /\ ~Changed(s)
          /\ Write(s, ItemKey(s), NewRow(s)) /\ Answer(s, "SUCCESS")
          /\ pc' = [pc EXCEPT ![s] = "item"] /\ UNCHANGED <<Rest, ownSlices, seen, group>>
       \/ ~WrongType(s) /\ Free(s, ItemKey(s)) /\ Changed(s) /\ Fail(s)

\* FalconKvmetaPutHandle: a key that exists keeps its value, and the answer is
\* SUCCESS.
KvmetaPutHandle(s) ==
    /\ At(s, {"kvput"}) /\ Free(s, ItemKey(s))
    /\ IF Sees(s, ItemKey(s)) # None THEN UNCHANGED own
       ELSE Write(s, ItemKey(s), Value(1))
    /\ Answer(s, "SUCCESS") /\ UNCHANGED <<Rest, pc, ownSlices, seen, group>>

\* The slice handlers of a chunk; the index is not unique, and a delete takes
\* the rows it sees.
SlicePutHandle(s) ==
    /\ At(s, {"sliceput"})
    /\ ownSlices' = [ownSlices EXCEPT ![s].put = @ \cup {<<Item(s), s>>}]
    /\ Answer(s, "SUCCESS") /\ UNCHANGED <<Rest, pc, own, seen, group>>

VisibleSlices(s, c) ==
    {x \in (slices \cup ownSlices[s].put) \ ownSlices[s].del : x[1] = c}

\* FalconSliceDelHandle finds the rows and deletes them; a row that another
\* session is deleting makes it wait, and fail when that one commits.
SliceDelScan(s) ==
    /\ At(s, {"slicedel"})
    /\ ownSlices' = [ownSlices EXCEPT ![s].want = VisibleSlices(s, Item(s))]
    /\ pc' = [pc EXCEPT ![s] = "delete"]
    /\ UNCHANGED <<Rest, turn, answer, own, seen, group>>

WantFree(s) == \A o \in Sessions \ {s} : ownSlices[o].del \cap ownSlices[s].want = {}

SliceDelHandle(s) ==
    /\ pc[s] = "delete" /\ WantFree(s)
    /\ LET want == ownSlices[s].want IN
       IF want \subseteq slices \cup ownSlices[s].put
       THEN /\ ownSlices' = [ownSlices EXCEPT ![s].del = @ \cup want, ![s].want = {}]
            /\ Answer(s, "SUCCESS") /\ pc' = [pc EXCEPT ![s] = "item"]
            /\ UNCHANGED <<Rest, own, seen, group>>
       ELSE Fail(s)

SliceGetHandle(s) ==
    /\ At(s, {"sliceget"})
    /\ Answer(s, IF VisibleSlices(s, Item(s)) = {} THEN "FILE_NOT_EXISTS" ELSE "SUCCESS")
    /\ UNCHANGED <<Rest, pc, txn>>

\* FalconFetchSliceIdHandle reads the counter, then updates or inserts it.
FetchSliceIdRead(s) ==
    /\ At(s, {"fetch"})
    /\ seen' = [seen EXCEPT ![s] = [row |-> Sees(s, SliceId), ver |-> table[SliceId].ver]]
    /\ pc' = [pc EXCEPT ![s] = "write"]
    /\ UNCHANGED <<Rest, turn, answer, own, ownSlices, group>>

FetchSliceIdWrite(s) ==
    /\ pc[s] = "write" /\ Op(s) = "fetch" /\ Free(s, SliceId)
    /\ IF table[SliceId].ver # seen[s].ver THEN Fail(s)
       ELSE /\ Write(s, SliceId, Value(seen[s].row.id + Item(s)))
            /\ Answer(s, "SUCCESS") /\ pc' = [pc EXCEPT ![s] = "item"]
            /\ UNCHANGED <<Rest, ownSlices, seen, group>>

-----------------------------------------------------------------------------
(* FalconCreateHandle: the items of one shard after the other, in groups,   *)
(* each group a subtransaction that is retried without the item that failed.*)

\* pg_qsort orders the items of the shard by name; those of one name come in
\* any order.
CreateShard(s) ==
    /\ pc[s] = "shard"
    /\ LET items == job[s].items IN
       \E sh \in group[s].shards :
       \E list \in SetToSeqs({i \in DOMAIN items : ShardOf[items[i]] = sh}) :
           /\ \A a, b \in DOMAIN list : a < b => items[list[a]] <= items[list[b]]
           /\ group' = [group EXCEPT ![s].shards = @ \ {sh}, ![s].list = list]
    /\ pc' = [pc EXCEPT ![s] = "group"]
    /\ UNCHANGED <<Rest, turn, answer, own, ownSlices, seen>>

\* BeginInternalSubTransaction, while there is something to handle.
CreateGroup(s) ==
    /\ pc[s] = "group"
    /\ IF group[s].list = <<>>
       THEN pc' = [pc EXCEPT ![s] = "shard"] /\ UNCHANGED group
       ELSE /\ pc' = [pc EXCEPT ![s] = "insert"]
            /\ group' = [group EXCEPT ![s].at = 1, ![s].left = GroupSize, ![s].saved = own[s]]
    /\ UNCHANGED <<Rest, turn, answer, own, ownSlices, seen>>

GroupIsOver(s) == group[s].left = 0 \/ group[s].at > Len(group[s].list)
CreateIndex(s) == group[s].list[group[s].at]
CreateKey(s) == InodeKey(job[s].items[CreateIndex(s)])

\* An item that was found to exist is passed over; another is inserted.
CreateInsert(s) ==
    /\ pc[s] = "insert" /\ ~GroupIsOver(s)
    /\ IF answer[s][CreateIndex(s)] = "FILE_EXISTS"
       THEN group' = [group EXCEPT ![s].at = @ + 1] /\ UNCHANGED own
       ELSE /\ Free(s, CreateKey(s)) /\ Sees(s, CreateKey(s)) = None
            /\ Write(s, CreateKey(s), File(ids[s][CreateIndex(s)]))
            /\ group' = [group EXCEPT ![s].at = @ + 1, ![s].left = @ - 1]
    /\ UNCHANGED <<Rest, pc, turn, answer, ownSlices, seen>>

\* ReleaseCurrentSubTransaction: the handled part of the list is dropped.
CreateGroupDone(s) ==
    /\ pc[s] = "insert" /\ GroupIsOver(s)
    /\ group' = [group EXCEPT ![s].list = SubSeq(@, group[s].at, Len(@))]
    /\ pc' = [pc EXCEPT ![s] = "group"]
    /\ UNCHANGED <<Rest, turn, answer, own, ownSlices, seen>>

\* Mutant: the items before the one that failed are taken to be done.
CreateRollbackAndGoOn(s) ==
    /\ own' = [own EXCEPT ![s] = group[s].saved]
    /\ answer' = [answer EXCEPT ![s][CreateIndex(s)] = "FILE_EXISTS"]
    /\ group' = [group EXCEPT ![s].list = SubSeq(@, group[s].at, Len(@))]
    /\ pc' = [pc EXCEPT ![s] = "group"]
    /\ UNCHANGED <<Rest, turn, ownSlices, seen>>

\* The exception handler: RollbackAndReleaseCurrentSubTransaction, and whatever
\* the error was, the item is answered FILE_EXISTS.
CreateRollback(s) ==
    /\ own' = [own EXCEPT ![s] = group[s].saved]
    /\ answer' = [answer EXCEPT ![s][CreateIndex(s)] = "FILE_EXISTS"]
    /\ pc' = [pc EXCEPT ![s] = "group"]
    /\ UNCHANGED <<Rest, group, turn, ownSlices, seen>>

\* The unique index refuses the row.
CreateExists(s) ==
    /\ pc[s] = "insert" /\ ~GroupIsOver(s) /\ answer[s][CreateIndex(s)] = "SUCCESS"
    /\ Free(s, CreateKey(s)) /\ Sees(s, CreateKey(s)) # None
    /\ CreateRollback(s)

-----------------------------------------------------------------------------
(* PostgreSQL ends a wait of two sessions for each other with an error in   *)
(* one of them.                                                             *)

BlockedBy(s) ==
    {o \in Sessions \ {s} :
        \/ pc[s] = "write" /\ Op(s) # "fetch" /\ ~WrongType(s) /\ ItemKey(s) \in DOMAIN own[o]
        \/ /\ pc[s] = "insert" /\ ~GroupIsOver(s) /\ answer[s][CreateIndex(s)] = "SUCCESS"
           /\ CreateKey(s) \in DOMAIN own[o]
        \/ pc[s] = "delete" /\ ownSlices[o].del \cap ownSlices[s].want # {}}

\* Mutant: nobody ends it.
NoDeadlockVictim(s) ==
    /\ \E o \in BlockedBy(s) : s \in BlockedBy(o)
    /\ UNCHANGED vars

DeadlockVictim(s) ==
    /\ \E o \in BlockedBy(s) : s \in BlockedBy(o)
    /\ IF pc[s] = "insert" THEN CreateRollback(s) ELSE Fail(s)

-----------------------------------------------------------------------------
(* FalconReadDirHandle: a page, from a cursor, of the worker's shards.      *)

IndexLess(a, b) == Part[a] < Part[b] \/ (Part[a] = Part[b] /\ a < b)

\* Mutant: a page that ends with a name goes on with the next hash.
ScanKeySkips(r, n) ==
    CASE r.state = "SAME_ID_GREATER_NAME" -> FALSE
      [] r.state = "GREATER_ID" -> Part[n] > Part[r.last]
      [] OTHER -> TRUE

\* What the scan of this step looks for: the names after the cursor that have
\* its hash, those of greater hashes, or a whole shard.
ScanKey(r, n) ==
    CASE r.state = "SAME_ID_GREATER_NAME" -> Part[n] = Part[r.last] /\ n > r.last
      [] r.state = "GREATER_ID" -> Part[n] > Part[r.last]
      [] OTHER -> TRUE

NextState(r) == IF r.state = "SAME_ID_GREATER_NAME" THEN "GREATER_ID" ELSE "NEW_SHARD"

\* A page of the rows that are found, or less: the cursor after it.
ReadPage(r, rows) ==
    LET room == PageSize - r.count
        page == SubSeq(rows, 1, IF Len(rows) < room THEN Len(rows) ELSE room)
        full == r.count + Len(page) >= PageSize
    IN [r EXCEPT !.listed = @ \o page,
                 !.count = IF full THEN 0 ELSE @ + Len(page),
                 !.last = IF full THEN Last(page) ELSE @,
                 !.state = IF full THEN "SAME_ID_GREATER_NAME" ELSE NextState(r),
                 !.shard = IF full \/ NextState(r) # "NEW_SHARD" THEN @ ELSE @ + 1]

Found(r) == {n \in Live(table) : ShardOf[n] = r.shard /\ ScanKey(r, n)}

\* The scan finds the rows in the order of the index.
ReadDirScan(s) ==
    /\ pc[s] = "scan" /\ stream[s].shard <= Shards
    /\ \E rows \in SetToSeqs(Found(stream[s])) :
         /\ \A i, j \in DOMAIN rows : i < j => IndexLess(rows[i], rows[j])
         /\ stream' = [stream EXCEPT ![s] = ReadPage(@, rows)]
    /\ UNCHANGED <<table, slices, txn, pc, job, turn, answer, ids, sequence, cache, history>>

ReadDirEnd(s) ==
    /\ pc[s] = "scan" /\ stream[s].shard > Shards
    /\ pc' = [pc EXCEPT ![s] = "done"] /\ stream' = [stream EXCEPT ![s].on = FALSE]
    /\ UNCHANGED <<table, slices, txn, job, turn, answer, ids, sequence, cache, history>>

-----------------------------------------------------------------------------
\* The response is encoded and the transaction commits.
Commit(s) ==
    /\ \/ pc[s] = "item" /\ ~HasItem(s)
       \/ pc[s] = "shard" /\ group[s].shards = {}
    /\ table' = [k \in Keys |->
         IF k \in DOMAIN own[s] THEN [row |-> own[s][k], ver |-> table[k].ver + 1] ELSE table[k]]
    /\ slices' = (slices \cup ownSlices[s].put) \ ownSlices[s].del
    /\ stable' = [o \in Sessions |-> stable[o] \cap Live(table')]
    /\ ever' = [o \in Sessions |-> IF stream[o].on THEN ever[o] \cup Live(table') ELSE ever[o]]
    /\ granted' = IF Op(s) # "fetch" THEN granted
                  ELSE granted \cup {[by |-> s, from |-> seen[s].row.id, to |-> own[s][SliceId].id]}
    /\ updated' = updated \cup
         {<<s, k, own[s][k].id>> : k \in {k \in DOMAIN own[s] : s \in own[s][k].by}}
    /\ own' = [own EXCEPT ![s] = NoFun] /\ ownSlices' = [ownSlices EXCEPT ![s] = NoSlices]
    /\ pc' = [pc EXCEPT ![s] = "done"]
    /\ UNCHANGED <<seen, group, job, turn, answer, ids, stream, sequence, cache>>

CreateStep(s) ==
    \/ CreateShard(s) \/ CreateGroup(s) \/ CreateInsert(s) \/ CreateGroupDone(s)
    \/ CreateExists(s)
Step(s) ==
    \/ Begin(s) \/ CreateStep(s) \/ DeadlockVictim(s)
    \/ StatHandle(s) \/ OpenHandle(s) \/ KvmetaGetHandle(s)
    \/ FindRow(s) \/ UpdateRow(s) \/ KvmetaPutHandle(s)
    \/ SlicePutHandle(s) \/ SliceDelScan(s) \/ SliceDelHandle(s) \/ SliceGetHandle(s)
    \/ FetchSliceIdRead(s) \/ FetchSliceIdWrite(s)
    \/ ReadDirScan(s) \/ ReadDirEnd(s) \/ Commit(s)

Next == \E s \in Sessions : Step(s)
Spec == Init /\ [][Next]_vars
\* A backend runs until it answers.
FairSpec == Spec /\ \A s \in Sessions : WF_vars(Step(s))

-----------------------------------------------------------------------------
\* What a create's items are told is what the transaction publishes: a row has
\* the inode id drawn for the item that is answered SUCCESS, and no other item's
\* (FalconCreateHandle's retry of a group, meta_handle.c:500-620).
CreateAnswers ==
    \A s \in Sessions : pc[s] = "shard" /\ group[s].shards = {} =>
        \A i \in DOMAIN answer[s] : LET k == InodeKey(job[s].items[i]) IN
            /\ answer[s][i] = "SUCCESS" <=> k \in DOMAIN own[s] /\ own[s][k].id = ids[s][i]
            /\ \A o \in Sessions \ {s} : \A j \in DOMAIN ids[o] : ids[s][i] # ids[o][j]

\* A directory that is read page by page while files come and go: no name comes
\* twice, a name that was there all the time comes, and one that never was does
\* not (the cursor of FalconReadDirHandle).
ReadDirExact ==
    \A s \in Sessions : pc[s] = "done" /\ Op(s) = "readdir" =>
        /\ IsInjective(stream[s].listed)
        /\ stable[s] \subseteq Range(stream[s].listed)
        /\ Range(stream[s].listed) \subseteq ever[s]

\* No committed update is lost under a later one that was read before it, and
\* no slice id is given out twice (the read and the write of
\* SearchAndUpdateInodeTableInfo and FalconFetchSliceIdHandle).
UpdatesKept ==
    /\ \A u \in updated : table[u[2]].row.id = u[3] => u[1] \in table[u[2]].row.by
    /\ \A a, b \in granted : a # b => a.to <= b.from \/ b.to <= a.from

\* Every request is answered, though batches wait for each other's rows.
BatchesEnd == \A s \in Sessions : <>(pc[s] \in {"done", "failed"})

-----------------------------------------------------------------------------
(* Why updates are kept and creates are answered by what they publish.      *)

Row == [id : Nat, isDir : BOOLEAN, nlink : Int, by : SUBSET Sessions]
AreRows(f) == DOMAIN f \subseteq Keys /\ \A k \in DOMAIN f : f[k] \in Row
InodeKeys == {"inode"} \X Names
InodeUpdates == UpdateOps \ {"kvdel"}
Creating == {"shard", "group", "insert"}
Working == {"item", "write", "delete"}
Steps == Creating \cup Working \cup {"start", "scan", "done", "failed"}

SessionTyped(s) ==
    /\ AreRows(own[s]) /\ seen[s] \in [row : Row, ver : Nat]
    /\ pc[s] \in Steps /\ turn[s] \in Nat \ {0}
    /\ ids[s] \in Seq(Nat) /\ cache[s] \in [left : Nat, next : Nat]
    /\ DOMAIN group[s] = DOMAIN NoGroup /\ group[s].shards \subseteq 1..Shards
    /\ group[s].list \in Seq(Nat) /\ group[s].at \in Nat \ {0} /\ group[s].left \in Nat
    /\ AreRows(group[s].saved)
RowsTyped ==
    /\ table \in [Keys -> [row : Row, ver : Nat]] /\ sequence \in Nat
    /\ DOMAIN own = Sessions /\ DOMAIN seen = Sessions /\ DOMAIN pc = Sessions
    /\ DOMAIN turn = Sessions /\ DOMAIN job = Sessions /\ DOMAIN answer = Sessions
    /\ DOMAIN ids = Sessions /\ DOMAIN cache = Sessions /\ DOMAIN group = Sessions

\* Where a session stands tells what it was asked, and whether it may have
\* written anything.
StepFits(s) ==
    /\ pc[s] = "start" => turn[s] = 1 /\ group[s] = NoGroup
    /\ pc[s] # "start" => job[s] \in Requests[s]
    /\ pc[s] \in Creating => Op(s) = "create"
    /\ pc[s] \in Working => Op(s) \notin {"create", "readdir"}
    /\ pc[s] = "write" => HasItem(s) /\ Op(s) \in UpdateOps \cup {"fetch"}
    /\ pc[s] = "delete" => Op(s) = "slicedel"
    /\ pc[s] \notin Creating \cup Working => DOMAIN own[s] = {}

\* The row an update makes of the committed one has all that this one has.
KeepsUpdates(new, old) == new = None \/ (new.id = old.id /\ new.id # 0 /\ old.by \subseteq new.by)

\* A row is being written by one transaction, and only by an operation of its
\* table; an update has it from the committed row, which stays as it is.
OneWriter(s) ==
    \A k \in DOMAIN own[s] :
        /\ \A o \in Sessions \ {s} : k \notin DOMAIN own[o]
        /\ \/ Op(s) \in {"kvput", "kvdel"} /\ k \in {"kv"} \X UserKeys /\ own[s][k].by = {}
           \/ Op(s) = "fetch" /\ k = SliceId /\ own[s][k].by = {}
           \/ Op(s) = "create" /\ k \in InodeKeys
           \/ Op(s) \in InodeUpdates /\ k \in InodeKeys /\ KeepsUpdates(own[s][k], table[k].row)

SeenKey(s) == IF Op(s) = "fetch" THEN SliceId ELSE ItemKey(s)

\* A row that was found and has its version still is the row the session sees.
SeenIsCurrent(s) ==
    pc[s] = "write" =>
        /\ seen[s].ver <= table[SeenKey(s)].ver
        /\ seen[s].ver = table[SeenKey(s)].ver => seen[s].row = Sees(s, SeenKey(s))
        /\ Op(s) \in InodeUpdates => seen[s].row.id # 0

\* The counter of slice ids that a session has written begins where the
\* committed one ends.
CounterGoesOn(s) ==
    Op(s) = "fetch" /\ pc[s] \in Working =>
        /\ turn[s] = 1 => DOMAIN own[s] = {}
        /\ turn[s] # 1 => /\ pc[s] = "item" /\ SliceId \in DOMAIN own[s]
                          /\ seen[s].row.id = table[SliceId].row.id
                          /\ seen[s].row.id <= own[s][SliceId].id
GrantedBelow ==
    \A a \in granted : /\ a.from \in Nat /\ a.to \in Nat /\ a.from <= a.to
                       /\ a.to <= table[SliceId].row.id

\* The inode ids of a backend's block are nobody else's, and no item has one
\* that another item has, or one that is yet to be drawn.
Cached(s) == cache[s].next..(cache[s].next + cache[s].left - 1)
IdsAreFresh ==
    /\ FirstId <= sequence
    /\ \A s \in Sessions :
         /\ Cached(s) \subseteq FirstId..(sequence - 1)
         /\ \A o \in Sessions \ {s} : Cached(s) \cap Cached(o) = {}
         /\ \A i \in DOMAIN ids[s] :
              /\ ids[s][i] \in FirstId..(sequence - 1)
              /\ \A o \in Sessions : ids[s][i] \notin Cached(o)
              /\ \A o \in Sessions : \A j \in DOMAIN ids[o] :
                   ids[s][i] = ids[o][j] => s = o /\ i = j
    /\ \A s \in Sessions : pc[s] = "start" => ids[s] = <<>>

\* An id that others can see is an old one or that of a create that is over.
Published(x) ==
    x < FirstId \/ \E o \in Sessions : pc[o] = "done" /\ \E i \in DOMAIN ids[o] : x = ids[o][i]
IdsArePublished ==
    /\ \A k \in InodeKeys : /\ Published(table[k].row.id)
                            /\ table[k].row = None \/ table[k].row.id # 0
    /\ \A u \in updated : u[2] \in InodeKeys /\ Published(u[3]) /\ u[3] # 0

\* The rows of a create are those of the items that are answered SUCCESS, but
\* for the items that are still to be done.
ItemsDone(s, rows, pending) ==
    /\ \A k \in DOMAIN rows : \E i \in DOMAIN ids[s] \ pending :
         k = InodeKey(job[s].items[i]) /\ rows[k] = File(ids[s][i]) /\ answer[s][i] = "SUCCESS"
    /\ \A i \in DOMAIN ids[s] \ pending : answer[s][i] = "SUCCESS" =>
         LET k == InodeKey(job[s].items[i]) IN k \in DOMAIN rows /\ rows[k].id = ids[s][i]

InShards(s) == {i \in DOMAIN ids[s] : ShardOf[job[s].items[i]] \in group[s].shards}
InList(s, from) == {group[s].list[j] : j \in from..Len(group[s].list)}

\* What the retry of a group relies on: the rows when the group began are those
\* of the items before the list, and no item is in the list twice or in a shard
\* to come.
CreateIsSound(s) ==
    pc[s] \in Creating =>
        /\ DOMAIN ids[s] = DOMAIN job[s].items
        /\ answer[s] \in [DOMAIN ids[s] -> {"SUCCESS", "FILE_EXISTS"}]
        /\ pc[s] = "shard" => group[s].list = <<>>
        /\ \A j \in 1..Len(group[s].list) :
             /\ group[s].list[j] \in DOMAIN ids[s] \ InShards(s)
             /\ \A l \in 1..Len(group[s].list) : group[s].list[j] = group[s].list[l] => j = l
        /\ pc[s] # "insert" => ItemsDone(s, own[s], InShards(s) \cup InList(s, 1))
        /\ pc[s] = "insert" =>
             /\ group[s].at <= Len(group[s].list) + 1
             /\ ItemsDone(s, group[s].saved, InShards(s) \cup InList(s, 1))
             /\ ItemsDone(s, own[s], InShards(s) \cup InList(s, group[s].at))
             /\ DOMAIN group[s].saved \subseteq DOMAIN own[s]

SessionInv(s) ==
    /\ SessionTyped(s) /\ StepFits(s) /\ OneWriter(s)
    /\ SeenIsCurrent(s) /\ CounterGoesOn(s) /\ CreateIsSound(s)
RowsInv ==
    /\ RowsTyped /\ GrantedBelow /\ IdsAreFresh /\ IdsArePublished /\ UpdatesKept
    /\ \A s \in Sessions : SessionInv(s)

(* Why a listing is exact: it has the names that the cursor has passed.      *)

Passed(r, n) ==
    \/ ShardOf[n] < r.shard
    \/ /\ ShardOf[n] = r.shard
       /\ \/ r.state = "SAME_ID_GREATER_NAME" /\ ~IndexLess(r.last, n)
          \/ r.state = "GREATER_ID" /\ Part[n] <= Part[r.last]

Cursors ==
    [shard : Nat, state : {"NEW_SHARD", "SAME_ID_GREATER_NAME", "GREATER_ID"}, last : Nat,
     count : 0 .. PageSize - 1, listed : Seq(Names), on : BOOLEAN]
CursorFits(r) ==
    /\ r.shard > 0 /\ (r.state # "NEW_SHARD" => r.last \in Names /\ ShardOf[r.last] = r.shard)
    /\ IsInjective(r.listed) /\ \A n \in Range(r.listed) : Passed(r, n)
ListsAll(r, names) == \A n \in names : Passed(r, n) => n \in Range(r.listed)
StreamIsSound(s) ==
    /\ stream[s] \in Cursors /\ stable[s] \subseteq Names
    /\ pc[s] = "start" => stream[s] = NoStream
    /\ pc[s] = "scan" =>
         /\ Op(s) = "readdir" /\ stream[s].on
         /\ CursorFits(stream[s]) /\ ListsAll(stream[s], stable[s])
         /\ stable[s] \subseteq Live(table) /\ Live(table) \subseteq ever[s]
         /\ Range(stream[s].listed) \subseteq ever[s]
ReadDirInv ==
    /\ DOMAIN stream = Sessions /\ DOMAIN stable = Sessions /\ DOMAIN ever = Sessions
    /\ (\A s \in Sessions : StreamIsSound(s)) /\ ReadDirExact
=============================================================================
