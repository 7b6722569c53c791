-------------------------------- MODULE Store --------------------------------
(***************************************************************************)
(* The file data of one store node: opening, loading, reading, writing,    *)
(* flushing, closing and deleting its cache files                          *)
(* (falcon_store/src/falcon_store/falcon_store.cpp), the disk cache that   *)
(* counts, pins and evicts them (disk_cache/disk_cache.cpp) and the file   *)
(* lock that loads take (util/file_lock.cpp).  A user is an open instance, *)
(* of the FUSE front end or of a remote node (brpc/brpc_main.cpp).         *)
(*                                                                         *)
(* A cache file is a generation of a path: an open descriptor keeps the    *)
(* generation it was opened with, a removal by name ends it.  Contents are *)
(* whole: what the object storage held, what a user wrote, or Partial, a   *)
(* file that is being loaded.                                              *)
(***************************************************************************)
EXTENDS Integers, Sequences, FiniteSets, FiniteSetsExt, SequencesExt

CONSTANTS
    Users, Inodes,
    Jobs,        \* [persist, job]: the setting, and what the users do, each
                 \* [u \in Users |-> [kind, inode, remote, nodeFail]]
    Stored,      \* inodes whose object is in the storage at first
    Cached,      \* inodes that are in the cache as well
    TotalCap,    \* blocks of the disk
    FreeMin,     \* blocks that an eviction leaves free (freeRatio)
    BgFreeMin,   \* blocks that the background cleanup leaves free (bgFreeRatio)
    Word,        \* the counters are unsigned: they count modulo this
    MaxFailures  \* failures of the storage

Nobody == "nobody"
Partial == "partial"
Empty == "empty"
Old == "old"
NoFile == [gen |-> 0, data |-> Empty, blocks |-> 0]
Requests == [kind: {"read", "small", "write", "create", "delete"}, inode: Inodes,
             remote: BOOLEAN, nodeFail: BOOLEAN]

ASSUME StoreAssumptions ==
    /\ TotalCap \in Nat /\ Word \in Nat /\ Word > 2 * TotalCap
    /\ Nobody \notin Users /\ Partial \notin Users /\ Cached \subseteq Stored /\ Stored \subseteq Inodes
    /\ IsFiniteSet(Users) /\ MaxFailures \in Nat
    /\ IsFiniteSet(Cached) /\ Cardinality(Cached) <= TotalCap
    /\ \A j \in Jobs : j.persist \in BOOLEAN /\ j.job \in [Users -> Requests]

VARIABLES
    persist,     \* persistToStorage: whether there is an object storage
    object,      \* object storage: the content of each path, or Empty
    disk,        \* the cache files: [gen, data, blocks]
    gens,        \* generations made so far
    cacheItems,  \* the disk cache's list: [inode, size, refs]
    usedCap, freeCap, reservedCap,
    allocMutex,  \* the user or task that is in PreAllocSpace, evicting
    lock,        \* the file lock of each inode: [held, waiting]
    pc, job, phase, fd, size, tries, ret,
    answer,      \* what a read was given
    wrote,       \* history: the last content written to a file: [gen, data]
    tasks,       \* loads in the background: [by, inode, gen, data, locked, at]
    failures

cache == <<cacheItems, usedCap, freeCap, reservedCap, allocMutex>>
user == <<job, phase, fd, size, tries>>
vars == <<persist, object, disk, gens, cache, lock, pc, user, ret, answer, wrote, tasks, failures>>

Init ==
    /\ \E j \in Jobs : job = j.job /\ persist = j.persist
    /\ object = [i \in Inodes |-> IF persist /\ i \in Stored THEN Old ELSE Empty]
    /\ disk = [i \in Inodes |-> IF i \in Cached THEN [gen |-> 1, data |-> Old, blocks |-> 1] ELSE NoFile]
    /\ gens = [i \in Inodes |-> 1]
    /\ cacheItems = SetToSeq({[inode |-> i, size |-> 1, refs |-> 0] : i \in Cached})
    /\ usedCap = Cardinality(Cached) /\ freeCap = TotalCap - Cardinality(Cached)
    /\ reservedCap = 0 /\ allocMutex = Nobody
    /\ lock = [i \in Inodes |-> [held |-> FALSE, waiting |-> 0]]
    /\ pc = [u \in Users |-> "start"]
    /\ phase = [u \in Users |-> "open"] /\ fd = [u \in Users |-> 0] /\ size = [u \in Users |-> 0]
    /\ tries = [u \in Users |-> 0] /\ ret = [u \in Users |-> "none"]
    /\ answer = [u \in Users |-> Empty]
    /\ wrote = [i \in Inodes |-> [gen |-> 0, data |-> Empty]]
    /\ tasks = {} /\ failures = 0

-----------------------------------------------------------------------------
(* The disk cache.                                                          *)

Wrap(n) == n % Word
I(u) == job[u].inode
Slot(i) == {n \in DOMAIN cacheItems : cacheItems[n].inode = i}
InCache(i) == Slot(i) # {}
Item(i) == cacheItems[CHOOSE n \in Slot(i) : TRUE]
SetItem(i, new) == [n \in DOMAIN cacheItems |-> IF n \in Slot(i) THEN new ELSE cacheItems[n]]
\* The list without the items of some inodes.
Without(names) ==
    LET Kept[n \in 0..Len(cacheItems)] ==
            IF n = 0 THEN << >>
            ELSE IF cacheItems[n].inode \in names THEN Kept[n - 1]
            ELSE Append(Kept[n - 1], cacheItems[n])
    IN Kept[Len(cacheItems)]
Blocks(d) == FoldSet(LAMBDA i, n : n + d[i].blocks, 0, Inodes)

Pin(i) == SetItem(i, [Item(i) EXCEPT !.refs = @ + 1])

Find(i, needPin) == cacheItems' = IF InCache(i) /\ needPin THEN Pin(i) ELSE cacheItems

Unpin(i) ==
    cacheItems' = IF InCache(i) /\ Item(i).refs > 0
                  THEN SetItem(i, [Item(i) EXCEPT !.refs = @ - 1]) ELSE cacheItems

\* An item that exists gets the new size, and no pin though one was asked for.
InsertAndUpdate(i, n, needPin) ==
    LET old == IF InCache(i) THEN Item(i).size ELSE 0 IN
    /\ cacheItems' = IF InCache(i) THEN SetItem(i, [Item(i) EXCEPT !.size = n])
                     ELSE Append(cacheItems, [inode |-> i, size |-> n,
                                              refs |-> IF needPin THEN 1 ELSE 0])
    /\ usedCap' = Wrap(usedCap + n - old) /\ freeCap' = Wrap(freeCap - (n - old))

\* Add n blocks, or grow the item to size n.
AddTo(i, n) ==
    /\ cacheItems' = SetItem(i, [Item(i) EXCEPT !.size = @ + n])
    /\ usedCap' = Wrap(usedCap + n) /\ freeCap' = Wrap(freeCap - n)
Update(i, n) ==
    IF n <= Item(i).size THEN UNCHANGED <<cacheItems, usedCap, freeCap>>
    ELSE AddTo(i, n - Item(i).size)

\* The file goes by its name, and the item only with the file.
Delete(i) ==
    IF InCache(i) /\ disk[i].gen # 0
    THEN /\ disk' = [disk EXCEPT ![i] = NoFile] /\ cacheItems' = Without({i})
         /\ usedCap' = Wrap(usedCap - Item(i).size) /\ freeCap' = Wrap(freeCap + Item(i).size)
    ELSE UNCHANGED <<disk, cacheItems, usedCap, freeCap>>
DeleteOldCacheWithNoPin(i) ==
    IF InCache(i) /\ Item(i).refs = 0 THEN Delete(i)
    ELSE UNCHANGED <<disk, cacheItems, usedCap, freeCap>>

GetCurFreeRatio == TotalCap - Blocks(disk)

\* The items that go, in the order of the list, until toFree blocks are free: at
\* least one that is not pinned is tried, and it goes when it has its file.
Victims(toFree) ==
    LET Loop[n \in 0..Len(cacheItems)] ==
            IF n = 0 THEN [gone |-> {}, freed |-> 0, over |-> FALSE]
            ELSE LET p == Loop[n - 1]
                     c == cacheItems[n] IN
                 IF c.refs > 0 \/ p.over THEN p
                 ELSE IF disk[c.inode].gen = 0
                 THEN [gone |-> p.gone, freed |-> p.freed, over |-> p.freed >= toFree]
                 ELSE [gone |-> p.gone \cup {n}, freed |-> p.freed + c.size,
                       over |-> p.freed + c.size >= toFree]
    IN Loop[Len(cacheItems)]

Least(a, b) == IF a < b THEN a ELSE b
EvictItems(toFree) ==
    LET v == Victims(toFree)
        names == {cacheItems[n].inode : n \in v.gone} IN
    /\ cacheItems' = Without(names)
    /\ disk' = [i \in Inodes |-> IF i \in names THEN NoFile ELSE disk[i]]
    /\ usedCap' = Wrap(usedCap - v.freed) /\ freeCap' = Wrap(GetCurFreeRatio + v.freed)

CleanupForEvict(n) ==
    LET left == GetCurFreeRatio - n - reservedCap IN
    EvictItems(IF left < FreeMin THEN Least(FreeMin - left, usedCap) ELSE 0)

\* CheckFreeSpace, in its own thread.
CheckFreeSpace ==
    /\ GetCurFreeRatio < BgFreeMin
    /\ Victims(1).gone # {}
    /\ EvictItems(Least(BgFreeMin - GetCurFreeRatio, usedCap))
    /\ UNCHANGED <<persist, object, gens, reservedCap, allocMutex, lock, pc, user, ret, answer, wrote, tasks, failures>>

\* PreAllocSpace of n blocks by u: it goes on at yes or at no.  Its mutex is
\* held while it evicts, three times at most.
PreAllocSpace(u, n, yes, no) ==
    /\ allocMutex \in {u, Nobody}
    /\ \/ /\ reservedCap + n < freeCap
          /\ reservedCap' = reservedCap + n /\ allocMutex' = Nobody
          /\ tries' = [tries EXCEPT ![u] = 0] /\ pc' = [pc EXCEPT ![u] = yes]
          /\ UNCHANGED <<cacheItems, usedCap, freeCap, disk>>
       \/ /\ reservedCap + n >= freeCap /\ tries[u] < 3
          /\ CleanupForEvict(n) /\ allocMutex' = u
          /\ tries' = [tries EXCEPT ![u] = @ + 1] /\ UNCHANGED <<reservedCap, pc>>
       \/ /\ reservedCap + n >= freeCap /\ tries[u] = 3
          /\ allocMutex' = Nobody /\ tries' = [tries EXCEPT ![u] = 0]
          /\ pc' = [pc EXCEPT ![u] = no]
          /\ UNCHANGED <<cacheItems, usedCap, freeCap, reservedCap, disk>>

FreePreAllocSpace(n) == allocMutex = Nobody /\ reservedCap' = reservedCap - n

-----------------------------------------------------------------------------
(* The file lock, of which the store uses the exclusive mode only.          *)

TestLocked(i) == lock[i].held \/ lock[i].waiting > 0
ReleaseFileLock(i) == lock' = [lock EXCEPT ![i].held = FALSE]

Goto(u, to) == pc' = [pc EXCEPT ![u] = to]
Kind(u) == job[u].kind
Writes(u) == Kind(u) \in {"write", "create"}
\* A load is waited for when its opener may write.
IsSync(u) == Writes(u)

End(u, code) == Goto(u, "done") /\ ret' = [ret EXCEPT ![u] = code]

-----------------------------------------------------------------------------
(* Opening.                                                                 *)

\* A request comes: ReadSmallFiles of a small file, OpenFile of another, or
\* DeleteFiles.  After a failure of the file's node the old copy is dropped.
Begin(u) ==
    /\ pc[u] = "start"
    /\ phase' = [phase EXCEPT ![u] = IF Kind(u) = "small" THEN "small" ELSE "open"]
    /\ size' = [size EXCEPT ![u] = IF Kind(u) = "create" THEN 0 ELSE 1]
    /\ IF job[u].nodeFail THEN DeleteOldCacheWithNoPin(I(u))
       ELSE UNCHANGED <<disk, cacheItems, usedCap, freeCap>>
    /\ Goto(u, IF Kind(u) = "delete" THEN "delete" ELSE "find")
    /\ UNCHANGED <<persist, object, gens, reservedCap, allocMutex, lock, job, fd, tries, ret, answer, wrote, tasks, failures>>

\* The look into the disk cache, by which OpenFile and ReadSmallFiles go on.
MissGoesTo(u) ==
    CASE Kind(u) = "create" -> "make"
      [] ~persist -> "missing"
      [] phase[u] = "small" /\ ~job[u].remote -> "fetchsmall"
      [] OTHER -> "load"

OpenFind(u) ==
    /\ pc[u] = "find"
    /\ Find(I(u), TRUE)
    /\ Goto(u, IF InCache(I(u)) THEN "hit" ELSE MissGoesTo(u))
    /\ UNCHANGED <<persist, object, disk, gens, usedCap, freeCap, reservedCap, allocMutex, lock, user, ret, answer, wrote, tasks, failures>>

OpenMissing(u) ==
    /\ pc[u] = "missing" /\ End(u, "ENOENT")
    /\ UNCHANGED <<persist, object, disk, gens, cache, lock, user, answer, wrote, tasks, failures>>

\* The hit of OpenFile: the cache file is opened, or is not there any more.
OpenHit(u) ==
    /\ pc[u] = "hit" /\ phase[u] = "open"
    /\ IF disk[I(u)].gen = 0 /\ Kind(u) # "create"
       THEN /\ Unpin(I(u)) /\ End(u, "ENOENT") /\ UNCHANGED <<fd, disk, gens>>
       ELSE /\ fd' = [fd EXCEPT ![u] = IF disk[I(u)].gen = 0 THEN gens[I(u)] + 1 ELSE disk[I(u)].gen]
            /\ disk' = IF disk[I(u)].gen # 0 THEN disk
                       ELSE [disk EXCEPT ![I(u)] = [gen |-> gens[I(u)] + 1, data |-> Empty, blocks |-> 0]]
            /\ gens' = [gens EXCEPT ![I(u)] = IF disk[I(u)].gen = 0 THEN @ + 1 ELSE @]
            /\ Goto(u, "io") /\ UNCHANGED <<cacheItems, ret>>
    /\ UNCHANGED <<persist, object, usedCap, freeCap, reservedCap, allocMutex, lock, job, phase, size, tries, answer, wrote, tasks, failures>>

\* The hit of ReadSmallFiles and ReadSmallFilesForBrpc: the file is read.
SmallHit(u) ==
    /\ pc[u] = "hit" /\ phase[u] = "small"
    /\ answer' = [answer EXCEPT ![u] = IF disk[I(u)].gen = 0 THEN @ ELSE disk[I(u)].data]
    /\ Unpin(I(u))
    /\ End(u, IF disk[I(u)].gen = 0 THEN "ENOENT" ELSE "ok")
    /\ UNCHANGED <<persist, object, disk, gens, usedCap, freeCap, reservedCap, allocMutex, lock, user, wrote, tasks, failures>>

-----------------------------------------------------------------------------
(* Loading from the object storage: DownLoadFromStorage and, for a remote   *)
(* small file, DownLoadFromStorageForBrpc.                                  *)

\* Where the caller goes on when the load has returned without an error.
AfterLoad(u) ==
    /\ UNCHANGED phase
    /\ IF phase[u] = "small" THEN End(u, "ENOENT")
       ELSE Goto(u, IF IsSync(u) THEN "make" ELSE "io") /\ UNCHANGED ret

\* innerGetFileLock: a load that is not waited for gives up when it is taken.
InnerGetFileLock(u) ==
    /\ pc[u] = "load"
    /\ \/ /\ ~lock[I(u)].held
          /\ lock' = [lock EXCEPT ![I(u)].held = TRUE]
          /\ Goto(u, "loadfind") /\ UNCHANGED <<phase, ret>>
       \/ /\ lock[I(u)].held /\ IsSync(u)
          /\ lock' = [lock EXCEPT ![I(u)].waiting = @ + 1]
          /\ Goto(u, "wait") /\ UNCHANGED <<phase, ret>>
       \/ lock[I(u)].held /\ ~IsSync(u) /\ AfterLoad(u) /\ UNCHANGED lock
    /\ UNCHANGED <<persist, object, disk, gens, cache, job, fd, size, tries, answer, wrote, tasks, failures>>

\* Mutant: one that is woken takes the lock without a second look.
WaitGetFileLockOnce(u) ==
    /\ pc[u] = "wait"
    /\ lock' = [lock EXCEPT ![I(u)] = [held |-> TRUE, waiting |-> @.waiting - 1]]
    /\ Goto(u, "loadfind")
    /\ UNCHANGED <<persist, object, disk, gens, cache, user, ret, answer, wrote, tasks, failures>>

WaitGetFileLock(u) ==
    /\ pc[u] = "wait" /\ ~lock[I(u)].held
    /\ lock' = [lock EXCEPT ![I(u)] = [held |-> TRUE, waiting |-> @.waiting - 1]]
    /\ Goto(u, "loadfind")
    /\ UNCHANGED <<persist, object, disk, gens, cache, user, ret, answer, wrote, tasks, failures>>

LoadFind(u) ==
    /\ pc[u] = "loadfind"
    /\ Find(I(u), IsSync(u))
    /\ IF InCache(I(u)) THEN AfterLoad(u) /\ ReleaseFileLock(I(u))
       ELSE Goto(u, "loadalloc") /\ UNCHANGED <<phase, ret, lock>>
    /\ UNCHANGED <<persist, object, disk, gens, usedCap, freeCap, reservedCap, allocMutex, job, fd, size, tries, answer, wrote, tasks, failures>>

LoadAlloc(u) ==
    /\ pc[u] = "loadalloc" /\ PreAllocSpace(u, 1, "loadopen", "nospace")
    /\ UNCHANGED <<persist, object, gens, lock, job, phase, fd, size, ret, answer, wrote, tasks, failures>>

LoadNoSpace(u) ==
    /\ pc[u] = "nospace" /\ ReleaseFileLock(I(u)) /\ End(u, "ENOSPC")
    /\ UNCHANGED <<persist, object, disk, gens, cache, user, answer, wrote, tasks, failures>>

\* open(O_WRONLY | O_CREAT) of the cache file: the generation it has then.
Opened(i) == IF disk[i].gen # 0 THEN disk[i].gen ELSE gens[i] + 1
OpenCreate(i, data) ==
    /\ disk' = IF disk[i].gen # 0 THEN disk
               ELSE [disk EXCEPT ![i] = [gen |-> gens[i] + 1, data |-> data, blocks |-> 0]]
    /\ gens' = [gens EXCEPT ![i] = IF disk[i].gen # 0 THEN @ ELSE @ + 1]

Task(u, data, locked) ==
    [by |-> u, inode |-> I(u), gen |-> Opened(I(u)), data |-> data, locked |-> locked, at |-> "fetch"]

\* A load that is not waited for goes to the thread pool.  The task copies what
\* it uses, and the lock is not among it: the lock is free when this returns.
LoadOpen(u) ==
    /\ pc[u] = "loadopen" /\ OpenCreate(I(u), Partial)
    /\ IF IsSync(u)
       THEN /\ fd' = [fd EXCEPT ![u] = Opened(I(u))] /\ Goto(u, "loadfetch")
            /\ UNCHANGED <<phase, ret, tasks, lock>>
       ELSE /\ tasks' = tasks \cup {Task(u, Partial, FALSE)}
            /\ ReleaseFileLock(I(u)) /\ AfterLoad(u) /\ UNCHANGED fd
    /\ UNCHANGED <<persist, object, cache, job, size, tries, answer, wrote, failures>>

\* Writing whole contents through a descriptor of generation g.
WriteGen(i, g, data, n) ==
    disk' = IF disk[i].gen # g THEN disk
            ELSE [disk EXCEPT ![i].data = data, ![i].blocks = IF n > @ THEN n ELSE @]

\* ReadObject into the file; a failure removes the file by its name.
Fetched(i, g) == object[i] # Empty /\ WriteGen(i, g, object[i], 1) /\ UNCHANGED failures
NotFetched(i) ==
    /\ \/ object[i] = Empty /\ UNCHANGED failures
       \/ failures < MaxFailures /\ failures' = failures + 1
    /\ disk' = [disk EXCEPT ![i] = NoFile]

LoadFetch(u) ==
    /\ pc[u] = "loadfetch"
    /\ \/ Fetched(I(u), fd[u]) /\ Goto(u, "loadinsert") /\ UNCHANGED ret
       \/ NotFetched(I(u)) /\ Goto(u, "loadfree") /\ ret' = [ret EXCEPT ![u] = "EIO"]
    /\ answer' = [answer EXCEPT ![u] = IF pc'[u] = "loadinsert" THEN object[I(u)] ELSE @]
    /\ UNCHANGED <<persist, object, gens, cache, lock, user, wrote, tasks>>

LoadInsert(u) ==
    /\ pc[u] = "loadinsert" /\ InsertAndUpdate(I(u), 1, TRUE) /\ Goto(u, "loadfree")
    /\ UNCHANGED <<persist, object, disk, gens, reservedCap, allocMutex, lock, user, ret, answer, wrote, tasks, failures>>

\* Mutant: a load that has failed keeps the space it had reserved.
LoadFreeUnlessFailed(u) ==
    /\ pc[u] = "loadfree" /\ ReleaseFileLock(I(u))
    /\ fd' = [fd EXCEPT ![u] = 0]
    /\ IF ret[u] = "EIO" THEN Goto(u, "done") /\ UNCHANGED <<phase, ret, reservedCap>>
       ELSE AfterLoad(u) /\ FreePreAllocSpace(1)
    /\ UNCHANGED <<persist, object, disk, gens, cacheItems, usedCap, freeCap, allocMutex, job, size, tries, answer, wrote, tasks, failures>>

LoadFree(u) ==
    /\ pc[u] = "loadfree" /\ FreePreAllocSpace(1) /\ ReleaseFileLock(I(u))
    /\ fd' = [fd EXCEPT ![u] = 0]
    /\ IF ret[u] = "EIO" THEN Goto(u, "done") /\ UNCHANGED <<phase, ret>> ELSE AfterLoad(u)
    /\ UNCHANGED <<persist, object, disk, gens, cacheItems, usedCap, freeCap, allocMutex, job, size, tries, answer, wrote, tasks, failures>>

-----------------------------------------------------------------------------
(* A small file that is not in the cache is read from the storage, and its  *)
(* content written to the cache in the background, under the lock.          *)

FetchSmall(u) ==
    /\ pc[u] = "fetchsmall"
    /\ \/ /\ object[I(u)] # Empty
          /\ answer' = [answer EXCEPT ![u] = object[I(u)]]
          /\ Goto(u, "smalllock") /\ UNCHANGED <<failures, ret>>
       \/ /\ \/ object[I(u)] = Empty /\ UNCHANGED failures
             \/ failures < MaxFailures /\ failures' = failures + 1
          /\ End(u, "EIO") /\ UNCHANGED answer
    /\ UNCHANGED <<persist, object, disk, gens, cache, lock, user, wrote, tasks>>

\* WriteToFileAsync.
SmallLock(u) ==
    /\ pc[u] = "smalllock"
    /\ IF lock[I(u)].held THEN End(u, "ok") /\ UNCHANGED lock
       ELSE lock' = [lock EXCEPT ![I(u)].held = TRUE] /\ Goto(u, "smallfind") /\ UNCHANGED ret
    /\ UNCHANGED <<persist, object, disk, gens, cache, user, answer, wrote, tasks, failures>>

SmallFind(u) ==
    /\ pc[u] = "smallfind"
    /\ IF InCache(I(u)) THEN End(u, "ok") /\ ReleaseFileLock(I(u))
       ELSE Goto(u, "smallalloc") /\ UNCHANGED <<lock, ret>>
    /\ UNCHANGED <<persist, object, disk, gens, cache, user, answer, wrote, tasks, failures>>

SmallAlloc(u) ==
    /\ pc[u] = "smallalloc" /\ PreAllocSpace(u, 1, "smallopen", "nospace")
    /\ UNCHANGED <<persist, object, gens, lock, job, phase, fd, size, ret, answer, wrote, tasks, failures>>

SmallOpen(u) ==
    /\ pc[u] = "smallopen" /\ OpenCreate(I(u), Partial)
    /\ tasks' = tasks \cup {Task(u, answer[u], TRUE)}
    /\ End(u, "ok")
    /\ UNCHANGED <<persist, object, cache, lock, user, answer, wrote, failures>>

-----------------------------------------------------------------------------
(* The thread pool.                                                         *)

Move(t, to) == tasks' = (tasks \ {t}) \cup {[t EXCEPT !.at = to]}

TaskFetch(t) ==
    /\ t.at = "fetch"
    /\ \/ ~t.locked /\ Fetched(t.inode, t.gen) /\ Move(t, "insert")
       \/ ~t.locked /\ NotFetched(t.inode) /\ Move(t, "free")
       \/ t.locked /\ WriteGen(t.inode, t.gen, t.data, 1) /\ Move(t, "insert") /\ UNCHANGED failures
    /\ UNCHANGED <<persist, object, gens, cache, lock, pc, user, ret, answer, wrote>>

\* Mutant: the item is shown before the file is there.
TaskInsertAtOnce(t) ==
    /\ t.at \in {"fetch", "insert"} /\ InsertAndUpdate(t.inode, 1, FALSE)
    /\ Move(t, IF t.at = "fetch" THEN "fetch" ELSE "free")
    /\ UNCHANGED <<persist, object, disk, gens, reservedCap, allocMutex, lock, pc, user, ret, answer, wrote, failures>>

TaskInsert(t) ==
    /\ t.at = "insert" /\ InsertAndUpdate(t.inode, 1, FALSE) /\ Move(t, "free")
    /\ UNCHANGED <<persist, object, disk, gens, reservedCap, allocMutex, lock, pc, user, ret, answer, wrote, failures>>

\* Mutant: the task's copy of the lock is never destroyed.
TaskFreeLocked(t) ==
    /\ t.at = "free" /\ FreePreAllocSpace(1) /\ tasks' = tasks \ {t}
    /\ UNCHANGED <<persist, object, disk, gens, cacheItems, usedCap, freeCap, allocMutex, lock, pc, user, ret, answer, wrote, failures>>

TaskFree(t) ==
    /\ t.at = "free" /\ FreePreAllocSpace(1) /\ tasks' = tasks \ {t}
    /\ IF t.locked THEN ReleaseFileLock(t.inode) ELSE UNCHANGED lock
    /\ UNCHANGED <<persist, object, disk, gens, cacheItems, usedCap, freeCap, allocMutex, pc, user, ret, answer, wrote, failures>>

-----------------------------------------------------------------------------
(* Using the file.                                                          *)

Make(u) ==
    /\ pc[u] = "make" /\ OpenCreate(I(u), Empty)
    /\ fd' = [fd EXCEPT ![u] = Opened(I(u))]
    /\ Goto(u, IF Kind(u) = "create" THEN "insertnew" ELSE "io")
    /\ UNCHANGED <<persist, object, cache, lock, job, phase, size, tries, ret, answer, wrote, tasks, failures>>

InsertNew(u) ==
    /\ pc[u] = "insertnew" /\ InsertAndUpdate(I(u), 0, TRUE) /\ Goto(u, "io")
    /\ UNCHANGED <<persist, object, disk, gens, reservedCap, allocMutex, lock, user, ret, answer, wrote, tasks, failures>>

\* ReadFileLR: the cache file, unless it may be loading, or the storage.
ReadFileLR(u) ==
    /\ pc[u] = "io" /\ ~Writes(u)
    /\ LET useFile == fd[u] # 0 /\ ~TestLocked(I(u)) IN
       \/ /\ useFile /\ disk[I(u)].gen = fd[u]
          /\ answer' = [answer EXCEPT ![u] = disk[I(u)].data] /\ Goto(u, "flush") /\ UNCHANGED <<ret, failures>>
       \/ useFile /\ disk[I(u)].gen # fd[u] /\ Goto(u, "flush") /\ UNCHANGED <<answer, ret, failures>>
       \/ /\ ~useFile /\ persist /\ ~job[u].remote /\ object[I(u)] # Empty
          /\ answer' = [answer EXCEPT ![u] = object[I(u)]] /\ Goto(u, "flush") /\ UNCHANGED <<ret, failures>>
       \/ /\ ~useFile /\ (~persist \/ job[u].remote \/ object[I(u)] = Empty)
          /\ ret' = [ret EXCEPT ![u] = "EIO"] /\ Goto(u, "flush") /\ UNCHANGED <<answer, failures>>
    /\ UNCHANGED <<persist, object, disk, gens, cache, lock, user, wrote, tasks>>

\* A write of one more block: PersistToFile of the write stream, or
\* WriteLocalFileForBrpc.
WriteAlloc(u) ==
    /\ pc[u] = "io" /\ Writes(u) /\ PreAllocSpace(u, 1, "pwrite", "writefail")
    /\ UNCHANGED <<persist, object, gens, lock, job, phase, fd, size, ret, answer, wrote, tasks, failures>>

Pwrite(u) ==
    /\ pc[u] = "pwrite" /\ WriteGen(I(u), fd[u], u, size[u] + 1)
    /\ wrote' = [wrote EXCEPT ![I(u)] = IF disk[I(u)].gen = fd[u] THEN [gen |-> fd[u], data |-> u] ELSE @]
    /\ Goto(u, "add")
    /\ UNCHANGED <<persist, object, gens, cache, lock, user, ret, answer, tasks, failures>>

PersistToFileAdd(u) ==
    /\ pc[u] = "add" /\ ~job[u].remote
    /\ IF InCache(I(u)) THEN AddTo(I(u), 1) /\ UNCHANGED ret
       ELSE ret' = [ret EXCEPT ![u] = "ENOENT"] /\ UNCHANGED <<cacheItems, usedCap, freeCap>>
    /\ size' = [size EXCEPT ![u] = IF InCache(I(u)) THEN @ + 1 ELSE @]
    /\ Goto(u, "writefree")
    /\ UNCHANGED <<persist, object, disk, gens, reservedCap, allocMutex, lock, job, phase, fd, tries, answer, wrote, tasks, failures>>

WriteLocalFileForBrpcUpdate(u) ==
    /\ pc[u] = "add" /\ job[u].remote
    /\ IF InCache(I(u)) THEN Update(I(u), size[u] + 1) /\ UNCHANGED ret
       ELSE ret' = [ret EXCEPT ![u] = "ENOENT"] /\ UNCHANGED <<cacheItems, usedCap, freeCap>>
    /\ size' = [size EXCEPT ![u] = @ + 1]
    /\ Goto(u, "writefree")
    /\ UNCHANGED <<persist, object, disk, gens, reservedCap, allocMutex, lock, job, phase, fd, tries, answer, wrote, tasks, failures>>

WriteFree(u) ==
    /\ pc[u] = "writefree" /\ FreePreAllocSpace(1) /\ Goto(u, "flush")
    /\ UNCHANGED <<persist, object, disk, gens, cacheItems, usedCap, freeCap, allocMutex, lock, user, ret, answer, wrote, tasks, failures>>

WriteFail(u) ==
    /\ pc[u] = "writefail" /\ Goto(u, "flush") /\ ret' = [ret EXCEPT ![u] = "ENOSPC"]
    /\ UNCHANGED <<persist, object, disk, gens, cache, lock, user, answer, wrote, tasks, failures>>

\* CloseTmpFiles without a descriptor does nothing; a flush tells the disk cache
\* the size, and stores a file that was written.
FlushSize(u) ==
    /\ pc[u] = "flush"
    /\ IF fd[u] = 0 THEN /\ End(u, IF ret[u] = "none" THEN "ok" ELSE ret[u])
                         /\ UNCHANGED <<cacheItems, usedCap, freeCap>>
       ELSE /\ InsertAndUpdate(I(u), size[u], FALSE) /\ UNCHANGED ret
            /\ Goto(u, IF persist /\ Writes(u) /\ ret[u] = "none" THEN "put" ELSE "close")
    /\ UNCHANGED <<persist, object, disk, gens, reservedCap, allocMutex, lock, user, answer, wrote, tasks, failures>>

\* FlushToStorage puts what the name has now.
FlushToStorage(u) ==
    /\ pc[u] = "put" /\ Goto(u, "close")
    /\ \/ /\ disk[I(u)].gen # 0 /\ object' = [object EXCEPT ![I(u)] = disk[I(u)].data]
          /\ UNCHANGED <<ret, failures>>
       \/ /\ disk[I(u)].gen = 0 /\ ret' = [ret EXCEPT ![u] = "EIO"] /\ UNCHANGED <<object, failures>>
       \/ /\ failures < MaxFailures /\ failures' = failures + 1
          /\ ret' = [ret EXCEPT ![u] = "EIO"] /\ UNCHANGED object
    /\ UNCHANGED <<persist, disk, gens, cache, lock, user, answer, wrote, tasks>>

CloseFile(u) ==
    /\ pc[u] = "close" /\ Unpin(I(u)) /\ fd' = [fd EXCEPT ![u] = 0]
    /\ End(u, IF ret[u] = "none" THEN "ok" ELSE ret[u])
    /\ UNCHANGED <<persist, object, disk, gens, usedCap, freeCap, reservedCap, allocMutex, lock, job, phase, size, tries, answer, wrote, tasks, failures>>

\* DeleteFiles: the cache file, pinned or not, and the object.
DeleteFiles(u) ==
    /\ pc[u] = "delete" /\ Delete(I(u))
    /\ IF (InCache(I(u)) /\ disk[I(u)].gen = 0) \/ (~InCache(I(u)) /\ ~persist)
       THEN End(u, "ENOENT") ELSE Goto(u, "delobject") /\ UNCHANGED ret
    /\ UNCHANGED <<persist, object, gens, reservedCap, allocMutex, lock, user, answer, wrote, tasks, failures>>

DeleteObject(u) ==
    /\ pc[u] = "delobject" /\ End(u, "ok")
    /\ object' = IF persist THEN [object EXCEPT ![I(u)] = Empty] ELSE object
    /\ UNCHANGED <<persist, disk, gens, cache, lock, user, answer, wrote, tasks, failures>>

-----------------------------------------------------------------------------
Opening(u) ==
    \/ Begin(u) \/ OpenFind(u) \/ OpenMissing(u) \/ OpenHit(u) \/ SmallHit(u)
    \/ Make(u) \/ InsertNew(u)
Loading(u) ==
    \/ InnerGetFileLock(u) \/ WaitGetFileLock(u) \/ LoadFind(u) \/ LoadAlloc(u)
    \/ LoadNoSpace(u) \/ LoadOpen(u) \/ LoadFetch(u) \/ LoadInsert(u) \/ LoadFree(u)
    \/ FetchSmall(u) \/ SmallLock(u) \/ SmallFind(u) \/ SmallAlloc(u) \/ SmallOpen(u)
Using(u) ==
    \/ ReadFileLR(u) \/ WriteAlloc(u) \/ Pwrite(u) \/ PersistToFileAdd(u)
    \/ WriteLocalFileForBrpcUpdate(u) \/ WriteFree(u) \/ WriteFail(u)
    \/ FlushSize(u) \/ FlushToStorage(u) \/ CloseFile(u) \/ DeleteFiles(u) \/ DeleteObject(u)
UserStep(u) == Opening(u) \/ Loading(u) \/ Using(u)
PoolStep == \E t \in tasks : TaskFetch(t) \/ TaskInsert(t) \/ TaskFree(t)

Next == (\E u \in Users : UserStep(u)) \/ PoolStep \/ CheckFreeSpace
Spec == Init /\ [][Next]_vars
\* Threads of users and of the pool run; nothing is assumed of the cleanup.
FairSpec == Spec /\ (\A u \in Users : WF_vars(UserStep(u))) /\ WF_vars(PoolStep)

-----------------------------------------------------------------------------
Reserving == {"loadopen", "loadfetch", "loadinsert", "loadfree", "smallopen", "pwrite",
              "add", "writefree"}

Owning == {"loadfind", "loadalloc", "nospace", "loadopen", "loadfetch", "loadinsert",
           "loadfree", "smallfind", "smallalloc", "smallopen"}
OwnerUsers(i) == {u \in Users : I(u) = i /\ pc[u] \in Owning}
OwnerTasks(i) == {t \in tasks : t.inode = i /\ t.locked}
Waiters(i) == {u \in Users : I(u) = i /\ pc[u] = "wait"}
Reservers == {u \in Users : pc[u] \in Reserving}

\* What is reserved is what somebody still has reserved (PreAllocSpace and
\* FreePreAllocSpace around every early return).
ReservedAccounted == reservedCap = Cardinality(Reservers) + Cardinality(tasks)

\* The sum of the sizes of a list of items.
Sizes(items) ==
    LET Sum[n \in 0..Len(items)] == IF n = 0 THEN 0 ELSE Sum[n - 1] + items[n].size
    IN Sum[Len(items)]

\* The disk cache's counters after any error path of a load or a write: what is
\* used is the sum of the items, in the width of the counter, and nothing stays
\* reserved for nobody.
SpaceAccounted ==
    /\ usedCap = Wrap(Sizes(cacheItems))
    /\ ReservedAccounted

\* One holder at a time of a file's lock, which is free when nobody is loading,
\* and a count of those that wait for it (file_lock.cpp).
LockHasOwner ==
    \A i \in Inodes :
        /\ Cardinality(OwnerUsers(i)) + Cardinality(OwnerTasks(i))
              = IF lock[i].held THEN 1 ELSE 0
        /\ lock[i].waiting = Cardinality(Waiters(i))

\* The file was removed from the cache and made again.
FirstGen(i) == IF i \in Cached THEN 1 ELSE 2
Reloaded(i) == gens[i] > FirstGen(i)
\* Somebody opens the file with O_CREAT, or as empty: without a load.
Made(i) == \E u \in Users : I(u) = i /\ Kind(u) = "create"

\* Of the first cache file of a path nobody is given a part, however many read,
\* load, write, evict and delete it, unless the file is also opened without a load:
\* items are shown after the file is whole, and a locked file is read from the storage.
FirstFileWhole == \A u \in Users : answer[u] = Partial => Reloaded(I(u)) \/ Made(I(u))

\* A reader is never given a file that is still being loaded.  For the first cache
\* file of a path this is FirstFileWhole (nobody in the run opens a file without a
\* load that another one loads).  For a later one
\* it needs that nobody deletes the file while it is open (a load or a flush of
\* the old name then meets the new file), and that it has three users at most:
\* with four, a background load, which has lost its lock, may show its item
\* while another load fills the file that came after its own.
ReadsWhole ==
    \A u \in Users : answer[u] = Partial =>
        /\ Reloaded(I(u))
        /\ \/ \E v \in Users : I(v) = I(u) /\ Kind(v) = "delete"
           \/ Cardinality({v \in Users : I(v) = I(u)}) > 3

\* Why space and locks are accounted for (StoreProofs).  The types, but for the
\* list of items and the counters of what it uses.
Steps == Owning \cup Reserving \cup
    {"start", "find", "hit", "missing", "load", "wait", "fetchsmall", "smalllock", "make",
     "insertnew", "io", "writefail", "flush", "put", "close", "delete", "delobject", "done"}
Contents == Users \cup {Empty, Old, Partial}
Codes == {"none", "ok", "ENOENT", "EIO", "ENOSPC"}
TaskType == [by: Users, inode: Inodes, gen: Nat, data: Contents, locked: BOOLEAN,
             at: {"fetch", "insert", "free"}]

FilesOK ==
    /\ persist \in BOOLEAN /\ object \in [Inodes -> Contents] /\ gens \in [Inodes -> Nat]
    /\ disk \in [Inodes -> [gen: Nat, data: Contents, blocks: Nat]]
    /\ phase \in [Users -> {"open", "small"}] /\ fd \in [Users -> Nat] /\ size \in [Users -> Nat]
    /\ ret \in [Users -> Codes] /\ answer \in [Users -> Contents]
    /\ wrote \in [Inodes -> [gen: Nat, data: Contents]] /\ failures \in 0 .. MaxFailures
    /\ tries \in [Users -> 0 .. 3] /\ allocMutex \in Users \cup {Nobody}
ControlOK ==
    /\ job \in [Users -> Requests] /\ pc \in [Users -> Steps]
    /\ lock \in [Inodes -> [held: BOOLEAN, waiting: Nat]]
    /\ tasks \in SUBSET TaskType /\ reservedCap \in Nat
TypeOK == FilesOK /\ ControlOK

\* A user that left a load to the thread pool: it has one task, asks for no more
\* space and takes no lock.
Detached(u) ==
    \/ pc[u] = "done"
    \/ pc[u] \in {"io", "flush", "put", "close"} /\ ~ Writes(u)
TasksDetached ==
    /\ IsFiniteSet(tasks)
    /\ \A t \in tasks : t.inode = I(t.by) /\ Detached(t.by)
    /\ \A s, t \in tasks : s.by = t.by => s = t

\* A lock has one owner, a user or a task, as long as it is held.
OneOwner(i) ==
    /\ lock[i].held <=> OwnerUsers(i) # {} \/ OwnerTasks(i) # {}
    /\ \A u, v \in OwnerUsers(i) : u = v
    /\ \A s, t \in OwnerTasks(i) : s = t
    /\ OwnerUsers(i) = {} \/ OwnerTasks(i) = {}

StoreInv ==
    /\ TypeOK /\ TasksDetached /\ ReservedAccounted
    /\ \A i \in Inodes : OneOwner(i) /\ lock[i].waiting = Cardinality(Waiters(i))

\* Why the used space is accounted for: a file has one item at most, so that a
\* size that changes and an item that goes are counted once.
ItemType == [inode: Inodes, size: Nat, refs: Nat]
OneItem(items) == \A m, n \in DOMAIN items : items[m].inode = items[n].inode => m = n
ListOK ==
    cacheItems \in Seq(ItemType) /\ OneItem(cacheItems) /\ usedCap = Wrap(Sizes(cacheItems))
SpaceInv == StoreInv /\ ListOK

\* Why the first file of a path is not read in part: from the moment that a load
\* is about to show it, it is whole and stays so.
Whole(i) == disk[i].data # Partial /\ gens[i] = FirstGen(i)
FileKept(i) ==
    /\ gens[i] \in 1 .. FirstGen(i) /\ object[i] # Partial
    /\ IF disk[i].gen = 0 THEN disk[i].data # Partial ELSE disk[i].gen = FirstGen(i) /\ gens[i] = FirstGen(i)
    /\ InCache(i) \/ i \in Cached => Whole(i)
TaskKept(t) ==
    /\ t.gen = FirstGen(t.inode) /\ gens[t.inode] = FirstGen(t.inode)
    /\ t.locked => t.data # Partial
    /\ t.at = "insert" => Whole(t.inode)
\* It has the file open or is about to, and it is not loading it.
Shows(u) ==
    \/ pc[u] \in {"hit", "make", "loadinsert", "put"} \/ (pc[u] = "loadfree" /\ ret[u] # "EIO")
    \/ fd[u] # 0 /\ pc[u] \notin {"loadfetch", "loadfree"}
UserKept(u) ==
    /\ answer[u] # Partial
    /\ pc[u] = "loadfetch" => fd[u] = FirstGen(I(u)) /\ gens[I(u)] = FirstGen(I(u))
    /\ pc[u] = "insertnew" => Kind(u) = "create"
    /\ Shows(u) => Whole(I(u))
KeptWhole(i) ==
    /\ FileKept(i) /\ \A t \in tasks : t.inode = i => TaskKept(t)
    /\ \A u \in Users : I(u) = i => UserKept(u)
WholeInv == SpaceInv /\ \A i \in Inodes : Reloaded(i) \/ Made(i) \/ KeptWhole(i)

\* Every request ends, whatever fails and whoever waits for a lock or for space.
RequestsEnd == \A u \in Users : <>(pc[u] = "done")

\* "write will wait for local cache to be loaded from obs": no load replaces
\* what was written to a cache file since.
WrittenIsKept ==
    \A i \in Inodes : disk[i].gen # 0 /\ disk[i].gen = wrote[i].gen => disk[i].data = wrote[i].data
=============================================================================
