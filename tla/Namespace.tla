----------------------------- MODULE Namespace -----------------------------
(***************************************************************************)
(* The directory tree and the operations that change it                    *)
(* (falcon/metadb/meta_handle.c over falcon/utils/path_parse.c and         *)
(* falcon/metadb/directory_table.c).  Every server keeps the whole         *)
(* directory table, keyed by parent id and name; the inode row of a key is *)
(* kept by the one worker its name hashes to.  The CN runs mkdir, rmdir    *)
(* and rename: it resolves the paths under locks of its own, changes its   *)
(* own table, has sub-handlers lock and change the tables of the workers,  *)
(* and commits everywhere.  The workers run create and unlink themselves.  *)
(*                                                                         *)
(* A lock is abstracted to its holders (the module RWLock is about the     *)
(* lock), a locked lookup to the committed row (DirPathHash), and the      *)
(* commit to one decision on the CN followed by one step on each worker    *)
(* (TwoPhaseCommit).                                                       *)
(***************************************************************************)
EXTENDS Naturals, Sequences, FiniteSets

CONSTANTS
    CN,          \* server 0
    Workers,     \* the workers
    Names,       \* path components, as numbers in the order of strcmp
    Home,        \* the worker whose shard holds a name's inode rows
    MaxId,       \* bound: the largest inode id
    Sessions,    \* the backends; each runs at most one request
    Site,        \* the server a session runs on
    Requests,    \* the requests a session may be sent
    Trees,       \* initial contents: [dir, inode, next]
    MaxErrors,   \* bound: how many statements fail on a worker
    MaxLost      \* bound: how many COMMIT PREPARED are lost

Servers == Workers \cup {CN}
Ids == 0..MaxId
Root == 0
Keys == Ids \X Names
Absent == MaxId + 1      \* DIR_HASH_TABLE_PATH_NOT_EXIST, the largest id
Paths == UNION {[1..n -> Names] : n \in 1..3}
Ops == {"mkdir", "rmdir", "rename", "create", "unlink"}
Request == [op: Ops, paths: UNION {[1..n -> Paths] : n \in 1..2}]
NoRow == [id |-> Root, isDir |-> FALSE]     \* no row has the id of the root
Rows == [id: Ids \ {Root}, isDir: BOOLEAN]

\* Initial contents: ids below the next one, one name for each.
TreeTyped(t) ==
    /\ t.next \in 1..(MaxId + 1)
    /\ DOMAIN t.dir \subseteq Keys /\ \A k \in DOMAIN t.dir : t.dir[k] \in Ids
    /\ DOMAIN t.inode \subseteq Keys
    /\ \A k \in DOMAIN t.inode : t.inode[k] \in Rows /\ t.inode[k].id < t.next
    /\ \A k, m \in DOMAIN t.inode : t.inode[k].id = t.inode[m].id => k = m

ASSUME NamespaceAssumptions ==
    /\ CN \notin Workers /\ Names \subseteq Nat /\ MaxId \in Nat
    /\ Home \in [Names -> Workers] /\ Site \in [Sessions -> Servers]
    /\ \A s \in Sessions : \A r \in Requests[s] :
         /\ r \in Request
         /\ (r.op = "rename" => Len(r.paths) = 2) /\ (r.op = "rmdir" => Len(r.paths) = 1)
    /\ \A t \in Trees : TreeTyped(t)
    /\ MaxErrors \in Nat /\ MaxLost \in Nat

VARIABLES
    dir,         \* the committed falcon_directory_table of each server: key -> id
    inode,       \* the committed inode rows of all workers: key -> row
    nextId,      \* the next inode id of the sequence
    shared, exclusive,   \* the locks held: <<server, key, session>>
    pc,          \* a session's step
    job,         \* its request, paths in pathcmp order; src: index of the source
    known,       \* what rename read of its source before it held a lock
    turn, depth, at,     \* path being parsed, components done, their id
    tree,        \* the PathParseTree of the transaction: prefix -> node
    found,       \* key and id of each path that parsed without error
    ddir, drow,  \* uncommitted writes: directory rows per server, inode rows
    script,      \* sub-handler statements each worker has yet to execute
    moved,       \* the inode row that RENAME_SUB_RENAME_LOCALLY returned
    result,      \* what the session answered
    indoubt,     \* parts whose COMMIT PREPARED was lost
    errors, lost \* bounded counters

tables == <<dir, inode, nextId>>
locks == <<shared, exclusive>>
parse == <<turn, depth, at, tree, found>>
txn == <<ddir, drow, script, moved>>
faults == <<indoubt, errors, lost>>
vars == <<tables, locks, pc, job, known, parse, txn, result, faults>>

NoFun == [k \in {} |-> Absent]
NoJob == [op |-> "none", paths |-> <<>>, src |-> 0]

-----------------------------------------------------------------------------
(* Paths.                                                                   *)

\* pathcmp: component by component, a directory before what is under it.
PathLess(p, q) ==
    \/ Len(p) < Len(q) /\ p = SubSeq(q, 1, Len(p))
    \/ \E n \in 1..Len(p) : /\ n <= Len(q) /\ SubSeq(p, 1, n - 1) = SubSeq(q, 1, n - 1)
                            /\ p[n] < q[n]

\* Mutant: the paths stay in the order in which the client gave them.
InGivenOrder(ps) == ps

InOrder(ps) == IF Len(ps) = 2 /\ PathLess(ps[2], ps[1]) THEN <<ps[2], ps[1]>> ELSE ps

Last(p) == p[Len(p)]

\* The row of a table with this key, or none.
Row(t, k, none) == IF k \in DOMAIN t THEN t[k] ELSE none

\* The id a path has in a directory table, or Absent: the unlocked walk.
CheckWhetherPathExistsInDirectoryTable(t, p) ==
    LET Walk[n \in 0..Len(p)] ==
            IF n = 0 THEN Root
            ELSE Row(t, <<Walk[n - 1], p[n]>>, Absent)
    IN Walk[Len(p)]

-----------------------------------------------------------------------------
(* Locks, lookups and uncommitted writes.                                   *)

CanShare(s, sv, k) == \A o \in Sessions \ {s} : <<sv, k, o>> \notin exclusive
CanExclude(s, sv, k) == \A o \in Sessions \ {s} : <<sv, k, o>> \notin exclusive \cup shared

LockShared(s, sv, k) ==
    /\ CanShare(s, sv, k)
    /\ shared' = shared \cup {<<sv, k, s>>}
    /\ UNCHANGED exclusive

\* Mutant: an exclusive lock that does not see the other exclusive holder.
LockBesideExclusive(s, sv, k) ==
    /\ \A o \in Sessions \ {s} : <<sv, k, o>> \notin shared
    /\ exclusive' = exclusive \cup {<<sv, k, s>>} /\ UNCHANGED shared

LockExclusive(s, sv, k) ==
    /\ CanExclude(s, sv, k)
    /\ exclusive' = exclusive \cup {<<sv, k, s>>}
    /\ UNCHANGED shared

\* Every lock of the session on these servers is released.
ReleaseOn(s, svs) ==
    /\ shared' = {l \in shared : l[3] # s \/ l[1] \notin svs}
    /\ exclusive' = {l \in exclusive : l[3] # s \/ l[1] \notin svs}

\* The directory row a session sees: its own write, or the committed row.
SeesDir(s, sv, k) == Row(ddir[s][sv], k, Row(dir[sv], k, Absent))
SeesRow(s, k) == Row(drow[s], k, Row(inode, k, NoRow))

Put(f, k, v) == [x \in DOMAIN f \cup {k} |-> IF x = k THEN v ELSE f[x]]

WriteDir(s, sv, k, id) == ddir' = [ddir EXCEPT ![s][sv] = Put(@, k, id)]
WriteRow(s, k, row) == drow' = [drow EXCEPT ![s] = Put(@, k, row)]

\* A write of a row waits for the transaction that wrote it last to end.
RowIsFree(s, k) ==
    /\ \A o \in Sessions \ {s} : k \notin DOMAIN drow[o]
    /\ \A d \in indoubt : k \notin DOMAIN d.rows

\* A committed part, as it takes effect on a worker.
Apply(f, g, none) ==
    LET all == DOMAIN f \cup DOMAIN g
        live == {k \in all : k \in DOMAIN g => g[k] # none}
    IN [k \in live |-> IF k \in DOMAIN g THEN g[k] ELSE f[k]]
PartRows(s, w) == [k \in {x \in DOMAIN drow[s] : Home[x[2]] = w} |-> drow[s][k]]

-----------------------------------------------------------------------------
Init ==
    /\ \E t \in Trees : dir = [sv \in Servers |-> t.dir] /\ inode = t.inode /\ nextId = t.next
    /\ shared = {} /\ exclusive = {}
    /\ pc = [s \in Sessions |-> "start"]
    /\ job = [s \in Sessions |-> NoJob]
    /\ known = [s \in Sessions |-> Absent]
    /\ turn = [s \in Sessions |-> 1] /\ depth = [s \in Sessions |-> 0]
    /\ at = [s \in Sessions |-> Root]
    /\ tree = [s \in Sessions |-> NoFun] /\ found = [s \in Sessions |-> <<>>]
    /\ ddir = [s \in Sessions |-> [sv \in Servers |-> NoFun]]
    /\ drow = [s \in Sessions |-> NoFun]
    /\ script = [s \in Sessions |-> [w \in Workers |-> <<>>]]
    /\ moved = [s \in Sessions |-> NoRow]
    /\ result = [s \in Sessions |-> "none"]
    /\ indoubt = {} /\ errors = 0 /\ lost = 0

\* The transaction ends without effect: every lock it has is released, its
\* writes on every server are rolled back.
Abort(s, code) ==
    /\ pc' = [pc EXCEPT ![s] = "done"]
    /\ result' = [result EXCEPT ![s] = code]
    /\ ReleaseOn(s, Servers)
    /\ ddir' = [ddir EXCEPT ![s] = [sv \in Servers |-> NoFun]]
    /\ drow' = [drow EXCEPT ![s] = NoFun]
    /\ script' = [script EXCEPT ![s] = [w \in Workers |-> <<>>]]
    /\ UNCHANGED <<tables, job, known, parse, moved, faults>>

\* A handler is called: the paths are sorted, and rename looks its source up
\* in the directory table without a lock to find out whether it is a
\* directory.
Begin(s) ==
    /\ pc[s] = "start"
    /\ \E r \in Requests[s] :
        LET ps == InOrder(r.paths) IN
        /\ job' = [job EXCEPT ![s] = [op |-> r.op, paths |-> ps,
                     src |-> CHOOSE i \in 1..Len(ps) : ps[i] = r.paths[1]]]
        /\ known' = [known EXCEPT ![s] = IF r.op = "rename"
                     THEN CheckWhetherPathExistsInDirectoryTable(dir[Site[s]], r.paths[1])
                     ELSE Absent]
        /\ IF r.op \in {"mkdir", "rmdir", "rename"} /\ Site[s] # CN
           THEN /\ pc' = [pc EXCEPT ![s] = "done"]
                /\ result' = [result EXCEPT ![s] = "WRONG_WORKER"]
           ELSE pc' = [pc EXCEPT ![s] = "parse"] /\ UNCHANGED result
    /\ UNCHANGED <<tables, locks, parse, txn, faults>>

-----------------------------------------------------------------------------
(* PathParseTreeInsert.                                                     *)

Path(s) == job[s].paths[turn[s]]
RenamesDir(s) == job[s].op = "rename" /\ known[s] # Absent
Creates(s) == \/ job[s].op \in {"mkdir", "create"}
              \/ job[s].op = "rename" /\ turn[s] # job[s].src
TargetIsDirectory(s) == job[s].op \in {"mkdir", "rmdir"} \/ RenamesDir(s)

\* The next path of the request, from the root again.
NextPath(s) ==
    /\ turn' = [turn EXCEPT ![s] = @ + 1]
    /\ depth' = [depth EXCEPT ![s] = 0] /\ at' = [at EXCEPT ![s] = Root]

\* An error of one path of a batch is that path's result; rmdir and rename
\* raise it.
PathFails(s, code) ==
    IF job[s].op \in {"rmdir", "rename"}
    THEN Abort(s, code)
    ELSE /\ NextPath(s)
         /\ result' = [result EXCEPT ![s] = code]
         /\ UNCHANGED <<tables, locks, pc, job, known, tree, found, txn, faults>>

Descend(s, id) ==
    /\ depth' = [depth EXCEPT ![s] = @ + 1] /\ at' = [at EXCEPT ![s] = id]
    /\ UNCHANGED <<tables, pc, job, known, turn, found, txn, result, faults>>

\* One component on the way to the target, under a shared lock; the lock of a
\* component that does not exist is kept.
ParseComponent(s) ==
    /\ pc[s] = "parse" /\ turn[s] <= Len(job[s].paths) /\ depth[s] < Len(Path(s)) - 1
    /\ LET prefix == SubSeq(Path(s), 1, depth[s] + 1)
           k == <<at[s], Last(prefix)>>
           id == SeesDir(s, Site[s], k)
       IN \/ /\ prefix \in DOMAIN tree[s]
             /\ IF tree[s][prefix].mode = "EXCLUSIVE"
                THEN PathFails(s, "PATH_LOCK_CONFLICT")
                ELSE Descend(s, tree[s][prefix].id) /\ UNCHANGED <<locks, tree>>
          \/ /\ prefix \notin DOMAIN tree[s] /\ id # Absent
             /\ LockShared(s, Site[s], k)
             /\ tree' = [tree EXCEPT ![s] = Put(@, prefix, [id |-> id, mode |-> "SHARED"])]
             /\ Descend(s, id)
          \/ /\ prefix \notin DOMAIN tree[s] /\ id = Absent
             /\ CanShare(s, Site[s], k)
             /\ IF job[s].op \in {"rmdir", "rename"}
                THEN Abort(s, "PATH_IS_INVALID")
                ELSE /\ LockShared(s, Site[s], k) /\ NextPath(s)
                     /\ result' = [result EXCEPT ![s] = "PATH_IS_INVALID"]
                     /\ UNCHANGED <<tables, pc, job, known, tree, found, txn, faults>>

AtTarget(s) ==
    /\ pc[s] = "parse" /\ turn[s] <= Len(job[s].paths) /\ depth[s] = Len(Path(s)) - 1

Target(s) == <<at[s], Last(Path(s))>>

Accept(s, id) == found' = [found EXCEPT ![s] = Append(@, [key |-> Target(s), id |-> id])]

\* A directory that is to be created: mkdir, and the target of a rename of a
\* directory.  mkdir inserts the row on the CN at once.
ParseNewDirectory(s) ==
    /\ AtTarget(s) /\ TargetIsDirectory(s) /\ Creates(s)
    /\ LET k == Target(s)
           sv == Site[s]
           old == SeesDir(s, sv, k)
           id == IF job[s].op = "rename" THEN known[s]
                 ELSE IF old # Absent THEN old ELSE nextId
           mode == IF job[s].op = "mkdir" THEN "CREATE" ELSE "EXCLUSIVE"
           remember == tree' = [tree EXCEPT ![s] = Put(@, Path(s), [id |-> id, mode |-> mode])]
       IN \/ Path(s) \in DOMAIN tree[s] /\ PathFails(s, "PATH_EXISTS")
          \/ /\ Path(s) \notin DOMAIN tree[s] /\ old # Absent /\ job[s].op = "rename"
             /\ CanExclude(s, sv, k) /\ Abort(s, "PATH_EXISTS")
          \/ /\ Path(s) \notin DOMAIN tree[s] /\ old # Absent /\ job[s].op = "mkdir"
             /\ LockExclusive(s, sv, k) /\ remember /\ NextPath(s)
             /\ result' = [result EXCEPT ![s] = "PATH_EXISTS"]
             /\ UNCHANGED <<tables, pc, job, known, found, txn, faults>>
          \/ /\ Path(s) \notin DOMAIN tree[s] /\ old = Absent
             /\ LockExclusive(s, sv, k) /\ remember /\ NextPath(s) /\ Accept(s, id)
             /\ IF job[s].op = "mkdir"
                THEN /\ nextId <= MaxId /\ nextId' = nextId + 1 /\ WriteDir(s, sv, k, id)
                ELSE UNCHANGED <<nextId, ddir>>
             /\ UNCHANGED <<dir, inode, pc, job, known, drow, script, moved, result, faults>>

\* A directory that is to be deleted: rmdir, and the source of a rename of a
\* directory.  rmdir deletes the row on the CN at once.
ParseOldDirectory(s) ==
    /\ AtTarget(s) /\ TargetIsDirectory(s) /\ ~Creates(s)
    /\ LET k == Target(s)
           id == SeesDir(s, Site[s], k)
       IN \/ Path(s) \in DOMAIN tree[s] /\ PathFails(s, "PATH_LOCK_CONFLICT")
          \/ /\ Path(s) \notin DOMAIN tree[s] /\ CanExclude(s, Site[s], k)
             /\ id = Absent /\ Abort(s, "PATH_NOT_EXISTS")
          \/ /\ Path(s) \notin DOMAIN tree[s] /\ id # Absent
             /\ LockExclusive(s, Site[s], k) /\ NextPath(s) /\ Accept(s, id)
             /\ tree' = [tree EXCEPT ![s] = Put(@, Path(s), [id |-> id, mode |-> "EXCLUSIVE"])]
             /\ IF job[s].op = "rmdir" THEN WriteDir(s, Site[s], k, Absent) ELSE UNCHANGED ddir
             /\ UNCHANGED <<tables, pc, job, known, drow, script, moved, result, faults>>

\* A file takes no lock.  create draws an inode id, and the worker of another
\* shard refuses.
ParseFile(s) ==
    /\ AtTarget(s) /\ ~TargetIsDirectory(s)
    /\ IF job[s].op \in {"create", "unlink"} /\ Home[Last(Path(s))] # Site[s]
       THEN PathFails(s, "WRONG_WORKER")
       ELSE /\ Accept(s, nextId) /\ NextPath(s)
            /\ IF job[s].op = "create" THEN nextId <= MaxId /\ nextId' = nextId + 1
               ELSE UNCHANGED nextId
            /\ UNCHANGED <<dir, inode, locks, pc, job, known, tree, txn, result, faults>>

Parsed(s) == pc[s] = "parse" /\ turn[s] > Len(job[s].paths)

-----------------------------------------------------------------------------
(* The CN's part: what each worker is asked to execute.  A statement of a   *)
(* script is one step of a sub-handler.                                     *)

Stmt(do, k, id) == [do |-> do, key |-> k, id |-> id]

\* The inode rows of the directories of a list that a worker owns.
CreateStmts(list, w) ==
    LET Upto[n \in 0..Len(list)] ==
            IF n = 0 THEN <<>>
            ELSE IF Home[list[n].key[2]] = w THEN Append(Upto[n - 1], Stmt("create", list[n].key, list[n].id))
            ELSE Upto[n - 1]
    IN Upto[Len(list)]

MkdirScript(s, w) ==
    [i \in 1..Len(found[s]) |-> Stmt("insert", found[s][i].key, found[s][i].id)] \o CreateStmts(found[s], w)

\* Mutant: the inode row of the directory is not deleted.
RmdirScriptWithoutUnlink(s, w) ==
    LET f == found[s][1] IN <<Stmt("delete", f.key, f.id), Stmt("empty", f.key, f.id)>>

RmdirScript(s, w) ==
    LET f == found[s][1] IN
    <<Stmt("delete", f.key, f.id), Stmt("empty", f.key, f.id)>> \o
    IF Home[f.key[2]] = w THEN <<Stmt("unlink", f.key, f.id)>> ELSE <<>>

Src(s) == found[s][job[s].src]
Dst(s) == found[s][3 - job[s].src]

RenameScript(s, w) ==
    LET del == Stmt("delete", Src(s).key, Dst(s).id)
        ins == Stmt("insert", Dst(s).key, Dst(s).id)
        dirs == IF ~RenamesDir(s) THEN <<>>
                ELSE IF job[s].src = 1 THEN <<del, ins>> ELSE <<ins, del>>
        take == IF Home[Src(s).key[2]] = w THEN <<Stmt("take", Src(s).key, Dst(s).id)>> ELSE <<>>
        put == IF Home[Src(s).key[2]] = w /\ Home[Dst(s).key[2]] = w
               THEN <<Stmt("put", Dst(s).key, Dst(s).id)>> ELSE <<>>
    IN dirs \o take \o put

\* mkdir, once every path is parsed: nothing to do, or all workers insert the
\* directories and those that own them the inode rows.
MkdirCalls(s) ==
    /\ Parsed(s) /\ job[s].op = "mkdir"
    /\ IF found[s] = <<>>
       THEN pc' = [pc EXCEPT ![s] = "decided"] /\ UNCHANGED script
       ELSE /\ pc' = [pc EXCEPT ![s] = "calls"]
            /\ script' = [script EXCEPT ![s] = [w \in Workers |-> MkdirScript(s, w)]]
    /\ UNCHANGED <<tables, locks, job, known, parse, ddir, drow, moved, result, faults>>

RmdirCalls(s) ==
    /\ Parsed(s) /\ job[s].op = "rmdir"
    /\ pc' = [pc EXCEPT ![s] = "calls"]
    /\ script' = [script EXCEPT ![s] = [w \in Workers |-> RmdirScript(s, w)]]
    /\ UNCHANGED <<tables, locks, job, known, parse, ddir, drow, moved, result, faults>>

\* rename moves the row on the CN, then calls the sub-handler on every worker.
RenameCalls(s) ==
    /\ Parsed(s) /\ job[s].op = "rename"
    /\ pc' = [pc EXCEPT ![s] = "calls"]
    /\ ddir' = IF RenamesDir(s)
               THEN [ddir EXCEPT ![s][CN] =
                       Put(Put(@, Src(s).key, Absent), Dst(s).key, Dst(s).id)]
               ELSE ddir
    /\ script' = [script EXCEPT ![s] = [w \in Workers |-> RenameScript(s, w)]]
    /\ UNCHANGED <<tables, locks, job, known, parse, drow, moved, result, faults>>

-----------------------------------------------------------------------------
(* The sub-handlers on a worker.                                            *)

Head1(s, w) == script[s][w][1]
Executes(s, w, do) ==
    /\ pc[s] \in {"calls", "create"} /\ script[s][w] # <<>> /\ Head1(s, w).do = do
StmtDone(s, w) == script' = [script EXCEPT ![s][w] = Tail(@)]
CallRest == <<tables, pc, job, known, parse, moved, result, faults>>

\* MKDIR_SUB_MKDIR and the second half of a directory rename.
SubInsertDirectory(s, w) ==
    /\ Executes(s, w, "insert")
    /\ LET st == Head1(s, w) IN
       IF CanExclude(s, w, st.key) /\ SeesDir(s, w, st.key) # Absent
       THEN Abort(s, "unexpected")
       ELSE /\ LockExclusive(s, w, st.key) /\ WriteDir(s, w, st.key, st.id)
            /\ StmtDone(s, w) /\ UNCHANGED <<CallRest, drow>>

\* RMDIR_SUB_RMDIR's first half and that of a directory rename.
SubDeleteDirectory(s, w) ==
    /\ Executes(s, w, "delete")
    /\ LET st == Head1(s, w) IN
       IF CanExclude(s, w, st.key) /\ SeesDir(s, w, st.key) = Absent
       THEN Abort(s, "unexpected")
       ELSE /\ LockExclusive(s, w, st.key) /\ WriteDir(s, w, st.key, Absent)
            /\ StmtDone(s, w) /\ UNCHANGED <<CallRest, drow>>

\* Mutant: the workers do not look for what is in the directory.
SubDoNotCheckEmpty(s, w) ==
    Executes(s, w, "empty") /\ StmtDone(s, w) /\ UNCHANGED <<CallRest, locks, ddir, drow>>

\* RMDIR_SUB_RMDIR's second half: a committed row of this worker's shards
\* under the directory is an error.
SubCheckEmpty(s, w) ==
    /\ Executes(s, w, "empty")
    /\ IF \E n \in Names : Home[n] = w /\ SeesRow(s, <<Head1(s, w).id, n>>) # NoRow
       THEN Abort(s, "NOT_EMPTY")
       ELSE StmtDone(s, w) /\ UNCHANGED <<CallRest, locks, ddir, drow>>

\* MKDIR_SUB_CREATE: the unique index refuses a name that a file has.
SubCreateRow(s, w) ==
    /\ Executes(s, w, "create")
    /\ LET st == Head1(s, w) IN
       /\ RowIsFree(s, st.key)
       /\ IF SeesRow(s, st.key) # NoRow
          THEN Abort(s, "FILE_EXISTS")
          ELSE /\ WriteRow(s, st.key, [id |-> st.id, isDir |-> TRUE])
               /\ StmtDone(s, w) /\ UNCHANGED <<CallRest, locks, ddir>>

\* RMDIR_SUB_UNLINK: the row must be there, with the two links of a directory.
SubUnlinkRow(s, w) ==
    /\ Executes(s, w, "unlink")
    /\ LET st == Head1(s, w) IN
       /\ RowIsFree(s, st.key)
       /\ IF ~SeesRow(s, st.key).isDir
          THEN Abort(s, "unexpected")
          ELSE /\ WriteRow(s, st.key, NoRow)
               /\ StmtDone(s, w) /\ UNCHANGED <<CallRest, locks, ddir>>

\* Mutant: the row is read and not deleted.
SubCopyRow(s, w) ==
    /\ Executes(s, w, "take") /\ SeesRow(s, Head1(s, w).key) # NoRow
    /\ moved' = [moved EXCEPT ![s] = SeesRow(s, Head1(s, w).key)]
    /\ StmtDone(s, w)
    /\ UNCHANGED <<tables, pc, job, known, parse, result, faults, locks, ddir, drow>>

\* RENAME_SUB_RENAME_LOCALLY takes the source's inode row out of its shard.
SubTakeRow(s, w) ==
    /\ Executes(s, w, "take")
    /\ LET st == Head1(s, w) IN
       /\ RowIsFree(s, st.key)
       /\ IF SeesRow(s, st.key) = NoRow
          THEN Abort(s, "FILE_NOT_EXISTS")
          ELSE /\ WriteRow(s, st.key, NoRow)
               /\ moved' = [moved EXCEPT ![s] = SeesRow(s, st.key)]
               /\ StmtDone(s, w)
               /\ UNCHANGED <<tables, pc, job, known, parse, result, faults, locks, ddir>>

\* It is inserted under its new key, by the same statement when one worker owns
\* both, by RENAME_SUB_CREATE otherwise.
SubPutRow(s, w) ==
    /\ Executes(s, w, "put")
    /\ LET st == Head1(s, w) IN
       /\ RowIsFree(s, st.key)
       /\ IF SeesRow(s, st.key) # NoRow
          THEN Abort(s, "FILE_EXISTS")
          ELSE /\ WriteRow(s, st.key, moved[s])
               /\ StmtDone(s, w) /\ UNCHANGED <<CallRest, locks, ddir>>

Called(s) == \A w \in Workers : script[s][w] = <<>>

\* All workers answered; a rename between two workers sends RENAME_SUB_CREATE.
RenameSecondCall(s) ==
    /\ pc[s] = "calls" /\ Called(s) /\ job[s].op = "rename"
    /\ Home[Src(s).key[2]] # Home[Dst(s).key[2]]
    /\ pc' = [pc EXCEPT ![s] = "create"]
    /\ script' = [script EXCEPT ![s][Home[Dst(s).key[2]]] =
                    <<Stmt("put", Dst(s).key, Dst(s).id)>>]
    /\ UNCHANGED <<tables, locks, job, known, parse, ddir, drow, moved, result, faults>>

\* A statement fails on a worker for a reason of its own (a broken connection,
\* a full disk, a deadlock that PostgreSQL resolves).
StatementFails(s) ==
    /\ pc[s] \in {"calls", "create"} /\ ~Called(s) /\ errors < MaxErrors
    /\ pc' = [pc EXCEPT ![s] = "done"]
    /\ result' = [result EXCEPT ![s] = "ERROR"]
    /\ ReleaseOn(s, Servers)
    /\ ddir' = [ddir EXCEPT ![s] = [sv \in Servers |-> NoFun]]
    /\ drow' = [drow EXCEPT ![s] = NoFun]
    /\ script' = [script EXCEPT ![s] = [w \in Workers |-> <<>>]]
    /\ errors' = errors + 1
    /\ UNCHANGED <<tables, job, known, parse, moved, indoubt, lost>>

-----------------------------------------------------------------------------
(* create and unlink, on the worker that owns the name.                     *)

\* FalconCreateHandle: the unique index decides; FILE_EXISTS is a result.
CreateRow(s) ==
    /\ Parsed(s) /\ job[s].op = "create"
    /\ \/ /\ found[s] = <<>> /\ pc' = [pc EXCEPT ![s] = "decided"]
          /\ UNCHANGED <<found, drow, result>>
       \/ /\ found[s] # <<>>
          /\ LET f == found[s][1] IN
             /\ RowIsFree(s, f.key)
             /\ IF SeesRow(s, f.key) # NoRow
                THEN result' = [result EXCEPT ![s] = "FILE_EXISTS"] /\ UNCHANGED drow
                ELSE WriteRow(s, f.key, [id |-> f.id, isDir |-> FALSE]) /\ UNCHANGED result
             /\ found' = [found EXCEPT ![s] = Tail(@)]
          /\ UNCHANGED pc
    /\ UNCHANGED <<tables, locks, job, known, turn, depth, at, tree, ddir, script, moved, faults>>

\* FalconUnlinkHandle: only a file's row is deleted.
UnlinkRow(s) ==
    /\ Parsed(s) /\ job[s].op = "unlink"
    /\ \/ /\ found[s] = <<>> /\ pc' = [pc EXCEPT ![s] = "decided"]
          /\ UNCHANGED <<found, drow, result>>
       \/ /\ found[s] # <<>>
          /\ LET k == found[s][1].key
                 row == SeesRow(s, k)
             IN /\ RowIsFree(s, k)
                /\ IF row = NoRow \/ row.isDir
                   THEN /\ result' = [result EXCEPT ![s] =
                             IF row.isDir THEN "PATH_VERIFY_FAILED" ELSE "FILE_NOT_EXISTS"]
                        /\ UNCHANGED drow
                   ELSE WriteRow(s, k, NoRow) /\ UNCHANGED result
          /\ found' = [found EXCEPT ![s] = Tail(@)]
          /\ UNCHANGED pc
    /\ UNCHANGED <<tables, locks, job, known, turn, depth, at, tree, ddir, script, moved, faults>>

-----------------------------------------------------------------------------
(* Commit.                                                                  *)

\* Mutant: the CN releases its locks with its own commit.
DecideAndRelease(s) ==
    /\ pc[s] \in {"calls", "create"} /\ Called(s)
    /\ job[s].op = "rename" /\ Home[Src(s).key[2]] # Home[Dst(s).key[2]] => pc[s] = "create"
    /\ pc' = [pc EXCEPT ![s] = "decided"]
    /\ dir' = [dir EXCEPT ![CN] = Apply(@, ddir[s][CN], Absent)]
    /\ ReleaseOn(s, {CN})
    /\ UNCHANGED <<inode, nextId, job, known, parse, txn, result, faults>>

\* The CN's own part commits once every worker has prepared.
Decide(s) ==
    /\ pc[s] \in {"calls", "create"} /\ Called(s)
    /\ job[s].op = "rename" /\ Home[Src(s).key[2]] # Home[Dst(s).key[2]] => pc[s] = "create"
    /\ pc' = [pc EXCEPT ![s] = "decided"]
    /\ dir' = [dir EXCEPT ![CN] = Apply(@, ddir[s][CN], Absent)]
    /\ UNCHANGED <<inode, nextId, locks, job, known, parse, txn, result, faults>>

NoPart(s, w) == DOMAIN ddir[s][w] = {} /\ DOMAIN PartRows(s, w) = {}

ForgetPart(s, w) ==
    /\ ddir' = [ddir EXCEPT ![s][w] = NoFun]
    /\ drow' = [drow EXCEPT ![s] = [k \in DOMAIN @ \ DOMAIN PartRows(s, w) |-> @[k]]]

\* COMMIT PREPARED on a worker (or the only commit, of create and unlink): the
\* part takes effect and the worker's backend releases its locks.
CommitOn(s, w) ==
    /\ pc[s] = "decided" /\ ~NoPart(s, w)
    /\ dir' = [dir EXCEPT ![w] = Apply(@, ddir[s][w], Absent)]
    /\ inode' = Apply(inode, PartRows(s, w), NoRow)
    /\ ForgetPart(s, w) /\ ReleaseOn(s, {w} \ {Site[s]})
    /\ UNCHANGED <<nextId, pc, job, known, parse, script, moved, result, faults>>

\* COMMIT PREPARED does not reach the worker: its backend is gone, with its
\* locks; the prepared part stays.
LoseCommit(s, w) ==
    /\ pc[s] = "decided" /\ Site[s] = CN /\ ~NoPart(s, w) /\ lost < MaxLost
    /\ lost' = lost + 1
    /\ indoubt' = indoubt \cup {[w |-> w, dirs |-> ddir[s][w], rows |-> PartRows(s, w)]}
    /\ ForgetPart(s, w) /\ ReleaseOn(s, {w})
    /\ UNCHANGED <<tables, pc, job, known, parse, script, moved, result, errors>>

\* The cleanup daemon commits such a part later.
CleanupDaemonCommits(d) ==
    /\ dir' = [dir EXCEPT ![d.w] = Apply(@, d.dirs, Absent)]
    /\ inode' = Apply(inode, d.rows, NoRow)
    /\ indoubt' = indoubt \ {d}
    /\ UNCHANGED <<nextId, locks, pc, job, known, parse, txn, result, errors, lost>>

\* The end of the transaction where it began: its locks go last.
Finish(s) ==
    /\ pc[s] = "decided" /\ \A w \in Workers : NoPart(s, w)
    /\ pc' = [pc EXCEPT ![s] = "done"]
    /\ result' = [result EXCEPT ![s] = IF @ = "none" THEN "SUCCESS" ELSE @]
    /\ ReleaseOn(s, {Site[s]})
    /\ ddir' = [ddir EXCEPT ![s] = [sv \in Servers |-> NoFun]]
    /\ UNCHANGED <<tables, job, known, parse, drow, script, moved, faults>>

-----------------------------------------------------------------------------
Parse(s) == \/ ParseComponent(s) \/ ParseNewDirectory(s) \/ ParseOldDirectory(s) \/ ParseFile(s)

Calls(s) == \/ MkdirCalls(s) \/ RmdirCalls(s) \/ RenameCalls(s) \/ RenameSecondCall(s)

SubStep(s, w) ==
    \/ SubInsertDirectory(s, w) \/ SubDeleteDirectory(s, w) \/ SubCheckEmpty(s, w)
    \/ SubCreateRow(s, w) \/ SubUnlinkRow(s, w) \/ SubTakeRow(s, w) \/ SubPutRow(s, w)

Step(s) ==
    \/ Begin(s) \/ Parse(s) \/ Calls(s) \/ CreateRow(s) \/ UnlinkRow(s) \/ Decide(s) \/ Finish(s)
    \/ \E w \in Workers : SubStep(s, w) \/ CommitOn(s, w)

Next ==
    \/ \E s \in Sessions : Step(s) \/ StatementFails(s) \/ \E w \in Workers : LoseCommit(s, w)
    \/ \E d \in indoubt : CleanupDaemonCommits(d)

Spec == Init /\ [][Next]_vars

Running == \/ \E s \in Sessions : Step(s)
           \/ \E d \in indoubt : CleanupDaemonCommits(d)

\* Some backend that does not wait for a lock runs, and the daemon wakes up for
\* ever.
FairSpec == Spec /\ WF_vars(Running)

-----------------------------------------------------------------------------
(* Properties.                                                              *)

TypeOK ==
    /\ DOMAIN dir = Servers /\ DOMAIN inode \subseteq Keys
    /\ \A sv \in Servers : DOMAIN dir[sv] \subseteq Keys /\ \A k \in DOMAIN dir[sv] : dir[sv][k] \in Ids
    /\ \A k \in DOMAIN inode : inode[k] \in Rows
    /\ nextId \in 1..(MaxId + 1)
    /\ shared \cup exclusive \subseteq Servers \X Keys \X Sessions
    /\ pc \in [Sessions -> {"start", "parse", "calls", "create", "decided", "done"}]
    /\ \A s \in Sessions :
        /\ job[s] = NoJob \/ job[s].op \in Ops
        /\ known[s] \in Ids \cup {Absent} /\ at[s] \in Ids
        /\ DOMAIN ddir[s] = Servers /\ DOMAIN drow[s] \subseteq Keys
        /\ \A sv \in Servers : DOMAIN ddir[s][sv] \subseteq Keys
    /\ errors \in 0..MaxErrors /\ lost \in 0..MaxLost

\* Every worker's directory table has what the CN's has, except for the
\* directories that an operation on the CN holds exclusively: the CN's lock
\* covers the copies on all servers, through the commit on the last of them.  A
\* part whose COMMIT PREPARED was lost is the other exception.
ReplicasAgree ==
    \A w \in Workers : \A k \in DOMAIN dir[w] \cup DOMAIN dir[CN] :
        \/ Row(dir[w], k, Absent) = Row(dir[CN], k, Absent)
        \/ \E s \in Sessions : <<CN, k, s>> \in exclusive
        \/ \E d \in indoubt : d.w = w /\ k \in DOMAIN d.dirs

\* On the worker that owns a name, the directory table and the inode table say
\* the same: a directory has a directory's inode row with its id, and an inode
\* row of a directory is in the directory table.
DirHasInode ==
    \A w \in Workers : \A k \in DOMAIN dir[w] \cup DOMAIN inode :
        LET row == Row(inode, k, NoRow) IN
        Home[k[2]] = w => Row(dir[w], k, Absent) = IF row.isDir THEN row.id ELSE Absent

\* The ids that can be reached from the root in a directory table.
Reachable(t) ==
    LET Within[n \in 0..MaxId] ==
            IF n = 0 THEN {Root}
            ELSE Within[n - 1] \cup {t[k] : k \in {x \in DOMAIN t : x[1] \in Within[n - 1]}}
    IN Within[Cardinality(DOMAIN t)]

\* The directories of a server are one tree: each is in one place only and can
\* be reached from the root.
IsTree(t) ==
    /\ \A k \in DOMAIN t : k[1] \in Reachable(t)
    /\ \A k, m \in DOMAIN t : t[k] = t[m] => k = m

\* Every inode row is in a directory that exists.
NoOrphans ==
    \A w \in Workers :
        LET reached == Reachable(dir[w]) IN
        \A k \in DOMAIN inode : Home[k[2]] = w => k[1] \in reached

\* Unless a COMMIT PREPARED was lost: no rename moves a directory under itself,
\* no rmdir removes a directory that a concurrent mkdir, create or rename fills,
\* on any server and at any moment of a commit.
TreeIntact == lost = 0 => NoOrphans /\ \A sv \in Servers : IsTree(dir[sv])

\* A file or directory has one name, but while a rename between two workers
\* commits: it is committed on one worker after the other.
OneNamePerInode ==
    \A k, m \in DOMAIN inode :
        inode[k].id = inode[m].id =>
            \/ k = m
            \/ \E s \in Sessions : pc[s] = "decided" /\ {k, m} \cap DOMAIN drow[s] # {}
            \/ \E d \in indoubt : {k, m} \cap DOMAIN d.rows # {}

\* The types, and one name for every inode.
Inv == TypeOK /\ OneNamePerInode

\* What the CN says of its sub-handlers, "is supposed to be successful": unless
\* a COMMIT PREPARED was lost, they find the directories in the state in which
\* the CN found them.
SubHandlersSucceed == lost = 0 => \A s \in Sessions : result[s] # "unexpected"

\* Every operation ends, whatever the paths of the others: locks are taken in
\* the order of the paths, on the CN before the workers.
OperationsEnd == \A s \in Sessions : pc[s] = "parse" ~> pc[s] = "done"

-----------------------------------------------------------------------------
(* Why the replicas agree (NamespaceProofs).                                *)

IsSeq(q) == Len(q) \in Nat /\ q = [i \in 1..Len(q) |-> q[i]]
Undecided == {"parse", "calls", "create"}
InProgress == Undecided \cup {"decided"}
OnDir(st) == st.do \in {"insert", "delete"}

ShapeOK ==
    /\ DOMAIN dir = Servers /\ nextId \in Nat
    /\ pc \in [Sessions -> {"start", "parse", "calls", "create", "decided", "done"}]
    /\ DOMAIN job = Sessions /\ DOMAIN known = Sessions /\ DOMAIN found = Sessions
    /\ turn \in [Sessions -> Nat]
    /\ DOMAIN ddir = Sessions /\ DOMAIN script = Sessions
    /\ \A s \in Sessions :
         /\ DOMAIN ddir[s] = Servers /\ DOMAIN script[s] = Workers
         /\ IsSeq(found[s]) /\ \A w \in Workers : IsSeq(script[s][w])
    /\ \A d \in indoubt : d.w \in Workers

\* The locks of the CN exclude each other.
LocksApart ==
    \A l \in exclusive : \A s, t \in Sessions :
        l = <<CN, l[2], s>> /\ <<CN, l[2], t>> \in exclusive => s = t

\* A handler runs where it may, with the paths it takes, and rmdir and rename
\* have found each path they have parsed.
RequestOK(s) ==
    /\ pc[s] = "start" => turn[s] = 1 /\ found[s] = <<>>
    /\ pc[s] \in InProgress =>
        /\ job[s].op \in Ops /\ Len(job[s].paths) \in Nat
        /\ job[s].op \in {"mkdir", "rmdir", "rename"} => Site[s] = CN
        /\ job[s].op = "rmdir" => Len(job[s].paths) = 1
        /\ job[s].op = "rename" => Len(job[s].paths) = 2 /\ job[s].src \in 1..2
        /\ pc[s] = "parse" /\ job[s].op \in {"rmdir", "rename"} =>
              turn[s] \in 1 .. Len(job[s].paths) + 1 /\ Len(found[s]) = turn[s] - 1

\* What a transaction has written of a directory is locked on the CN.
DirtyLocked(s) ==
    \A k \in DOMAIN ddir[s][CN] : <<CN, k, s>> \in exclusive /\ pc[s] \in InProgress

\* What the CN has found is what it has written; rename writes it later.
FoundWritten(s) ==
    pc[s] = "parse" =>
        /\ \A k \in DOMAIN ddir[s][CN] :
             job[s].op \in {"mkdir", "rmdir"} /\ \E i \in DOMAIN found[s] : found[s][i].key = k
        /\ \A i \in DOMAIN found[s] : LET f == found[s][i] IN
             /\ job[s].op = "mkdir" =>
                  f.key \in DOMAIN ddir[s][CN] /\ f.id # Absent /\ ddir[s][CN][f.key] = f.id
             /\ job[s].op = "rmdir" =>
                  f.key \in DOMAIN ddir[s][CN] /\ ddir[s][CN][f.key] = Absent
             /\ RenamesDir(s) =>
                  /\ <<CN, f.key, s>> \in exclusive
                  /\ IF i = job[s].src THEN Row(dir[CN], f.key, Absent) # Absent
                     ELSE Row(dir[CN], f.key, Absent) = Absent /\ f.id # Absent

\* A write on the CN makes a directory that is not there or removes one that is.
WriteChanges(s) ==
    pc[s] \in Undecided => \A k \in DOMAIN ddir[s][CN] :
        (Row(dir[CN], k, Absent) = Absent) <=> (ddir[s][CN][k] # Absent)

\* The statements for a worker are what the CN has written, and nothing of it is
\* left out.
ScriptsSound(s) ==
    pc[s] \in {"calls", "create"} => \A w \in Workers :
        /\ \A i \in DOMAIN script[s][w] : LET st == script[s][w][i] IN OnDir(st) =>
             /\ st.key \in DOMAIN ddir[s][CN]
             /\ ddir[s][CN][st.key] = IF st.do = "insert" THEN st.id ELSE Absent
             /\ st.do = "insert" => st.id # Absent
        /\ \A k \in DOMAIN ddir[s][CN] :
             \/ k \in DOMAIN ddir[s][w]
             \/ \E i \in DOMAIN script[s][w] : OnDir(script[s][w][i]) /\ script[s][w][i].key = k

\* A worker's part is the CN's, and its effect is not there yet: the worker's table
\* has the CN's row before the decision, and the part has it afterwards.
PartsSound(s) ==
    \A w \in Workers : \A k \in DOMAIN ddir[s][w] :
        /\ pc[s] \in {"calls", "create", "decided"}
        /\ k \in DOMAIN ddir[s][CN] /\ ddir[s][w][k] = ddir[s][CN][k]
        /\ Row(dir[w], k, Absent) = Absent <=> ddir[s][w][k] # Absent
        /\ Row(dir[CN], k, Absent) = IF pc[s] = "decided" THEN ddir[s][w][k] ELSE Row(dir[w], k, Absent)

SessionOK(s) ==
    RequestOK(s) /\ DirtyLocked(s) /\ FoundWritten(s) /\ WriteChanges(s) /\ ScriptsSound(s) /\ PartsSound(s)

\* A part that is in doubt is the CN's row and not yet the worker's; no other part
\* on that worker has its directories.
DoubtSound ==
    \A d \in indoubt : \A k \in DOMAIN d.dirs :
        /\ Row(dir[CN], k, Absent) = d.dirs[k]
        /\ Row(dir[d.w], k, Absent) = Absent <=> d.dirs[k] # Absent
        /\ \A s \in Sessions : k \notin DOMAIN ddir[s][d.w]
        /\ \A e \in indoubt : e.w = d.w /\ k \in DOMAIN e.dirs => e = d

\* A row that differs is in a part that is to be committed.
Converging ==
    \A w \in Workers : \A k \in DOMAIN dir[w] \cup DOMAIN dir[CN] :
        \/ Row(dir[w], k, Absent) = Row(dir[CN], k, Absent)
        \/ \E s \in Sessions : pc[s] = "decided" /\ k \in DOMAIN ddir[s][w]
        \/ \E d \in indoubt : d.w = w /\ k \in DOMAIN d.dirs

ReplicaInv ==
    ShapeOK /\ LocksApart /\ (\A s \in Sessions : SessionOK(s)) /\ DoubtSound /\ Converging

-----------------------------------------------------------------------------
(* Why an inode has one name (NamespaceProofs).                             *)

KeyedIds(f) == DOMAIN f \subseteq Keys /\ \A k \in DOMAIN f : f[k] \in Ids \cup {Absent}
KeyedRows(f) == DOMAIN f \subseteq Keys /\ \A k \in DOMAIN f : f[k] \in Rows \cup {NoRow}

TablesTyped ==
    /\ \A sv \in Servers : DOMAIN dir[sv] \subseteq Keys /\ \A k \in DOMAIN dir[sv] : dir[sv][k] \in Ids
    /\ DOMAIN inode \subseteq Keys /\ \A k \in DOMAIN inode : inode[k] \in Rows
    /\ nextId \in 1..(MaxId + 1)
    /\ shared \subseteq Servers \X Keys \X Sessions /\ exclusive \subseteq Servers \X Keys \X Sessions
    /\ errors \in 0..MaxErrors /\ lost \in 0..MaxLost
    /\ DOMAIN depth = Sessions /\ DOMAIN at = Sessions /\ DOMAIN tree = Sessions
    /\ DOMAIN drow = Sessions /\ DOMAIN moved = Sessions
    /\ \A d \in indoubt : KeyedIds(d.dirs) /\ KeyedRows(d.rows)

ParseTyped(s) ==
    /\ job[s] = NoJob \/ job[s].op \in Ops
    /\ known[s] \in Ids \cup {Absent} /\ at[s] \in Ids /\ turn[s] \in Nat \ {0} /\ depth[s] \in Nat
    /\ pc[s] \in Undecided => \A n \in 1..Len(job[s].paths) : job[s].paths[n] \in Paths
    /\ \A p \in DOMAIN tree[s] : tree[s][p].id \in Ids
    /\ \A n \in DOMAIN found[s] : LET f == found[s][n] IN
         /\ f.key \in Keys
         /\ job[s].op \in {"mkdir", "create"} => f.id \in Ids \ {Root}
         /\ RenamesDir(s) /\ n # job[s].src => f.id \in Ids

TxnTyped(s) ==
    /\ \A sv \in Servers : KeyedIds(ddir[s][sv])
    /\ KeyedRows(drow[s])
    /\ \A w \in Workers : \A n \in DOMAIN script[s][w] : LET st == script[s][w][n] IN
         /\ st.key \in Keys
         /\ st.do = "insert" => st.id \in Ids
         /\ st.do = "create" => st.id \in Ids \ {Root}

\* A rename has taken its source's committed row, and may have put it under the
\* destination's key.
RenameRows(s) ==
    job[s].op = "rename" /\ pc[s] \in {"calls", "create"} =>
        LET src == Src(s).key
            dst == Dst(s).key IN
        /\ src \in Keys /\ dst \in Keys
        /\ DOMAIN drow[s] \subseteq {src, dst}
        /\ DOMAIN drow[s] # {} => src \in DOMAIN drow[s] /\ src \in DOMAIN inode /\ moved[s] = inode[src]
        /\ \A k \in DOMAIN drow[s] : drow[s][k] = NoRow \/ (k = dst /\ drow[s][k] = moved[s])

\* It puts nothing before it has taken it.
RenameOrder(s) ==
    job[s].op = "rename" /\ pc[s] \in {"calls", "create"} =>
        LET taken == Src(s).key \in DOMAIN drow[s] IN
        /\ \A w \in Workers : \A n \in DOMAIN script[s][w] : LET st == script[s][w][n] IN
             /\ st.do = "take" => st.key = Src(s).key
             /\ st.do = "put" =>
                  /\ st.key = Dst(s).key
                  /\ taken \/ \E i \in DOMAIN script[s][w] : i < n /\ script[s][w][i].do = "take"
        /\ taken \/ \E w \in Workers : \E n \in DOMAIN script[s][w] : script[s][w][n].do = "take"

\* What each operation writes of inode rows.
RowsSound(s) ==
    /\ pc[s] = "start" \/ (pc[s] = "parse" /\ job[s].op \in {"mkdir", "rmdir", "rename"}) =>
         DOMAIN drow[s] = {}
    /\ pc[s] \in Undecided /\ job[s].op \in {"rmdir", "unlink"} =>
         \A k \in DOMAIN drow[s] : drow[s][k] = NoRow
    /\ pc[s] \in {"calls", "create"} =>
         /\ job[s].op \in {"mkdir", "rmdir", "rename"}
         /\ \A w \in Workers : \A n \in DOMAIN script[s][w] : LET do == script[s][w][n].do IN
              /\ job[s].op = "mkdir" => do \in {"insert", "create"}
              /\ job[s].op = "rmdir" => do \in {"delete", "empty", "unlink"}
              /\ job[s].op = "rename" => do \in {"insert", "delete", "take", "put"}
    /\ RenameRows(s) /\ RenameOrder(s)

\* A row is written by one transaction at a time.
OneRowWriter ==
    /\ \A s, t \in Sessions : \A k \in DOMAIN drow[s] : k \in DOMAIN drow[t] => s = t
    /\ \A d \in indoubt : \A k \in DOMAIN d.rows :
         /\ \A s \in Sessions : k \notin DOMAIN drow[s]
         /\ \A e \in indoubt : k \in DOMAIN e.rows => e = d

\* The rows there are once all parts that are decided have taken effect.
Final(k, row) ==
    /\ row # NoRow
    /\ \/ \E s \in Sessions : pc[s] = "decided" /\ k \in DOMAIN drow[s] /\ drow[s][k] = row
       \/ \E d \in indoubt : k \in DOMAIN d.rows /\ d.rows[k] = row
       \/ /\ k \in DOMAIN inode /\ inode[k] = row
          /\ \A s \in Sessions : pc[s] = "decided" => k \notin DOMAIN drow[s]
          /\ \A d \in indoubt : k \notin DOMAIN d.rows

\* The names and ids that a mkdir or create is about to give.
Pending(s, k, id) ==
    /\ pc[s] \in Undecided /\ job[s].op \in {"mkdir", "create"}
    /\ \/ pc[s] = "parse" /\ \E n \in DOMAIN found[s] : found[s][n].key = k /\ found[s][n].id = id
       \/ /\ pc[s] # "parse"
          /\ \E w \in Workers : \E n \in DOMAIN script[s][w] : LET st == script[s][w][n] IN
               st.do = "create" /\ st.key = k /\ st.id = id
       \/ k \in DOMAIN drow[s] /\ drow[s][k] # NoRow /\ drow[s][k].id = id

\* In the end every id has one name.
FinalApart ==
    \A k \in Keys : \A row \in Rows : Final(k, row) =>
        /\ row.id < nextId
        /\ \A m \in Keys : \A other \in Rows : Final(m, other) /\ other.id = row.id => m = k

\* An id that is to be given is given to one name only, and by nobody else.
PendingApart(s) ==
    \A k \in Keys : \A id \in Ids : Pending(s, k, id) =>
        /\ id < nextId
        /\ \A m \in Keys : \A row \in Rows : Final(m, row) => row.id # id
        /\ \A t \in Sessions : \A m \in Keys : Pending(t, m, id) => t = s /\ m = k

NameInv ==
    /\ TablesTyped /\ OneRowWriter /\ FinalApart
    /\ \A s \in Sessions : ParseTyped(s) /\ TxnTyped(s) /\ RowsSound(s) /\ PendingApart(s)
=============================================================================
