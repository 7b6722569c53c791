-------------------------------- MODULE Client --------------------------------
(***************************************************************************)
(* The file requests of a mount: what the FUSE handlers of fuse_main.cpp   *)
(* do by falcon_meta.cpp with the metadata, with the table of open         *)
(* instances (buffer/dir_open_instance.cpp) and with the store.            *)
(*                                                                         *)
(* A metadata call is one step here (Namespace, MetaRows, Router), and so  *)
(* is a call of the store (Store, RemoteIO).  A file's data is its length, *)
(* the node that has it, and the object of its path.                       *)
(***************************************************************************)
EXTENDS Integers, Sequences, FiniteSets, SequencesExt

CONSTANTS
    Procs,       \* processes that use the mount
    PathNames,
    Uses,        \* [persist, limit, faults, sizes, reqs, doubt]: the setting, maxOpenInstanceNum,
                 \* the calls that may fail, the size of each path's file or Absent, the requests of each process, and
                 \* whether two requests for one file missed each other (FALSE at first)
    BigFile,     \* READ_BIGFILE_SIZE
    Listing,     \* the directory's entries on each worker, in the worker's order
    PerEpoch, PerWorker,  \* FILE_NUMBER_PER_EPOCH, FILE_NUMBER_PER_WORKER
    FillMax      \* entries that a buffer of the kernel takes

\* A name is one entry, of one worker.  FILE_NUMBER_PER_EPOCH is far more than the
\* workers, and a buffer takes more than "." and "..".
ASSUME ClientAssumptions ==
    /\ IsFiniteSet(Procs) /\ IsFiniteSet(DOMAIN Listing) /\ DOMAIN Listing # {}
    /\ \A w \in DOMAIN Listing : Listing[w] \in Seq(ToSet(Listing[w]))
    /\ \A v, w \in DOMAIN Listing : \A i \in DOMAIN Listing[v] : \A j \in DOMAIN Listing[w] :
          Listing[v][i] = Listing[w][j] => v = w /\ i = j
    /\ PerEpoch \in Nat /\ Cardinality(DOMAIN Listing) <= PerEpoch
    /\ PerWorker \in Nat \ {0} /\ FillMax \in Nat /\ FillMax > 2

Absent == -1
NoIno == 0
NoRow == [ino |-> NoIno, size |-> 0, node |-> 1]
NoObject == [ino |-> NoIno, len |-> 0]
FirstFd == 3

VARIABLES
    uses,    \* what is done, of Uses
    meta,    \* the metadata server: [rows, next inode]
    data,    \* the store: [len, at] of an inode, object of a path
    fdt,     \* FalconFd: [insts, curr, next]
    us,      \* the processes and their requests
    dir      \* the open directory of each process

clientVars == <<uses, meta, data, fdt, us, dir>>

NoDir == [open |-> FALSE, begun |-> FALSE, working |-> {}, read |-> [w \in DOMAIN Listing |-> 0],
          vec |-> <<>>, modes |-> <<>>, offset |-> 0, listed |-> <<>>, ended |-> FALSE,
          err |-> FALSE]   \* err: a call of this listing has failed

ClientInit ==
    /\ uses \in Uses
    /\ LET index == CHOOSE f \in [PathNames -> 1 .. Cardinality(PathNames)] :
                        \A p, q \in PathNames : p # q => f[p] # f[q]
           has(p) == uses.sizes[p] # Absent IN
       /\ meta = [rows |-> [p \in PathNames |->
                               IF has(p) THEN [ino |-> index[p], size |-> uses.sizes[p], node |-> 1] ELSE NoRow],
                  next |-> Cardinality(PathNames) + 1]
       /\ data = [len |-> [i \in 1 .. 2 * Cardinality(PathNames) |->
                              IF \E p \in PathNames : has(p) /\ index[p] = i
                              THEN uses.sizes[CHOOSE p \in PathNames : index[p] = i] ELSE 0],
                  at |-> [i \in 1 .. 2 * Cardinality(PathNames) |-> 1],
                  object |-> [p \in PathNames |-> IF has(p) /\ uses.persist
                                 THEN [ino |-> index[p], len |-> uses.sizes[p]] ELSE NoObject]]
    /\ fdt = [insts |-> <<>>, curr |-> 0, next |-> FirstFd]
    /\ us = [x \in Procs |-> [pc |-> "ready", reqs |-> uses.reqs[x], fd |-> 0, path |-> "none", row |-> NoRow,
                              size |-> 0, todo |-> {}, failed |-> FALSE]]
    /\ dir = [x \in Procs |-> NoDir]

-----------------------------------------------------------------------------
U(x) == us[x]
Req(x) == Head(U(x).reqs)
AtReq(x, ops) == U(x).pc = "ready" /\ U(x).reqs # <<>> /\ Req(x).op \in ops
At(x, pc) == U(x).pc = pc
SetUs(x, r) == us' = [us EXCEPT ![x] = r]
Told(r, ok) == [r EXCEPT !.pc = "ready", !.reqs = Tail(@), !.failed = @ \/ ~ok]
Inst(x) == fdt.insts[U(x).fd]
HasFd(x) == U(x).fd \in DOMAIN fdt.insts
Known == UNCHANGED <<uses, dir>>
ClientFault == uses.faults > 0 /\ uses' = [uses EXCEPT !.faults = @ - 1]

-----------------------------------------------------------------------------
(* The metadata calls, as Connection returns them.                          *)

Answer3(m, ok, row) == [meta |-> m, ok |-> ok, row |-> row]
ConnCreate(m, q) ==     \* FILE_EXISTS comes with the row
    LET new == [ino |-> m.next, size |-> 0, node |-> 1] IN
    IF m.rows[q.path].ino # NoIno THEN Answer3(m, ~q.excl, m.rows[q.path])
    ELSE Answer3([m EXCEPT !.rows[q.path] = new, !.next = @ + 1], TRUE, new)
ConnOpen(m, q) == Answer3(m, m.rows[q.path].ino # NoIno, m.rows[q.path])
ConnClose(m, q) ==
    IF m.rows[q.path].ino = NoIno THEN Answer3(m, FALSE, NoRow)
    ELSE Answer3([m EXCEPT !.rows[q.path].size = q.size, !.rows[q.path].node = q.node], TRUE, NoRow)
ConnUnlink(m, q) == Answer3([m EXCEPT !.rows[q.path] = NoRow], m.rows[q.path].ino # NoIno, m.rows[q.path])
ConnRename(m, q) ==
    IF m.rows[q.path].ino = NoIno \/ m.rows[q.dst].ino # NoIno THEN Answer3(m, FALSE, NoRow)
    ELSE Answer3([m EXCEPT !.rows[q.dst] = m.rows[q.path], !.rows[q.path] = NoRow], TRUE, m.rows[q.path])

Conn(op, m, q) ==
    CASE op = "create" -> ConnCreate(m, q) [] op = "open" -> ConnOpen(m, q) [] op = "close" -> ConnClose(m, q)
      [] op = "unlink" -> ConnUnlink(m, q) [] op = "rename" -> ConnRename(m, q)

\* A call, and what may become of it: an error before or after it has run, or a
\* retry of a call that had run, whose second answer counts.
Call(op, q) ==
    LET first == Conn(op, meta, q)
        lost(a) == [a EXCEPT !.ok = FALSE] IN
    {[answer |-> first, fault |-> FALSE]}
    \cup {[answer |-> a, fault |-> TRUE] :
             a \in {lost(Answer3(meta, FALSE, NoRow)), lost(first), Conn(op, first.meta, q)}}
CallEnds(c) == meta' = c.answer.meta /\ IF c.fault THEN ClientFault ELSE UNCHANGED uses

-----------------------------------------------------------------------------
(* Opening.                                                                 *)

Truncates(x) ==
    /\ U(x).reqs # <<>>
    /\ (Req(x).op = "trunc" /\ ~At(x, "ready")) \/ (Req(x).op \in {"flush", "release"} /\ Req(x).trunc)
Opens(x) == U(x).reqs # <<>> /\ Req(x).op = "open" /\ ~At(x, "ready")
\* Users do not open and truncate a file at a time (the comment of FalconTruncate).
MayStart(x) ==
    \A y \in Procs \ {x} : (IF Req(x).op = "trunc" THEN Opens(y) \/ Truncates(y) ELSE Truncates(y))
                              => Req(y).path # Req(x).path

\* The wait of WaitGetNewOpenInstance, which gives up after three seconds.
WaitGetNewOpenInstance(x) ==
    /\ (AtReq(x, {"open", "trunc"}) /\ MayStart(x)) \/ At(x, "created")
    /\ SetUs(x, IF fdt.curr < uses.limit THEN [U(x) EXCEPT !.pc = IF @ = "created" THEN "newcreated" ELSE "new"]
                ELSE Told(U(x), FALSE))
    /\ UNCHANGED <<meta, data, fdt>> /\ UNCHANGED uses /\ UNCHANGED dir
\* The count is raised after the wait, by whoever has passed it.
NewOpenInstance(x) ==
    /\ At(x, "new") \/ At(x, "newcreated")
    /\ SetUs(x, [U(x) EXCEPT !.pc = IF @ = "new" THEN "openmeta" ELSE "attach"])
    /\ fdt' = [fdt EXCEPT !.curr = @ + 1] /\ UNCHANGED <<meta, data>> /\ Known
ReleaseOpenInstance == fdt' = [fdt EXCEPT !.curr = @ - 1]

\* The kernel has the directory locked in a create, an unlink and a rename.
DirectoryFree(x) ==
    \A y \in Procs \ {x} : us[y].pc \notin {"created", "newcreated", "deldata", "copy", "rename", "renamed", "notrenamed"}
DoCreate(x) ==
    /\ AtReq(x, {"create"}) /\ DirectoryFree(x)
    /\ \E c \in Call("create", Req(x)) : LET a == c.answer IN
         /\ CallEnds(c)
         /\ SetUs(x, IF a.ok THEN [U(x) EXCEPT !.pc = "created", !.row = a.row] ELSE Told(U(x), FALSE))
    /\ UNCHANGED <<data, fdt, dir>>

ReadsSmall(x, row) == Req(x).op = "open" /\ Req(x).rdonly /\ row.size > 0 /\ row.size < BigFile

FalconOpen(x) ==
    /\ At(x, "openmeta")
    /\ \E c \in Call("open", Req(x)) : LET a == c.answer IN
         /\ CallEnds(c)
         /\ IF a.ok THEN /\ SetUs(x, [U(x) EXCEPT !.pc = IF ReadsSmall(x, a.row) THEN "small" ELSE "attach", !.row = a.row])
                         /\ UNCHANGED fdt
            ELSE SetUs(x, Told(U(x), FALSE)) /\ ReleaseOpenInstance
    /\ UNCHANGED <<data, dir>>

\* Mutant: the error path of a small read forgets the instance.
ReadSmallFilesForgets(x) ==
    /\ At(x, "small")
    /\ \/ SetUs(x, [U(x) EXCEPT !.pc = "attach"]) /\ UNCHANGED <<fdt, uses>>
       \/ ClientFault /\ SetUs(x, Told(U(x), FALSE)) /\ UNCHANGED fdt
    /\ UNCHANGED <<meta, data, dir>>
ReadSmallFiles(x) ==
    /\ At(x, "small")
    /\ \/ SetUs(x, [U(x) EXCEPT !.pc = "attach"]) /\ UNCHANGED <<fdt, uses>>
       \/ ClientFault /\ SetUs(x, Told(U(x), FALSE)) /\ ReleaseOpenInstance
    /\ UNCHANGED <<meta, data, dir>>

SameInode(i) == {f \in DOMAIN fdt.insts : fdt.insts[f].ino = i}
\* AttachFd: the instance is found by its number and by its inode from here on.
AttachFd(x) ==
    /\ At(x, "attach")
    /\ LET new == [ino |-> U(x).row.ino, path |-> Req(x).path, node |-> U(x).row.node, orig |-> U(x).row.size,
                   cur |-> U(x).row.size, rdonly |-> Req(x).rdonly, opened |-> FALSE, wrote |-> FALSE, flushed |-> FALSE,
                   nodeFail |-> FALSE, writeFail |-> FALSE, readFail |-> FALSE]
           r == [U(x) EXCEPT !.fd = fdt.next, !.path = Req(x).path] IN
       /\ fdt' = [fdt EXCEPT !.insts = [f \in DOMAIN @ \cup {fdt.next} |-> IF f = fdt.next THEN new ELSE @[f]],
                             !.next = @ + 1]
       /\ SetUs(x, IF Req(x).op # "trunc" THEN Told(r, TRUE)
                   ELSE [r EXCEPT !.pc = "truncset", !.todo = SameInode(U(x).row.ino) \cup {fdt.next}])
    /\ UNCHANGED <<meta, data>> /\ Known

-----------------------------------------------------------------------------
(* Reading and writing.                                                     *)

SetInst(f, i) == fdt' = [fdt EXCEPT !.insts[f] = i]
Bigger(a, b) == IF a > b THEN a ELSE b
\* A number that is not known (any more): EBADF.
UnknownFd(x) ==
    /\ AtReq(x, {"write", "read", "flush", "release", "fsync", "fdatasync"}) /\ ~HasFd(x)
    /\ SetUs(x, Told(U(x), FALSE)) /\ UNCHANGED <<meta, data, fdt>> /\ Known

\* OpenFile, at the first use: the file may be opened on another node than its own.
OpenFileOn(i, j, stale) ==
    \/ /\ j = [i EXCEPT !.opened = TRUE]
       /\ uses' = [uses EXCEPT !.doubt = @ \/ stale \/ (~i.opened /\ i.node # data.at[i.ino])]
    \/ /\ ~i.opened /\ uses.faults > 0 /\ j = [i EXCEPT !.opened = TRUE, !.node = 2, !.nodeFail = TRUE]
       /\ uses' = [uses EXCEPT !.faults = @ - 1,
                               !.doubt = @ \/ stale \/ \E f \in SameInode(i.ino) : fdt.insts[f].opened]
\* The instance that OpenFile leaves: of the file's own node, or of another one.
InstanceOn(i) == {[i EXCEPT !.opened = TRUE], [i EXCEPT !.opened = TRUE, !.node = 2, !.nodeFail = TRUE]}

\* FalconWrite and WriteFile.  The kernel holds the inode's lock in a write and in
\* a truncate.
DoWrite(x) ==
    /\ AtReq(x, {"write"}) /\ HasFd(x)
    /\ \A y \in Procs \ {x} : ~(Truncates(y) /\ Req(y).path = U(x).path)
    /\ LET i == [Inst(x) EXCEPT !.wrote = TRUE] IN
       \/ \E j \in InstanceOn(i) :
            /\ OpenFileOn(i, j, FALSE)
            /\ SetInst(U(x).fd, [j EXCEPT !.cur = Bigger(@, Req(x).size)]) /\ SetUs(x, Told(U(x), TRUE))
            /\ data' = [data EXCEPT !.len[j.ino] = Bigger(@, Req(x).size), !.at[j.ino] = j.node]
       \/ /\ ClientFault /\ SetInst(U(x).fd, [i EXCEPT !.writeFail = TRUE])
          /\ SetUs(x, Told(U(x), FALSE)) /\ UNCHANGED data
    /\ UNCHANGED <<meta, dir>>

\* A small file that is only read is in the instance's buffer.
FromFile(i) == i.orig >= BigFile \/ ~i.rdonly
DoRead(x) ==
    /\ AtReq(x, {"read"}) /\ HasFd(x)
    /\ \/ /\ FromFile(Inst(x))
          /\ \E j \in InstanceOn(Inst(x)) :
               /\ OpenFileOn(Inst(x), j, FALSE) /\ SetInst(U(x).fd, j) /\ SetUs(x, Told(U(x), TRUE))
               /\ data' = IF j.nodeFail THEN [data EXCEPT !.at[j.ino] = j.node] ELSE data
       \/ ~FromFile(Inst(x)) /\ SetUs(x, Told(U(x), TRUE)) /\ UNCHANGED <<uses, fdt, data>>
       \/ /\ ClientFault /\ UNCHANGED data
          /\ SetInst(U(x).fd, [Inst(x) EXCEPT !.readFail = TRUE]) /\ SetUs(x, Told(U(x), FALSE))
    /\ UNCHANGED <<meta, dir>>

-----------------------------------------------------------------------------
(* Closing: FalconClose, for a flush, a release and an fsync.               *)

IsRelease(x) == Req(x).op = "release"
DeleteOpenInstance(f) ==
    [fdt EXCEPT !.insts = [g \in DOMAIN @ \ {f} |-> @[g]], !.curr = @ - 1]
DoneWith(x, t) == IF IsRelease(x) THEN DeleteOpenInstance(U(x).fd) ELSE t

FalconClose(x) ==
    /\ AtReq(x, {"flush", "release", "fsync", "fdatasync"}) /\ HasFd(x)
    /\ SetUs(x, [U(x) EXCEPT !.size = Inst(x).cur, !.pc = IF Inst(x).opened THEN "tmpclose" ELSE "decide"])
    /\ UNCHANGED <<meta, data, fdt>> /\ Known

\* TmpClose: a flush stores the object under the path of the instance.
TmpClose(x) ==
    /\ At(x, "tmpclose")
    /\ LET i == [Inst(x) EXCEPT !.flushed = TRUE]
           puts == uses.persist /\ i.wrote /\ ~i.writeFail /\ (~IsRelease(x) \/ ~Inst(x).flushed) IN
       \/ /\ data' = IF puts THEN [data EXCEPT !.object[i.path] = [ino |-> i.ino, len |-> data.len[i.ino]]] ELSE data
          /\ SetInst(U(x).fd, i) /\ SetUs(x, [U(x) EXCEPT !.pc = "decide"]) /\ UNCHANGED uses
       \/ /\ ClientFault /\ UNCHANGED data
          /\ fdt' = DoneWith(x, [fdt EXCEPT !.insts[U(x).fd] = [i EXCEPT !.writeFail = TRUE]])
          /\ SetUs(x, Told(U(x), FALSE))
    /\ UNCHANGED <<meta, dir>>

\* Mutant: a file that has gone to another node is told only with a new size.
NothingToTellOfNode(x) ==
    LET i == Inst(x) IN i.readFail \/ i.writeFail \/ Req(x).op = "fdatasync" \/ U(x).size = i.orig
NothingToTell(x) ==
    LET i == Inst(x) IN
    i.readFail \/ i.writeFail \/ Req(x).op = "fdatasync" \/ (~i.nodeFail /\ U(x).size = i.orig)
TellSize(x) ==
    /\ At(x, "decide")
    /\ IF NothingToTell(x) THEN fdt' = DoneWith(x, fdt) /\ SetUs(x, Told(U(x), ~Inst(x).readFail))
       ELSE SetUs(x, [U(x) EXCEPT !.pc = "closemeta"]) /\ UNCHANGED fdt
    /\ UNCHANGED <<meta, data>> /\ Known
CloseMeta(x) ==
    /\ At(x, "closemeta")
    /\ \E c \in Call("close", [path |-> U(x).path, size |-> U(x).size, node |-> Inst(x).node]) :
         CallEnds(c) /\ SetUs(x, [U(x) EXCEPT !.pc = IF c.answer.ok THEN "closed" ELSE "notclosed"])
    /\ UNCHANGED <<data, fdt, dir>>
\* Whatever the answer was, that size is not told again.
Closed(x) ==
    /\ At(x, "closed") \/ At(x, "notclosed")
    /\ fdt' = DoneWith(x, [fdt EXCEPT !.insts[U(x).fd].orig = U(x).size])
    /\ SetUs(x, Told(U(x), At(x, "closed"))) /\ UNCHANGED <<meta, data>> /\ Known

-----------------------------------------------------------------------------
(* FalconTruncate: the instances of the inode one by one, the file, and     *)
(* then a flush and a release of its own instance.                          *)

\* A close has read the size already, or is about to keep the one that it told.
Closing(f) ==
    \E y \in Procs : us[y].fd = f /\ us[y].pc \in {"tmpclose", "decide", "closemeta", "closed", "notclosed"}
TruncateOpenInstance(x) ==
    /\ At(x, "truncset")
    /\ \E f \in U(x).todo :
         /\ SetUs(x, [U(x) EXCEPT !.todo = @ \ {f}])
         /\ \/ /\ fdt' = IF f \notin DOMAIN fdt.insts THEN fdt
                         ELSE [fdt EXCEPT !.insts[f].cur = Req(x).size, !.insts[f].orig = Req(x).size]
               /\ uses' = [uses EXCEPT !.doubt = @ \/ Closing(f)]
            \/ /\ f \in DOMAIN fdt.insts /\ fdt.insts[f].opened /\ UNCHANGED fdt
               /\ uses.faults > 0 /\ uses' = [uses EXCEPT !.faults = @ - 1, !.doubt = TRUE]
    /\ UNCHANGED <<meta, data, dir>>
\* The result of the loop is replaced by the result for the file.
TruncateFile(x) ==
    /\ At(x, "truncset") /\ U(x).todo = {}
    /\ LET own(op) == [Req(x) EXCEPT !.op = op, !.trunc = TRUE]
           i == [Inst(x) EXCEPT !.wrote = TRUE, !.orig = U(x).row.size]
           close == <<own("flush"), own("release")>> \o Tail(U(x).reqs)
           r == [U(x) EXCEPT !.pc = "ready", !.reqs = close] IN
       \/ \E j \in InstanceOn(i) :
            /\ OpenFileOn(i, j, U(x).row.size # meta.rows[Req(x).path].size)
            /\ data' = [data EXCEPT !.len[i.ino] = Req(x).size, !.at[i.ino] = j.node]
            /\ SetInst(U(x).fd, j) /\ SetUs(x, r)
       \/ /\ ClientFault /\ SetInst(U(x).fd, [i EXCEPT !.writeFail = TRUE])
          /\ SetUs(x, [r EXCEPT !.failed = TRUE]) /\ UNCHANGED data
    /\ UNCHANGED <<meta, dir>>

-----------------------------------------------------------------------------
(* Unlink and rename.                                                       *)

\* The FUSE library keeps a file that is open (it renames it instead).
IsOpen(p) == \E y \in Procs : us[y].fd \in DOMAIN fdt.insts /\ us[y].path = p
FalconUnlink(x) ==
    /\ AtReq(x, {"unlink"}) /\ ~IsOpen(Req(x).path) /\ DirectoryFree(x)
    /\ \E c \in Call("unlink", Req(x)) : LET a == c.answer IN
         /\ CallEnds(c)
         /\ SetUs(x, IF a.ok THEN [U(x) EXCEPT !.pc = "deldata", !.row = a.row] ELSE Told(U(x), FALSE))
    /\ UNCHANGED <<data, fdt, dir>>
\* The data; if that fails the request has still succeeded.
DeleteData(x) ==
    /\ At(x, "deldata") /\ SetUs(x, Told(U(x), TRUE))
    /\ \/ data' = [data EXCEPT !.len[U(x).row.ino] = 0, !.object[Req(x).path] = NoObject] /\ UNCHANGED uses
       \/ ClientFault /\ UNCHANGED data
    /\ UNCHANGED <<meta, fdt, dir>>

\* With an object storage the object is copied first (FalconRenamePersist).
DoRename(x) ==
    /\ AtReq(x, {"rename"}) /\ DirectoryFree(x)
    /\ IF uses.persist
       THEN \E c \in Call("open", Req(x)) :
              CallEnds(c) /\ SetUs(x, IF c.answer.ok THEN [U(x) EXCEPT !.pc = "copy"] ELSE Told(U(x), FALSE))
       ELSE SetUs(x, [U(x) EXCEPT !.pc = "rename"]) /\ UNCHANGED <<meta, uses>>
    /\ UNCHANGED <<data, fdt, dir>>
CopyData(x) ==
    /\ At(x, "copy")
    /\ \/ /\ data.object[Req(x).path] # NoObject /\ UNCHANGED uses
          /\ data' = [data EXCEPT !.object[Req(x).dst] = data.object[Req(x).path]]
          /\ SetUs(x, [U(x) EXCEPT !.pc = "rename"])
       \/ /\ data.object[Req(x).path] = NoObject /\ UNCHANGED <<uses, data>> /\ SetUs(x, Told(U(x), FALSE))
       \/ ClientFault /\ SetUs(x, Told(U(x), FALSE)) /\ UNCHANGED data
    /\ UNCHANGED <<meta, fdt, dir>>

\* The path of an open file is the new one from here on, for the kernel.
Follow(q) == [y \in Procs |-> IF us[y].path = q.path THEN [us[y] EXCEPT !.path = q.dst] ELSE us[y]]
FalconRename(x) ==
    /\ At(x, "rename")
    /\ \E c \in Call("rename", Req(x)) : LET ok == c.answer.ok IN
         /\ CallEnds(c)
         /\ us' = [(IF ok THEN Follow(Req(x)) ELSE us) EXCEPT ![x].pc = IF ok THEN "renamed" ELSE "notrenamed"]
    /\ UNCHANGED <<data, fdt, dir>>
\* After the rename the old object goes, and after a failure the new one.
ObjectToDelete(x) == IF At(x, "renamed") THEN Req(x).path ELSE Req(x).dst
DeleteDataAfterRename(x) ==
    /\ At(x, "renamed") \/ At(x, "notrenamed")
    /\ SetUs(x, Told(U(x), At(x, "renamed")))
    /\ IF uses.persist THEN \/ data' = [data EXCEPT !.object[ObjectToDelete(x)] = NoObject] /\ UNCHANGED uses
                            \/ ClientFault /\ UNCHANGED data
       ELSE UNCHANGED <<data, uses>>
    /\ UNCHANGED <<meta, fdt, dir>>

-----------------------------------------------------------------------------
(* Listing a directory: epochs of the entries of all workers.               *)

\* The orders in which the unordered map of the workers to ask may be gone through.
WorkerOrders(d) == SetToSeqs(IF d.begun THEN d.working ELSE DOMAIN Listing)
FalconOpenDir(x) ==
    /\ AtReq(x, {"opendir"})
    /\ \/ dir' = [dir EXCEPT ![x] = [NoDir EXCEPT !.open = TRUE]] /\ SetUs(x, Told(U(x), TRUE)) /\ UNCHANGED uses
       \/ ClientFault /\ SetUs(x, Told(U(x), FALSE)) /\ UNCHANGED dir
    /\ UNCHANGED <<meta, data, fdt>>

Lesser(a, b) == IF a < b THEN a ELSE b
LastRead(d, w, n) == Lesser(d.read[w] + n, Len(Listing[w]))
Got(d, w, n) == SubSeq(Listing[w], d.read[w] + 1, LastRead(d, w, n))
Gathered(d, ws, n) ==
    LET all[k \in 0 .. Len(ws)] == IF k = 0 THEN <<>> ELSE all[k - 1] \o Got(d, ws[k], n) IN all[Len(ws)]
\* An epoch asks the workers ws for n entries each, after those that it has; a
\* worker that gives fewer is finished.  The modes of earlier epochs stay.
Epoch(d, ws, n) ==
    [d EXCEPT !.vec = Gathered(d, ws, n), !.modes = @ \o Gathered(d, ws, n), !.offset = 0, !.begun = TRUE,
              !.read = [w \in DOMAIN @ |-> IF w \in ToSet(ws) THEN LastRead(d, w, n) ELSE @[w]],
              !.working = {w \in ToSet(ws) : Len(Got(d, w, n)) = n}]
\* What the kernel's buffer takes; "." and ".." come first.
Fill(d, room) ==
    LET n == Lesser(Len(d.vec) - d.offset, room) IN
    [d EXCEPT !.offset = @ + n,
              !.listed = @ \o [k \in 1 .. n |-> [name |-> d.vec[d.offset + k], mode |-> d.modes[d.offset + k]]]]

\* The kernel calls until a call gives nothing.
FalconReadDir(x) ==
    /\ AtReq(x, {"readdir"})
    /\ \E ws \in WorkerOrders(dir[x]) :
       LET d == dir[x]
           fetches == d.offset >= Len(d.vec) /\ ws # <<>>
           n == Lesser(PerEpoch \div Len(ws), PerWorker)
           e == Fill(IF fetches THEN Epoch(d, ws, n) ELSE d, IF d.begun THEN FillMax ELSE FillMax - 2)
           ends == d.begun /\ e.listed = d.listed IN
       \/ /\ d.open /\ UNCHANGED uses
          /\ dir' = [dir EXCEPT ![x] = [e EXCEPT !.ended = ends]]
          /\ IF ends THEN SetUs(x, Told(U(x), TRUE)) ELSE UNCHANGED us
       \/ /\ d.open /\ fetches /\ ClientFault
          /\ \E k \in 0 .. Len(ws) - 1 : dir' = [dir EXCEPT ![x] = [Epoch(d, SubSeq(ws, 1, k), n) EXCEPT !.err = TRUE]]
          /\ SetUs(x, Told(U(x), FALSE))
       \/ ~d.open /\ SetUs(x, Told(U(x), FALSE)) /\ UNCHANGED <<uses, dir>>
    /\ UNCHANGED <<meta, data, fdt>>

FalconCloseDir(x) ==
    /\ AtReq(x, {"closedir"})
    /\ SetUs(x, Told(U(x), dir[x].open)) /\ dir' = [dir EXCEPT ![x].open = FALSE]
    /\ UNCHANGED <<uses, meta, data, fdt>>

-----------------------------------------------------------------------------
ProcStep(x) ==
    \/ WaitGetNewOpenInstance(x) \/ NewOpenInstance(x) \/ DoCreate(x) \/ FalconOpen(x) \/ ReadSmallFiles(x)
    \/ AttachFd(x) \/ UnknownFd(x) \/ DoWrite(x) \/ DoRead(x)
    \/ FalconClose(x) \/ TmpClose(x) \/ TellSize(x) \/ CloseMeta(x) \/ Closed(x)
    \/ TruncateOpenInstance(x) \/ TruncateFile(x) \/ FalconUnlink(x) \/ DeleteData(x)
    \/ DoRename(x) \/ CopyData(x) \/ FalconRename(x) \/ DeleteDataAfterRename(x)
    \/ FalconOpenDir(x) \/ FalconReadDir(x) \/ FalconCloseDir(x)
ClientNext == \E x \in Procs : ProcStep(x)
ClientSpec == ClientInit /\ [][ClientNext]_clientVars
ClientFairness == \A x \in Procs : WF_clientVars(ProcStep(x))
ClientEnded == \A x \in Procs : us[x].reqs = <<>>

-----------------------------------------------------------------------------
BeingOpened == {"openmeta", "small", "attach"}
\* currOpenInstance, which limits the open files of a mount, counts the instances
\* that are attached and those that are being opened: no path through FalconOpen,
\* FalconCreate, FalconTruncate and FalconClose, failures included, loses one.
InstancesCounted ==
    fdt.curr = Cardinality(DOMAIN fdt.insts) + Cardinality({x \in Procs : us[x].pc \in BeingOpened})

\* A listing that ends without an error has every entry of every worker once,
\* whatever the sizes of the epochs and of the kernel's buffer are.
ListsOnce ==
    \A x \in Procs : dir[x].ended /\ ~dir[x].err =>
        \A w \in DOMAIN Listing : \A n \in ToSet(Listing[w]) :
            Cardinality({k \in DOMAIN dir[x].listed : dir[x].listed[k].name = n}) = 1

\* What FalconFd keeps of open files and of listings is right.
ClientInv == InstancesCounted /\ ListsOnce

(* The inductive invariants.  A process has the number of its instance       *)
(* alone, and an instance that it is closing or truncating is there.         *)

IsUser(r) == DOMAIN r = {"pc", "reqs", "fd", "path", "row", "size", "todo", "failed"}
UsesFd == {"tmpclose", "decide", "closemeta", "closed", "notclosed", "truncset"}
TableShape ==
    /\ DOMAIN fdt = {"insts", "curr", "next"}
    /\ DOMAIN us = Procs /\ \A x \in Procs : IsUser(us[x])
TableInv ==
    /\ TableShape
    /\ fdt.next \in Nat /\ FirstFd <= fdt.next
    /\ IsFiniteSet(DOMAIN fdt.insts) /\ \A f \in DOMAIN fdt.insts : f \in Nat /\ FirstFd <= f /\ f < fdt.next
    /\ \A x \in Procs : us[x].fd \in Nat /\ us[x].fd < fdt.next
    /\ \A x, y \in Procs : us[x].fd = us[y].fd => x = y \/ us[x].fd = 0
    /\ \A x \in Procs : us[x].pc \in UsesFd => HasFd(x)
    /\ InstancesCounted

(* The entries of a listing are those that were listed and those that wait   *)
(* in partialEntryVec.                                                       *)

EntryNames == UNION {ToSet(Listing[w]) : w \in DOMAIN Listing}
IsDir(d) ==
    DOMAIN d = {"open", "begun", "working", "read", "vec", "modes", "offset", "listed", "ended", "err"}
NamesListed(d) == [k \in DOMAIN d.listed |-> d.listed[k].name]
Entries(d) == NamesListed(d) \o SubSeq(d.vec, d.offset + 1, Len(d.vec))
HasRead(d) == UNION {{Listing[w][j] : j \in 1 .. d.read[w]} : w \in DOMAIN Listing}
DirTyped(d) ==
    /\ d.read \in [DOMAIN Listing -> Nat] /\ \A w \in DOMAIN Listing : d.read[w] <= Len(Listing[w])
    /\ d.vec \in Seq(EntryNames) /\ d.modes \in Seq(EntryNames) /\ Len(d.vec) <= Len(d.modes)
    /\ d.offset \in 0 .. Len(d.vec) /\ d.listed \in Seq([name : EntryNames, mode : EntryNames])
    /\ d.working \subseteq DOMAIN Listing /\ d.begun \in BOOLEAN
\* What was read is in one place, and nothing else is there.
ReadOnce(d) == IsInjective(Entries(d)) /\ ToSet(Entries(d)) = HasRead(d)
AllRead(d) == \A w \in DOMAIN Listing : d.read[w] = Len(Listing[w])
DirKept(d) ==
    /\ DirTyped(d) /\ ReadOnce(d)
    /\ d.begun => \A w \in DOMAIN Listing \ d.working : d.read[w] = Len(Listing[w])
AtItsEnd(d) == d.offset = Len(d.vec) /\ AllRead(d)
ListingInv ==
    /\ DOMAIN dir = Procs /\ \A x \in Procs : IsDir(dir[x])
    /\ \A x \in Procs : ~dir[x].err => DirKept(dir[x]) /\ (dir[x].ended => AtItsEnd(dir[x]))

\* When the users of a mount are done and none was told of a failure, a file's
\* metadata has the size and the node of its data, and its object is its data,
\* though a file has moved to another node, was truncated while it was open, or a
\* metadata call was repeated after it had run.  Not so (doubt) if a truncate met a
\* close of the same file or failed for an open one, or if two users have the file
\* open on two nodes.
FilesKept ==
    (ClientEnded /\ ~uses.doubt /\ \A x \in Procs : ~us[x].failed) =>
        \A p \in PathNames : LET row == meta.rows[p] IN row.ino # NoIno =>
            /\ row.size = data.len[row.ino] /\ row.node = data.at[row.ino]
            /\ uses.persist /\ row.size > 0 => data.object[p] = [ino |-> row.ino, len |-> row.size]
=============================================================================
