------------------------------- MODULE RemoteIO -------------------------------
(***************************************************************************)
(* A file of another store node: opening it with retries and failover      *)
(* (OpenFileFromRemote and connection/node.cpp), the write stream that     *)
(* gathers writes and sends them (write_stream/stream_assembler.cpp), the  *)
(* calls (connection/falcon_io_client.cpp) and what the node does with     *)
(* them (brpc/brpc_main.cpp, buffer/dir_open_instance.cpp).                *)
(*                                                                         *)
(* A call that has timed out is not taken back: the node may serve it      *)
(* later, after the retry.  A node that restarts has forgotten its open    *)
(* instances and numbers new ones from the start again.                    *)
(***************************************************************************)
EXTENDS Integers, Sequences, FiniteSets, SequencesExt

CONSTANTS
    IOUsers,      \* the open instances of the client
    Local, Remote,  \* the client's node, and the nodes it calls
    Scripts,      \* a set of [faults, jobs], faults the calls that time out or fail, and
                  \* crashes, jobs[u] = [inode, node, create, persist, ops]
    Blocks,       \* the blocks of a file, 0 .. n
    BufCap,       \* FALCON_STORE_STREAM_MAX_SIZE, in blocks
    RetryNum      \* BRPC_RETRY_NUM

VARIABLES
    io,           \* the open instances
    net,          \* calls that are on their way or being served
    srv,          \* the nodes: [up, insts (fd -> inode), nextFd, files]
    nodeMap,      \* the nodes the client knows
    faults        \* how many may still happen, and those that have

ioVars == <<io, net, srv, nodeMap, faults>>

StartFd == 3
NoFd == 0
NoData == "-"
Nodes == Remote \cup {Local}
IOOps == [op : {"push", "read", "trunc", "small", "flush", "close", "delete", "stat"}, off : Nat, vals : Seq(STRING)]
\* The last thing that is done with an instance is its close, unless nothing is that opens it.
ClosesLast(ops) == \A k \in DOMAIN ops : ops[k].op = "close" <=> k = Len(ops)
NeverOpens(ops) == \A k \in DOMAIN ops : ops[k].op \in {"small", "delete", "stat"}
ASSUME IOAssumptions ==
    /\ Local \notin Remote
    /\ \A s \in Scripts : /\ s.faults \in Nat
                          /\ \A u \in IOUsers : LET j == s.jobs[u] IN
                               j.node \in Nodes /\ j.ops \in Seq(IOOps) /\ (ClosesLast(j.ops) \/ NeverOpens(j.ops))

Inos == UNION {{s.jobs[u].inode : u \in IOUsers} : s \in Scripts}
Call0 == [kind |-> "none", node |-> Local, fd |-> NoFd, ino |-> CHOOSE i \in Inos : TRUE,
          off |-> 0, vals |-> <<>>, flush |-> FALSE]

IOInit ==
    /\ \E s \in Scripts :
       /\ faults = [left |-> s.faults, timeouts |-> 0, errors |-> 0, crashes |-> 0]
       /\ io = [u \in IOUsers |->
        [pc |-> "ready", ino |-> s.jobs[u].inode, node |-> s.jobs[u].node, create |-> s.jobs[u].create,
         persist |-> s.jobs[u].persist, ops |-> s.jobs[u].ops, fd |-> NoFd, client |-> Local, opened |-> FALSE,
         flushed |-> FALSE, nodeFail |-> FALSE, off |-> 0, data |-> <<>>,
         call |-> Call0, seq |-> 0, reply |-> "none", answer |-> NoFd, got |-> NoData,
         tries |-> 0, loops |-> 0, todo |-> {}, ret |-> "ok", failed |-> FALSE, filled |-> FALSE, remoteFailed |-> FALSE,
         pushed |-> [b \in Blocks |-> <<>>], want |-> <<>>, mark |-> "none"]]
    /\ net = {}
    /\ srv = [n \in Nodes |-> [up |-> TRUE, insts |-> <<>>, nextFd |-> StartFd,
                               files |-> [i \in Inos |-> [b \in Blocks |-> NoData]]]]
    /\ nodeMap = Nodes

-----------------------------------------------------------------------------
(* The client's side of a call.                                             *)

R(u) == io[u]
Op(u) == Head(R(u).ops)
IOAt(u, pc) == R(u).pc = pc
AtOp(u, ops) == IOAt(u, "ready") /\ R(u).ops # <<>> /\ Op(u).op \in ops
SetIO(u, r) == io' = [io EXCEPT ![u] = r]
NextOp(r) == [r EXCEPT !.pc = "ready", !.ops = Tail(@)]
Fails(r, code) == [NextOp(r) EXCEPT !.ret = code, !.failed = TRUE]
Same == UNCHANGED <<net, srv, nodeMap, faults>>

Fault(kind) == faults.left > 0 /\ faults' = [faults EXCEPT !.left = @ - 1, ![kind] = @ + 1]

\* A stub's call: the request leaves and its caller waits.
CallOf(u, c) == [c EXCEPT !.node = R(u).node, !.fd = R(u).fd, !.ino = R(u).ino]
Send(u, r, c, to) ==
    /\ SetIO(u, [r EXCEPT !.pc = to, !.call = c, !.seq = @ + 1, !.reply = "none"])
    /\ net' = net \cup {[by |-> u, seq |-> R(u).seq + 1, call |-> c, found |-> FALSE]}
    /\ UNCHANGED <<srv, nodeMap, faults>>
Waits(u) == R(u).pc \in {"opening", "writing", "closing", "reading", "truncating", "deleting", "asking"}
Answered(u, pc) == IOAt(u, pc) /\ R(u).reply # "none"

\* brpc gives up after its timeout, or cannot reach the node.
TimeOut(u) ==
    /\ Waits(u) /\ R(u).reply = "none"
    /\ SetIO(u, [R(u) EXCEPT !.reply = "ETIMEDOUT"])
    /\ Fault("timeouts") /\ UNCHANGED <<net, srv, nodeMap>>
Unreachable(u) ==
    /\ Waits(u) /\ R(u).reply = "none" /\ ~srv[R(u).call.node].up
    /\ SetIO(u, [R(u) EXCEPT !.reply = "EFAULT"]) /\ Same

-----------------------------------------------------------------------------
(* The node's side.                                                         *)

Fds(n) == DOMAIN srv[n].insts
Files(n, i, off, vals) ==
    [srv[n].files EXCEPT ![i] = [b \in Blocks |-> IF b - off + 1 \in DOMAIN vals
                                                  THEN vals[b - off + 1] ELSE @[b]]]
Without(f, x) == [y \in DOMAIN f \ {x} |-> f[y]]

\* The answer of a call that is not waited for any more is dropped.
Reply(q, code, fd, got) ==
    io' = IF io[q.by].seq = q.seq /\ io[q.by].reply = "none"
          THEN [io EXCEPT ![q.by].reply = code, ![q.by].answer = fd, ![q.by].got = got] ELSE io
Served(q) == net' = net \ {q} /\ UNCHANGED nodeMap
ByFd == {"write", "close", "read", "truncopen", "trunc"}

ServeOpenFile(q) ==
    LET n == q.call.node IN
    /\ q.call.kind = "open" /\ srv[n].up
    /\ srv' = [srv EXCEPT ![n].insts = [f \in DOMAIN @ \cup {srv[n].nextFd} |->
                                            IF f = srv[n].nextFd THEN q.call.ino ELSE @[f]],
                          ![n].nextFd = @ + 1]
    /\ Reply(q, "ok", srv[n].nextFd, NoData) /\ Served(q) /\ UNCHANGED faults

\* GetOpenInstanceByFd, before the instance's closeMutex is taken.
GetOpenInstanceByFd(q) ==
    LET n == q.call.node IN
    /\ q.call.kind \in ByFd /\ srv[n].up /\ ~q.found
    /\ IF q.call.fd \in Fds(n)
       THEN net' = (net \ {q}) \cup {[q EXCEPT !.found = TRUE]} /\ UNCHANGED <<io, nodeMap>>
       ELSE Reply(q, "EBADF", NoFd, NoData) /\ Served(q)
    /\ UNCHANGED <<srv, faults>>

Opened(q, kind) == q.call.kind = kind /\ q.found /\ srv[q.call.node].up
Target(q) == srv[q.call.node].insts[q.call.fd]
\* isClosed: the instance was closed by another call since it was found.
IsClosed(q) ==
    /\ q.found /\ srv[q.call.node].up /\ q.call.fd \notin Fds(q.call.node)
    /\ Reply(q, "ETIMEDOUT", NoFd, NoData) /\ Served(q) /\ UNCHANGED <<srv, faults>>

ServeWriteFile(q) ==
    LET n == q.call.node IN
    /\ Opened(q, "write") /\ q.call.fd \in Fds(n)
    /\ srv' = [srv EXCEPT ![n].files = Files(n, Target(q), q.call.off, q.call.vals)]
    /\ Reply(q, "ok", NoFd, NoData) /\ Served(q) /\ UNCHANGED faults

ServeCloseFile(q) ==
    LET n == q.call.node IN
    /\ Opened(q, "close") /\ q.call.fd \in Fds(n)
    /\ srv' = [srv EXCEPT ![n].files = Files(n, Target(q), q.call.off, q.call.vals),
                          ![n].insts = IF q.call.flush THEN @ ELSE Without(@, q.call.fd)]
    /\ Reply(q, "ok", NoFd, NoData) /\ Served(q) /\ UNCHANGED faults

ServeReadFile(q) ==
    /\ Opened(q, "read") /\ q.call.fd \in Fds(q.call.node)
    /\ Reply(q, "ok", NoFd, srv[q.call.node].files[Target(q)][q.call.off])
    /\ Served(q) /\ UNCHANGED <<srv, faults>>

\* Of the instance, whose size is not followed here, and of the file.
ServeTruncateOpenInstance(q) ==
    /\ Opened(q, "truncopen") /\ q.call.fd \in Fds(q.call.node)
    /\ Reply(q, "ok", NoFd, NoData) /\ Served(q) /\ UNCHANGED <<srv, faults>>
ServeTruncateFile(q) ==
    LET n == q.call.node IN
    /\ Opened(q, "trunc") /\ q.call.fd \in Fds(n)
    /\ srv' = [srv EXCEPT ![n].files[Target(q)] = [b \in Blocks |-> NoData]]
    /\ Reply(q, "ok", NoFd, NoData) /\ Served(q) /\ UNCHANGED faults

ServeReadSmallFile(q) ==
    LET n == q.call.node IN
    /\ q.call.kind = "small" /\ srv[n].up
    /\ Reply(q, "ok", NoFd, srv[n].files[q.call.ino][0]) /\ Served(q) /\ UNCHANGED <<srv, faults>>

ServeDeleteFile(q) ==
    LET n == q.call.node IN
    /\ q.call.kind = "delete" /\ srv[n].up
    /\ srv' = [srv EXCEPT ![n].files[q.call.ino] = [b \in Blocks |-> NoData]]
    /\ Reply(q, "ok", NoFd, NoData) /\ Served(q) /\ UNCHANGED faults

ServeStatFS(q) ==
    /\ q.call.kind = "stat" /\ srv[q.call.node].up
    /\ Reply(q, "ok", NoFd, NoData) /\ Served(q) /\ UNCHANGED <<srv, faults>>

\* The store behind the handler answers with an error, and nothing has changed.
ServeFails(q) ==
    /\ srv[q.call.node].up /\ (q.call.kind \in ByFd => q.found)
    /\ Fault("errors") /\ Reply(q, "EIO", NoFd, NoData) /\ Served(q) /\ UNCHANGED srv

Serve(q) ==
    \/ ServeOpenFile(q) \/ GetOpenInstanceByFd(q) \/ IsClosed(q) \/ ServeWriteFile(q) \/ ServeCloseFile(q)
    \/ ServeReadFile(q) \/ ServeTruncateOpenInstance(q) \/ ServeTruncateFile(q) \/ ServeReadSmallFile(q)
    \/ ServeDeleteFile(q) \/ ServeStatFS(q) \/ ServeFails(q)

\* The sockets of a node that dies are closed: its callers learn of it.
Crash(n) ==
    /\ srv[n].up /\ Fault("crashes")
    /\ srv' = [srv EXCEPT ![n].up = FALSE, ![n].insts = <<>>]
    /\ net' = {q \in net : q.call.node # n}
    /\ io' = [u \in IOUsers |-> IF Waits(u) /\ R(u).reply = "none" /\ R(u).call.node = n
                                THEN [R(u) EXCEPT !.reply = "EFAULT"] ELSE R(u)]
    /\ UNCHANGED nodeMap
Restart(n) ==
    /\ ~srv[n].up /\ srv' = [srv EXCEPT ![n].up = TRUE, ![n].nextFd = StartFd]
    /\ UNCHANGED <<io, net, nodeMap, faults>>

\* The thread that fetches the cluster's view, whenever it does.  The view lists
\* the nodes that are up; what the client knows in between may be old.
UpdateNodeConfigByValue ==
    /\ nodeMap' = {Local} \cup {n \in Remote : srv[n].up} /\ nodeMap' # nodeMap
    /\ UNCHANGED <<io, net, srv, faults>>

-----------------------------------------------------------------------------
(* Opening.                                                                 *)

Small(u) == Op(u).op = "small"

\* WriteFile, ReadFile and TruncateFile open the instance when they need it.
OpenFile(u) ==
    /\ AtOp(u, {"push", "read", "trunc", "small"}) /\ ~R(u).opened
    /\ IF R(u).node = Local
       THEN SetIO(u, IF Small(u) THEN NextOp([R(u) EXCEPT !.filled = TRUE]) ELSE [R(u) EXCEPT !.opened = TRUE])
       ELSE SetIO(u, [R(u) EXCEPT !.pc = "loop", !.loops = Cardinality(nodeMap), !.tries = RetryNum,
                                  !.ret = "EHOSTUNREACH"])
    /\ Same

ConnectionError(code) == code \in {"ETIMEDOUT", "EFAULT", "EHOSTUNREACH"}

\* OpenFileFromRemote: one turn of its loop, up to the call.
OpenFileFromRemote(u) ==
    /\ IOAt(u, "loop")
    /\ \/ /\ R(u).loops > 0 /\ R(u).tries > 0 /\ R(u).node \in nodeMap
          /\ Send(u, R(u), CallOf(u, [Call0 EXCEPT !.kind = IF Small(u) THEN "small" ELSE "open"]), "opening")
       \/ /\ R(u).loops > 0 /\ R(u).tries > 0 /\ R(u).node \notin nodeMap
          /\ SetIO(u, [R(u) EXCEPT !.pc = "turn"]) /\ Same
       \/ /\ R(u).loops = 0 \/ R(u).tries = 0
          /\ SetIO(u, [R(u) EXCEPT !.pc = "opened"]) /\ Same

OpenReturns(u) ==
    /\ Answered(u, "opening")
    /\ SetIO(u, [R(u) EXCEPT !.pc = IF ConnectionError(R(u).reply) THEN "turn" ELSE "opened",
                             !.ret = R(u).reply,
                             !.fd = IF R(u).reply = "ok" /\ ~Small(u) THEN R(u).answer ELSE @])
    /\ Same

\* A connection error: the same node again after a timeout, another one after
\* any other error.  When that is this node the file is opened here.
SwitchNode(u) ==
    /\ IOAt(u, "turn")
    /\ LET r == [R(u) EXCEPT !.loops = @ - 1] IN
       \/ /\ r.ret = "ETIMEDOUT" /\ SetIO(u, [r EXCEPT !.pc = "loop", !.tries = @ - 1]) /\ UNCHANGED nodeMap
       \/ /\ r.ret # "ETIMEDOUT" /\ nodeMap' = nodeMap \ {r.node}
          /\ IF ~r.persist /\ ~r.create THEN SetIO(u, [r EXCEPT !.pc = "opened"])
             ELSE \E n \in (IF nodeMap' = {} THEN {Local} ELSE nodeMap') :
                    LET moved == [r EXCEPT !.node = n, !.nodeFail = TRUE, !.pc = "loop"] IN
                    SetIO(u, IF n # Local THEN moved
                             ELSE IF Small(u) THEN NextOp([moved EXCEPT !.ret = "ok"])
                             ELSE [moved EXCEPT !.opened = TRUE, !.ret = "ok", !.pc = "ready"])
    /\ UNCHANGED <<net, srv, faults>>

\* The end of OpenFileFromRemote.  Small files are read from the storage then.
RemoteOpened(u) ==
    /\ IOAt(u, "opened")
    /\ SetIO(u, IF R(u).ret = "ok"
                THEN IF Small(u) THEN NextOp([R(u) EXCEPT !.filled = TRUE])
                     ELSE [R(u) EXCEPT !.pc = "ready", !.opened = TRUE, !.client = R(u).node]
                ELSE IF Small(u) /\ R(u).persist THEN NextOp([R(u) EXCEPT !.filled = TRUE, !.ret = "ok"])
                ELSE Fails(R(u), R(u).ret))
    /\ Same

-----------------------------------------------------------------------------
(* Writing.                                                                 *)

Remotely(u) == R(u).client # Local
End(r) == IF r.data = <<>> THEN 0 ELSE r.off + Len(r.data)
Pushes(r, off, vals) ==
    [b \in Blocks |-> IF b - off + 1 \in DOMAIN vals THEN Append(r.pushed[b], vals[b - off + 1])
                      ELSE r.pushed[b]]
PushDone(r, o) == [NextOp(r) EXCEPT !.pushed = Pushes(r, o.off, o.vals)]
WriteCall(u, off, vals) == CallOf(u, [Call0 EXCEPT !.kind = "write", !.off = off, !.vals = vals])

\* Mutant: data that does not follow the buffered data is appended to it.
MustPersistWhenFull(r, o) ==
    r.data # <<>> /\ (Len(o.vals) >= BufCap \/ Len(r.data) + Len(o.vals) > BufCap)

MustPersist(r, o) ==
    r.data # <<>> /\ (End(r) # o.off \/ Len(o.vals) >= BufCap \/ Len(r.data) + Len(o.vals) > BufCap)

\* WriteStream::Push: the buffer goes first when the data does not follow it or
\* does not fit; then large data goes by itself, and other data to the buffer.
Push(u) ==
    /\ AtOp(u, {"push"}) /\ R(u).opened
    /\ LET r == R(u)
           o == Op(u) IN
       \/ /\ ~Remotely(u) /\ SetIO(u, PushDone(r, o))
          /\ srv' = [srv EXCEPT ![Local].files = Files(Local, r.ino, o.off, o.vals)]
          /\ UNCHANGED <<net, nodeMap, faults>>
       \/ /\ Remotely(u) /\ MustPersist(r, o)
          /\ Send(u, [r EXCEPT !.mark = "persist", !.tries = RetryNum], WriteCall(u, r.off, r.data), "writing")
       \/ /\ Remotely(u) /\ ~MustPersist(r, o) /\ Len(o.vals) >= BufCap
          /\ Send(u, [r EXCEPT !.mark = "large", !.tries = RetryNum], WriteCall(u, o.off, o.vals), "writing")
       \/ /\ Remotely(u) /\ ~MustPersist(r, o) /\ Len(o.vals) < BufCap
          /\ SetIO(u, PushDone([r EXCEPT !.off = IF r.data = <<>> THEN o.off ELSE @,
                                         !.data = @ \o o.vals], o)) /\ Same

Again(r) == r.reply = "ETIMEDOUT" /\ r.tries > 1

\* PersistToFile: a write is tried again when it has timed out.
WriteReturns(u) ==
    /\ Answered(u, "writing")
    /\ LET r == R(u)
           gone == IF r.mark = "persist" THEN [r EXCEPT !.data = <<>>] ELSE r IN
       \/ Again(r) /\ Send(u, [r EXCEPT !.tries = @ - 1], r.call, "writing")
       \/ /\ ~Again(r) /\ Same
          /\ SetIO(u, IF r.reply # "ok" THEN Fails(gone, r.reply)
                      ELSE IF r.mark = "persist" THEN [gone EXCEPT !.pc = "ready"]
                      ELSE PushDone(r, Op(u)))

\* WriteStream::Complete: the buffer goes with the call that flushes or closes,
\* and only then is that call tried again.
Complete(u, r, flush) ==
    Send(u, [r EXCEPT !.tries = RetryNum],
         CallOf(u, [Call0 EXCEPT !.kind = "close", !.flush = flush, !.off = r.off, !.vals = r.data]), "closing")

\* CloseTmpFiles, for a flush and for a close, which flushes first when no
\* flush has come before.  Without a descriptor there is nothing to do.
CloseTmpFiles(u) ==
    /\ AtOp(u, {"flush", "close"})
    /\ IF ~R(u).opened \/ ~Remotely(u) THEN SetIO(u, NextOp(R(u))) /\ Same
       ELSE Complete(u, [R(u) EXCEPT !.flushed = TRUE], Op(u).op = "flush" \/ ~R(u).flushed)

\* Mutant: the flush is taken for the close.
NothingMore(r, o) == FALSE

ClosesNow(r, o) == o.op # "flush" /\ r.call.flush
CompleteReturns(u) ==
    /\ Answered(u, "closing")
    /\ LET r == R(u)
           gone == [r EXCEPT !.data = <<>>] IN
       \/ Again(r) /\ r.call.vals # <<>> /\ Send(u, [r EXCEPT !.tries = @ - 1], r.call, "closing")
       \/ /\ ~(Again(r) /\ r.call.vals # <<>>) /\ Same
          /\ SetIO(u, IF ClosesNow(r, Op(u)) /\ (r.reply = "ok" \/ Op(u).op = "close")
                      THEN [gone EXCEPT !.pc = "ready", !.failed = @ \/ r.reply # "ok"]
                      ELSE IF r.reply # "ok" THEN Fails(gone, r.reply) ELSE NextOp(gone))

-----------------------------------------------------------------------------
(* Reading, truncating, deleting, asking for the space.                      *)

Buffered(u) == R(u).data # <<>>
CompleteFirst(u) ==
    /\ AtOp(u, {"read", "trunc"}) /\ R(u).opened /\ Remotely(u) /\ Buffered(u)
    /\ Complete(u, R(u), TRUE)

\* remoteFailed: once a read has failed there is no call any more.
CanCall(u) == ~R(u).remoteFailed /\ R(u).node \in nodeMap

\* A read that fails here is answered from the storage, or fails.
ReadElsewhere(r) == IF r.persist THEN NextOp(r) ELSE Fails(r, "EIO")

ReadFileLR(u) ==
    /\ AtOp(u, {"read"}) /\ R(u).opened /\ ~Buffered(u)
    /\ LET r == R(u) IN
       \/ /\ Remotely(u) /\ CanCall(u)
          /\ Send(u, [r EXCEPT !.tries = RetryNum],
                  CallOf(u, [Call0 EXCEPT !.kind = "read", !.off = Op(u).off]), "reading")
       \/ /\ Remotely(u) /\ ~CanCall(u)
          /\ SetIO(u, ReadElsewhere([r EXCEPT !.remoteFailed = TRUE])) /\ Same
       \/ /\ ~Remotely(u) /\ Same
          /\ SetIO(u, NextOp([r EXCEPT !.got = srv[Local].files[r.ino][Op(u).off], !.want = r.pushed[Op(u).off]]))

ReadAnswered(u) ==
    /\ Answered(u, "reading")
    /\ LET r == R(u) IN
       \/ Again(r) /\ Send(u, [r EXCEPT !.tries = @ - 1], r.call, "reading")
       \/ /\ ~Again(r) /\ Same
          /\ SetIO(u, IF r.reply = "ok" THEN NextOp([r EXCEPT !.want = r.pushed[Op(u).off]])
                      ELSE ReadElsewhere([r EXCEPT !.remoteFailed = TRUE]))

\* FalconTruncate, to nothing: the instance and then the file.
Truncate(u) ==
    /\ AtOp(u, {"trunc"}) /\ R(u).opened /\ ~Buffered(u)
    /\ IF Remotely(u) THEN Send(u, R(u), CallOf(u, [Call0 EXCEPT !.kind = "truncopen"]), "truncating")
       ELSE /\ SetIO(u, NextOp([R(u) EXCEPT !.pushed = [b \in Blocks |-> <<>>]]))
            /\ srv' = [srv EXCEPT ![Local].files[R(u).ino] = [b \in Blocks |-> NoData]]
            /\ UNCHANGED <<net, nodeMap, faults>>
TruncateReturns(u) ==
    /\ Answered(u, "truncating")
    /\ \/ R(u).reply = "ok" /\ R(u).call.kind = "truncopen"
          /\ Send(u, R(u), [R(u).call EXCEPT !.kind = "trunc"], "truncating")
       \/ /\ ~(R(u).reply = "ok" /\ R(u).call.kind = "truncopen") /\ Same
          /\ SetIO(u, IF R(u).reply # "ok" THEN Fails(R(u), R(u).reply)
                      ELSE NextOp([R(u) EXCEPT !.pushed = [b \in Blocks |-> <<>>]]))

DeleteFiles(u) ==
    /\ AtOp(u, {"delete"})
    /\ IF R(u).node \in nodeMap THEN Send(u, R(u), CallOf(u, [Call0 EXCEPT !.kind = "delete"]), "deleting")
       ELSE SetIO(u, Fails(R(u), "EHOSTUNREACH")) /\ Same
DeleteReturns(u) ==
    /\ Answered(u, "deleting") /\ Same
    /\ SetIO(u, IF R(u).reply = "ok" \/ R(u).persist THEN NextOp(R(u)) ELSE Fails(R(u), R(u).reply))

\* StatFS (and StatCluster): every other node in turn; a call that fails is
\* passed over, a node that is gone ends it.
StatFS(u) ==
    /\ AtOp(u, {"stat"})
    /\ SetIO(u, [R(u) EXCEPT !.pc = "stat", !.todo = nodeMap \ {Local}]) /\ Same
StatNode(u) ==
    /\ IOAt(u, "stat")
    /\ \/ R(u).todo = {} /\ SetIO(u, NextOp(R(u))) /\ Same
       \/ \E n \in R(u).todo :
            LET r == [R(u) EXCEPT !.todo = @ \ {n}] IN
            IF n \in nodeMap THEN Send(u, r, [Call0 EXCEPT !.kind = "stat", !.node = n], "asking")
            ELSE SetIO(u, Fails(r, "EHOSTUNREACH")) /\ Same
StatReturns(u) == Answered(u, "asking") /\ SetIO(u, [R(u) EXCEPT !.pc = "stat"]) /\ Same

-----------------------------------------------------------------------------
ClientStep(u) ==
    \/ OpenFile(u) \/ OpenFileFromRemote(u) \/ OpenReturns(u) \/ SwitchNode(u) \/ RemoteOpened(u)
    \/ Push(u) \/ WriteReturns(u) \/ CloseTmpFiles(u) \/ CompleteReturns(u)
    \/ CompleteFirst(u) \/ ReadFileLR(u) \/ ReadAnswered(u) \/ Truncate(u) \/ TruncateReturns(u)
    \/ DeleteFiles(u) \/ DeleteReturns(u) \/ StatFS(u) \/ StatNode(u) \/ StatReturns(u)

IONext ==
    \/ \E u \in IOUsers : ClientStep(u) \/ TimeOut(u) \/ Unreachable(u)
    \/ \E q \in net : Serve(q)
    \/ \E n \in Remote : Crash(n) \/ Restart(n)
    \/ UpdateNodeConfigByValue

IOSpec == IOInit /\ [][IONext]_ioVars

\* The client's threads run, brpc ends every call by an answer, an error or its
\* timer, and nodes serve what they are sent.
IOFairness ==
    /\ \A u \in IOUsers : WF_ioVars(ClientStep(u)) /\ WF_ioVars(Unreachable(u))
    /\ WF_ioVars(\E q \in net : Serve(q))

-----------------------------------------------------------------------------
Finished(u) == IOAt(u, "ready") /\ R(u).ops = <<>>
NoRestart == faults.crashes = 0

\* What the writer was told is in the file: after a flush or a close without an
\* error the file holds the last write to each block, though writes go through
\* the buffer, are merged, retried, and served twice or late.  (A write that has
\* timed out may be served after a newer one to the same block.)
FlushedIsWritten ==
    \A u \in IOUsers : Finished(u) /\ R(u).opened /\ ~R(u).failed /\ NoRestart =>
        \A b \in Blocks : R(u).pushed[b] # <<>> =>
            LET held == srv[R(u).client].files[R(u).ino][b] IN
            IF faults.timeouts = 0 THEN held = Last(R(u).pushed[b])
            ELSE \E k \in DOMAIN R(u).pushed[b] : held = R(u).pushed[b][k]

\* A reader sees its own buffered writes (ReadFile completes them first).
ReadsOwnWrites ==
    \A u \in IOUsers : R(u).got # NoData /\ R(u).want # <<>> /\ faults.timeouts = 0 /\ NoRestart =>
        R(u).got = Last(R(u).want)

\* No write is lost or hidden on the way: neither from a flush or a close nor from
\* a read of the same instance.
WritesKept == FlushedIsWritten /\ ReadsOwnWrites

IOEnded == \A u \in IOUsers : Finished(u)

\* Nodes keep no open instance, and no pin of its file, when all have closed, as
\* long as every call was answered: a close is never lost on an error path.
InstancesClosed ==
    IOEnded /\ faults.timeouts + faults.errors + faults.crashes = 0 => \A n \in Remote : Fds(n) = {}

-----------------------------------------------------------------------------
(* Why instances are closed.                                                *)

IOFields ==
    {"pc", "ino", "node", "create", "persist", "ops", "fd", "client", "opened", "flushed", "nodeFail", "off", "data",
     "call", "seq", "reply", "answer", "got", "tries", "loops", "todo", "ret", "failed", "filled", "remoteFailed",
     "pushed", "want", "mark"}
NodeFields == {"up", "insts", "nextFd", "files"}
CallFields == {"kind", "node", "fd", "ino", "off", "vals", "flush"}
IsRecord(r, fields) == r = [k \in fields |-> r[k]]

Waiting == {"opening", "writing", "closing", "reading", "truncating", "deleting", "asking"}
Opening == {"loop", "opening", "turn", "opened"}

\* Whose the number f of node n is: somebody's who has still to close it, or to
\* learn it.
Owns(r, n, f) ==
    \/ r.opened /\ r.client = n /\ r.fd = f /\ r.ops # <<>>
    \/ r.pc = "opening" /\ r.reply = "ok" /\ r.call.kind = "open" /\ r.call.node = n /\ r.answer = f
    \/ r.pc = "opened" /\ r.ret = "ok" /\ Head(r.ops).op # "small" /\ r.node = n /\ r.fd = f

Given(S, n, f) == f \in Nat /\ f < S[n].nextFd   \* a number that the node has given already

UserBase(r, S) ==
    /\ IsRecord(r, IOFields) /\ IsRecord(r.call, CallFields)
    /\ r.node \in Nodes /\ r.client \in Nodes /\ r.todo \subseteq Nodes
    /\ r.ops \in Seq(IOOps) /\ (ClosesLast(r.ops) \/ (NeverOpens(r.ops) /\ ~r.opened))
    /\ IF r.opened THEN r.client # Local => r.client = r.node /\ Given(S, r.client, r.fd) ELSE r.client = Local
UserAt(r, S) ==
    /\ r.pc # "ready" => r.ops # <<>>
    /\ r.pc \in Waiting => r.call.node \in Nodes /\ (r.call.kind = "open" => r.pc = "opening")
    /\ r.pc \in Opening => ~r.opened /\ Head(r.ops).op \in {"push", "read", "trunc", "small"}
    /\ r.pc \in {"loop", "turn"} => r.ret # "ok"
    /\ r.pc \in {"writing", "reading", "truncating", "deleting", "asking", "stat"} => Head(r.ops).op # "close"
    /\ r.pc = "opening" => /\ r.call.kind = (IF Head(r.ops).op = "small" THEN "small" ELSE "open")
                           /\ r.call.node = r.node
                           /\ r.reply = "ok" /\ r.call.kind = "open" => Given(S, r.node, r.answer)
    /\ r.pc = "opened" /\ r.ret = "ok" /\ Head(r.ops).op # "small" => Given(S, r.node, r.fd)
    /\ r.pc = "closing" =>
         /\ r.opened /\ r.client # Local
         /\ r.call.kind = "close" /\ r.call.node = r.client /\ r.call.fd = r.fd
         /\ ~r.call.flush => Head(r.ops).op = "close"
         /\ ~r.call.flush /\ r.reply # "none" => r.fd \notin DOMAIN S[r.client].insts
UserSound(r, S) == UserBase(r, S) /\ UserAt(r, S)

NodesSound ==
    /\ \A n \in Nodes : IsRecord(srv[n], NodeFields) /\ srv[n].up
    /\ \A n \in Nodes : srv[n].nextFd \in Nat /\ \A f \in Fds(n) : Given(srv, n, f)
    /\ srv = [n \in Nodes |-> srv[n]] /\ nodeMap \subseteq Nodes

\* A call that is on its way is the one its caller waits for.
NetSound ==
    /\ \A q \in net :
         /\ q = [by |-> q.by, seq |-> q.seq, call |-> q.call, found |-> q.found]
         /\ q.by \in IOUsers /\ R(q.by).pc \in Waiting /\ R(q.by).reply = "none"
         /\ q.seq = R(q.by).seq /\ q.call = R(q.by).call
    /\ \A p, q \in net : p.by = q.by => p = q

Owned == \A n \in Remote : \A f \in Fds(n) : \E u \in IOUsers : Owns(R(u), n, f)

IOClean == faults.timeouts = 0 /\ faults.errors = 0 /\ faults.crashes = 0
IOSound ==
    /\ io = [u \in IOUsers |-> R(u)] /\ (\A u \in IOUsers : UserSound(R(u), srv))
    /\ NodesSound /\ NetSound /\ Owned
IOInv ==
    /\ faults \in [left : Nat, timeouts : Nat, errors : Nat, crashes : Nat]
    /\ IOClean => IOSound
=============================================================================
