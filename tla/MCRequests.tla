------------------------------ MODULE MCRequests ------------------------------
(***************************************************************************)
(* What a client's request meets on its way, for TLC: the route of a       *)
(* metadata call (Router), the connection pool of the server it comes to   *)
(* (MetaPool), the reads and writes of a remote file (RemoteIO), and above *)
(* them the requests of a mount (Client).  The four share nothing.  In an  *)
(* initial state one of them has work and the others have none, so that    *)
(* the run is the sum of the four and not their product.                   *)
(***************************************************************************)
EXTENDS RemoteIO, Router, MetaPool, Client

(* Two client threads, and what may fail over in the meantime. *)
Plan(c, d, moves, shard) == [calls |-> [r |-> c, s |-> d], moves |-> moves, shard |-> shard]
NoPlan == Plan("none", "none", {}, FALSE)
MCPlans ==
    {Plan("file", "file", {0}, FALSE), Plan("file", "file", {1}, FALSE), Plan("file", "none", {0, 1}, FALSE),
     Plan("file", "none", {1}, TRUE), Plan("dir", "none", {0, 1}, FALSE), Plan("dir", "dir", {0}, FALSE),
     Plan("dir", "dir", {1}, FALSE), Plan("dir", "file", {0}, FALSE), Plan("dir", "file", {1}, FALSE), NoPlan}

(* The calls a server gets, its shared memory, errors, and a SIGTERM. *)
Metas(batch, types) == [types |-> types, batch |-> batch]
Workload(pages, errs, stop, calls) == [pages |-> pages, errors |-> errs, stop |-> stop, calls |-> calls]
NoWork == Workload(1, 0, FALSE, <<>>)
MCWorkloads ==
    {Workload(2, 0, FALSE, <<Metas(TRUE, <<"stat">>), Metas(TRUE, <<"stat">>), Metas(TRUE, <<"stat">>)>>),
     Workload(4, 0, FALSE, <<Metas(TRUE, <<"stat">>), Metas(FALSE, <<"rename">>), Metas(TRUE, <<"open", "open">>)>>),
     Workload(1, 0, FALSE, <<Metas(TRUE, <<"stat">>), Metas(FALSE, <<"rename">>)>>),
     Workload(2, 1, FALSE, <<Metas(TRUE, <<"stat">>), Metas(FALSE, <<"rename", "rename">>)>>),
     Workload(2, 0, FALSE, <<Metas(FALSE, <<"plain">>), Metas(FALSE, <<>>), Metas(FALSE, <<"plain", "plain">>)>>),
     Workload(2, 0, FALSE, <<Metas(TRUE, <<"unlink", "unlink", "unlink">>)>>),
     Workload(2, 0, TRUE, <<Metas(FALSE, <<"chmod", "chmod">>), Metas(TRUE, <<"close">>)>>), NoWork}

(* What two users do with their files, and how many faults there are. *)
P(off, vals) == [op |-> "push", off |-> off, vals |-> vals]
O(op, off) == [op |-> op, off |-> off, vals |-> <<>>]
Script(i, n, create, persist, ops) == [inode |-> i, node |-> n, create |-> create, persist |-> persist, ops |-> ops]
Idle == Script("g", 1, FALSE, TRUE, <<>>)
Users(limit, ju, jv) == [faults |-> limit, jobs |-> [u |-> ju, v |-> jv]]
NoUsers == Users(0, Idle, Idle)
MCScripts ==
    {Users(1, Script("f", 1, TRUE, TRUE, <<P(0, <<"a">>), P(1, <<"b">>), P(0, <<"c">>), O("read", 0),
                                           P(0, <<"d", "e">>), O("flush", 0), O("close", 0)>>), Idle),
     Users(2, Script("f", 1, TRUE, FALSE, <<P(1, <<"a">>), P(0, <<"b">>), O("close", 0)>>), Idle),
     Users(2, Script("f", 2, FALSE, TRUE, <<O("read", 0), P(0, <<"a">>), O("trunc", 0), P(1, <<"b">>), O("close", 0)>>), Idle),
     Users(2, Script("g", 2, FALSE, TRUE, <<O("small", 0), O("delete", 0), O("stat", 0)>>), Idle),
     Users(1, Script("f", 1, FALSE, FALSE, <<P(0, <<"a">>), O("close", 0)>>),
              Script("g", 1, FALSE, FALSE, <<P(0, <<"d">>), O("close", 0)>>)), NoUsers}

(* What two processes do with the files a and b. *)
Use(persist, limit, count, a, b, rx, ry) ==
    [persist |-> persist, limit |-> limit, faults |-> count, sizes |-> [a |-> a, b |-> b],
     reqs |-> [x |-> rx, y |-> ry], doubt |-> FALSE]
Rq(op, path, size) ==
    [op |-> op, path |-> path, dst |-> "b", size |-> size, excl |-> FALSE, rdonly |-> FALSE, trunc |-> FALSE]
RdOnly(path) == [Rq("open", path, 0) EXCEPT !.rdonly = TRUE]
Close(path) == <<Rq("flush", path, 0), Rq("release", path, 0)>>
NoUse == Use(FALSE, 1, 0, Absent, Absent, <<>>, <<>>)
MCUses ==
    {Use(TRUE, 2, 1, Absent, Absent,
         <<Rq("create", "a", 0), Rq("write", "a", 2)>> \o Close("a") \o <<Rq("rename", "a", 0), RdOnly("b"), Rq("read", "b", 0)>> \o Close("b"),
         <<Rq("opendir", "a", 0), Rq("readdir", "a", 0), Rq("closedir", "a", 0)>>),
     Use(TRUE, 2, 1, 2, Absent, <<Rq("open", "a", 0), Rq("write", "a", 2)>> \o Close("a"), <<Rq("trunc", "a", 1)>>),
     Use(FALSE, 2, 2, 2, Absent, <<Rq("open", "a", 0), Rq("write", "a", 2), Rq("read", "a", 0)>> \o Close("a"),
         <<RdOnly("a"), Rq("read", "a", 0)>> \o Close("a")),
     Use(TRUE, 1, 1, 2, 4, <<Rq("unlink", "a", 0), [Rq("create", "a", 0) EXCEPT !.excl = TRUE], Rq("write", "a", 1),
                             Rq("fdatasync", "a", 0), Rq("fsync", "a", 0)>> \o Close("a"),
         <<RdOnly("b"), Rq("read", "b", 0)>> \o Close("b")),
     Use(FALSE, 2, 1, 2, Absent, <<Rq("rename", "a", 0)>>, <<Rq("create", "b", 0), Rq("write", "b", 3)>> \o Close("b")), NoUse}
MCListing == [w1 |-> <<"c", "d", "e">>, w2 |-> <<"f">>, w3 |-> <<>>]

requestVars == <<ioVars, routerVars, poolVars, clientVars>>

RequestsInit ==
    /\ IOInit /\ RouterInit /\ PoolInit /\ ClientInit
    /\ Cardinality({k \in {"io", "router", "pool", "client"} :
                      CASE k = "io" -> \E u \in IOUsers : io[u].ops # <<>>
                        [] k = "router" -> \E t \in Threads : cl[t].call # None
                        [] k = "pool" -> load # NoWork
                        [] k = "client" -> uses # NoUse}) = 1
RequestsNext ==
    \/ IONext /\ UNCHANGED <<routerVars, poolVars, clientVars>>
    \/ RouterNext /\ UNCHANGED <<ioVars, poolVars, clientVars>>
    \/ PoolNext /\ UNCHANGED <<ioVars, routerVars, clientVars>>
    \/ ClientNext /\ UNCHANGED <<ioVars, routerVars, poolVars>>

RequestsSpec ==
    /\ RequestsInit /\ [][RequestsNext]_requestVars
    /\ IOFairness /\ RouterFairness /\ PoolFairness /\ ClientFairness

\* Every request ends: the retries and the failover loops of a metadata call and of
\* a remote file are bounded, though they wait for each other's locks and caches,
\* and every job that the pool has taken is answered unless the process ends, for
\* want of memory only where the workers can fill it.
EveryRequestEnds == []<>(IOEnded /\ CallsEnded /\ JobsAnswered /\ ClientEnded)
=============================================================================
