-------------------------------- MODULE Router --------------------------------
(***************************************************************************)
(* A metadata call of a client: the route to the server of its path, the   *)
(* call, and the retries after a failover (falcon_client/src/router.cpp,   *)
(* falcon_meta.cpp, connection.cpp), with the coordinator that tells the   *)
(* route from its two shared caches (metadb/shard_table.c,                 *)
(* metadb/foreign_server.c) while the cluster manager changes the tables   *)
(* behind them.                                                            *)
(*                                                                         *)
(* One path: its shard belongs to worker 1 or 2, and a server is at its    *)
(* old or its new address.  The tables survive a failover, a shared cache  *)
(* and the connections of backends do not.                                 *)
(***************************************************************************)
EXTENDS Integers, Sequences, FiniteSets

CONSTANTS
    Threads,    \* of the client
    Plans,      \* [calls, moves, shard]: calls[t] in {"dir", "file", "none"}, a call of the
                \* coordinator or of a worker; the servers that may fail over; may the shard move
    RetryCnt,   \* RETRY_CNT
    MaxErrors   \* calls that fail in another way than SERVER_FAULT

Coord == 0
Workers == {1, 2}
Tables == {"shard", "server"}
CM == "cm"
Free == "free"
None == "none"

\* The table of servers has the row of worker 1: that is the worker that may move.
ASSUME RouterAssumptions ==
    /\ RetryCnt \in Nat /\ MaxErrors \in Nat /\ Free \notin Threads
    /\ \A p \in Plans : /\ p.calls \in [Threads -> {"dir", "file", None}]
                         /\ p.moves \subseteq {Coord, 1} /\ p.shard \in BOOLEAN

VARIABLES
    cl,      \* the client's threads
    router,  \* their Router: [shard, map, cn, mutex, crashed]
    co,      \* the coordinator: [rows, pending, invalid, cache, lock, version]
    be,      \* the coordinator's backend of each thread: [version, at], its connection to worker 1
    servers,     \* the servers: [at, up]
    cm,      \* the cluster manager: [pc, tab, zk, moves, shard]
    errors

routerVars == <<cl, router, co, be, servers, cm, errors>>

Thread0(call) ==
    [pc |-> IF call = None THEN "done" ELSE "route", call |-> call, id |-> Coord, at |-> "old",
     cnt |-> 0, tries |-> 0, cntries |-> 0, cn |-> "old", first |-> TRUE, back |-> "again", got |-> [shard |-> 1, server |-> "old"],
     tab |-> "shard", runs |-> 0, lost |-> FALSE, result |-> None, moved |-> FALSE]

RouterInit ==
    /\ \E p \in Plans :
         /\ cl = [t \in Threads |-> Thread0(p.calls[t])]
         /\ cm = [pc |-> "idle", tab |-> "server", zk |-> "old", moves |-> p.moves, shard |-> p.shard]
    /\ router = [shard |-> 1, map |-> [w \in Workers |-> "old"], cn |-> "old", mutex |-> Free, crashed |-> FALSE]
    /\ co = [rows |-> [shard |-> 1, server |-> "old"], invalid |-> [k \in Tables |-> FALSE],
             cache |-> [shard |-> 1, server |-> "old"], lock |-> [k \in Tables |-> Free], version |-> 1]
    /\ be = [t \in Threads |-> [version |-> 1, at |-> "old"]]
    /\ servers = [s \in {Coord} \cup Workers |-> [at |-> "old", up |-> TRUE]]
    /\ errors = 0

T(t) == cl[t]
ThreadAt(t, pc) == T(t).pc = pc /\ ~router.crashed
SetThread(t, r) == cl' = [cl EXCEPT ![t] = r]
Goto(t, pc) == SetThread(t, [T(t) EXCEPT !.pc = pc])
Reaches(s, at) == servers[s].up /\ servers[s].at = at
CoordOf(t) == IF T(t).call = "dir" THEN T(t).at ELSE T(t).cn   \* the coordinator as the thread knows it
Error == errors < MaxErrors /\ errors' = errors + 1
Outside == UNCHANGED <<servers, cm>>

-----------------------------------------------------------------------------
(* The shared caches of the coordinator.                                    *)

\* Mutant: who finds the cache reloaded already returns with the lock held.
ReloadStartKeepsLock(by, k) ==
    /\ co.lock[k] = Free
    /\ co' = IF co.invalid[k] THEN [co EXCEPT !.lock[k] = by, !.invalid[k] = FALSE]
             ELSE [co EXCEPT !.lock[k] = "kept"]

\* ReloadShardTableShmemCache, ReloadForeignServerShmemCache: under the exclusive
\* lock the flag is taken down, and then the table is read.  Nobody who raises
\* the flag, or commits, takes the lock.
ReloadStart(by, k) ==
    /\ co.lock[k] = Free
    /\ co' = IF co.invalid[k] THEN [co EXCEPT !.lock[k] = by, !.invalid[k] = FALSE] ELSE co
ReloadRead(by, k) ==
    /\ co.lock[k] = by
    /\ co' = [co EXCEPT !.lock[k] = Free, !.cache[k] = co.rows[k], !.version = @ + (IF k = "server" THEN 1 ELSE 0)]

Invalidate(c, k) == [c EXCEPT !.invalid[k] = TRUE]

-----------------------------------------------------------------------------
(* The cluster manager and failovers.                                       *)

Fail(s) ==
    /\ s \in cm.moves /\ servers[s] = [at |-> "old", up |-> TRUE]
    /\ servers' = [servers EXCEPT ![s].up = FALSE]
    /\ cl' = [t \in Threads |-> [cl[t] EXCEPT !.moved = FALSE]]
    /\ UNCHANGED <<router, co, be, cm, errors>>

\* A standby takes over.  A new coordinator has the tables and nothing else; what
\* the cluster manager was doing there it does again.
Promote(s) ==
    /\ ~servers[s].up /\ servers' = [servers EXCEPT ![s] = [at |-> "new", up |-> TRUE]]
    /\ IF s # Coord THEN UNCHANGED <<co, be, cm>>
       ELSE /\ co' = [co EXCEPT !.invalid = [k \in Tables |-> TRUE], !.lock = [k \in Tables |-> Free], !.version = 0]
            /\ be' = [t \in Threads |-> [version |-> 0, at |-> None]]
            /\ cm' = [cm EXCEPT !.pc = IF @ \in {"idle", "done"} THEN @ ELSE "update"]
    /\ UNCHANGED <<cl, router, errors>>

Announce ==
    /\ servers[Coord].up /\ cm.zk # servers[Coord].at /\ cm' = [cm EXCEPT !.zk = servers[Coord].at]
    /\ UNCHANGED <<cl, router, co, be, servers, errors>>

CMBegins ==
    /\ cm.pc = "idle"
    /\ \/ servers[1] = [at |-> "new", up |-> TRUE] /\ cm' = [cm EXCEPT !.pc = "update"]
       \/ cm.shard /\ cm' = [cm EXCEPT !.pc = "update", !.tab = "shard"]
    /\ UNCHANGED <<cl, router, co, be, servers, errors>>

CMStep(pc) == cm.pc = pc /\ servers[Coord].up /\ UNCHANGED <<cl, router, be, servers, errors>>
CMGoes(to) == cm' = [cm EXCEPT !.pc = to]

\* falcon_update_foreign_server, falcon_update_shard_table: the cache is made
\* invalid before the new row is committed.
UpdateTable == CMStep("update") /\ CMGoes("commit") /\ co' = Invalidate(co, cm.tab)
\* Mutant: the cache is not made invalid again after the commit.
CommitTableOnly ==
    /\ CMStep("commit") /\ CMGoes("done")
    /\ co' = [co EXCEPT !.rows[cm.tab] = IF cm.tab = "shard" THEN 2 ELSE "new"]
CommitTable ==
    /\ CMStep("commit") /\ CMGoes("invalidate")
    /\ co' = [co EXCEPT !.rows[cm.tab] = IF cm.tab = "shard" THEN 2 ELSE "new"]
\* falcon_reload_foreign_server_cache, falcon_reload_shard_table_cache.
ReloadCache == CMStep("invalidate") /\ CMGoes("start") /\ co' = Invalidate(co, cm.tab)
ReloadCacheStart ==
    /\ CMStep("start") /\ ReloadStart(CM, cm.tab) /\ CMGoes(IF co'.lock[cm.tab] = CM THEN "read" ELSE "done")
ReloadCacheRead == CMStep("read") /\ ReloadRead(CM, cm.tab) /\ CMGoes("done")

CMWorks == UpdateTable \/ CommitTable \/ ReloadCache \/ ReloadCacheStart \/ ReloadCacheRead

-----------------------------------------------------------------------------
(* A call.                                                                  *)

Moved ==    \* the servers are where the cluster manager has said
    /\ cm.pc = "done" /\ cm.zk = servers[Coord].at /\ co.rows.server = servers[1].at
    /\ \A s \in DOMAIN servers : servers[s].up
Lost(t) == T(t).lost \/ (T(t).pc = "answer" /\ ~Reaches(T(t).id, T(t).at))   \* the server died with the answer
Ends(t, result) ==
    SetThread(t, [Thread0(None) EXCEPT !.result = result, !.runs = T(t).runs, !.lost = Lost(t), !.moved = T(t).moved])

\* GetCoordinatorConn waits for a thread that is looking for the coordinator.
GetCoordinatorConn(t) ==
    /\ ThreadAt(t, "route") /\ T(t).call = "dir" /\ router.mutex = Free
    /\ SetThread(t, [T(t) EXCEPT !.pc = "call", !.at = router.cn])
    /\ UNCHANGED <<router, co, be, errors>> /\ Outside
GetWorkerConnByPath(t) ==
    /\ ThreadAt(t, "route") /\ T(t).call = "file"
    /\ SetThread(t, [T(t) EXCEPT !.pc = "call", !.id = router.shard, !.at = router.map[router.shard]])
    /\ UNCHANGED <<router, co, be, errors>> /\ Outside

\* ProcessRequest fails.  The call to a server that is down, or goes down with it,
\* is tried again (SERVER_FAULT), and nobody knows if it had run; any other
\* failure is told to the caller.
Called(t) == T(t).pc \in {"call", "answer"} \/ (T(t).call = "dir" /\ T(t).pc \in {"backend", "use", "reload"})
Retries(t) == T(t).cnt < RetryCnt
CallFails(t) ==
    /\ Called(t) /\ ~router.crashed /\ ~Reaches(T(t).id, T(t).at)
    /\ IF Retries(t)
       THEN SetThread(t, [T(t) EXCEPT !.pc = "again", !.cnt = @ + 1, !.tries = 0, !.lost = Lost(t), !.moved = Moved])
       ELSE Ends(t, "SERVER_FAULT")
    /\ UNCHANGED <<router, co, be, errors>> /\ Outside
CallFailsOtherwise(t) ==
    /\ T(t).pc \in {"call", "answer"} /\ ~router.crashed
    /\ Error /\ Ends(t, "REMOTE_QUERY_FAILED") /\ UNCHANGED <<router, co, be>> /\ Outside

\* A worker runs the call unless the shard is not its own.
WorkerRuns(t) ==
    /\ ThreadAt(t, "call") /\ T(t).call = "file" /\ Reaches(T(t).id, T(t).at)
    /\ IF co.rows.shard = T(t).id THEN SetThread(t, [T(t) EXCEPT !.pc = "answer", !.runs = @ + 1])
       ELSE Ends(t, "WRONG_WORKER")
    /\ UNCHANGED <<router, co, be, errors>> /\ Outside
AnswerComes(t) ==
    /\ ThreadAt(t, "answer") /\ Reaches(T(t).id, T(t).at)
    /\ Ends(t, "SUCCESS") /\ UNCHANGED <<router, co, be, errors>> /\ Outside

\* The coordinator runs it with worker 1: GetForeignServerConnection, in which the
\* backend drops a connection to an address that has changed.
CoordinatorRuns(t) ==
    /\ ThreadAt(t, "call") /\ T(t).call = "dir" /\ Reaches(Coord, T(t).at)
    /\ SetThread(t, [T(t) EXCEPT !.pc = "backend", !.tab = "server", !.moved = Moved])
    /\ UNCHANGED <<router, co, be, errors>> /\ Outside

Dropped(t) ==
    LET old == be[t] IN
    IF old.version < co.version /\ old.at # co.cache.server THEN None ELSE old.at

GetForeignServerConnection(t) ==
    /\ ThreadAt(t, "backend") /\ Reaches(Coord, T(t).at) /\ ~co.invalid.server /\ co.lock.server = Free
    /\ be' = [be EXCEPT ![t] = [version |-> co.version,
                                at |-> IF Dropped(t) = None THEN co.cache.server ELSE Dropped(t)]]
    /\ Goto(t, "use") /\ UNCHANGED <<router, co, errors>> /\ Outside

UseConnection(t) ==
    /\ ThreadAt(t, "use") /\ Reaches(Coord, T(t).at)
    /\ IF Reaches(1, be[t].at)
       THEN SetThread(t, [T(t) EXCEPT !.pc = "answer", !.runs = @ + 1]) /\ UNCHANGED be
       ELSE Ends(t, "PROGRAM_ERROR") /\ be' = [be EXCEPT ![t].at = None]
    /\ UNCHANGED <<router, co, errors>> /\ Outside

\* A backend meets an invalid cache, and reloads it.
Backend(t) == ThreadAt(t, "backend") \/ ThreadAt(t, "fetch")
BackendReloads(t) ==
    /\ Backend(t) /\ Reaches(Coord, CoordOf(t)) /\ co.invalid[T(t).tab] /\ ReloadStart(t, T(t).tab)
    /\ SetThread(t, [T(t) EXCEPT !.pc = "reload", !.back = T(t).pc])
    /\ UNCHANGED <<router, be, errors>> /\ Outside
BackendReads(t) ==
    /\ ThreadAt(t, "reload") /\ Reaches(Coord, CoordOf(t)) /\ ReloadRead(t, T(t).tab)
    /\ Goto(t, T(t).back) /\ UNCHANGED <<router, be, errors>> /\ Outside
-----------------------------------------------------------------------------
(* After a SERVER_FAULT.                                                    *)

\* TryToUpdateCNConn, under its mutex: somebody may have found it already.
TryToUpdateCNConn(t) ==
    /\ \/ ThreadAt(t, "again") /\ T(t).call = "dir"
       \/ ThreadAt(t, "cnagain")
    /\ router.mutex = Free
    /\ IF router.cn # CoordOf(t)
       THEN SetThread(t, [T(t) EXCEPT !.pc = IF T(t).call = "dir" THEN "call" ELSE "refetch",
                                !.at = IF T(t).call = "dir" THEN router.cn ELSE @, !.cn = router.cn])
            /\ UNCHANGED router
       ELSE SetThread(t, [T(t) EXCEPT !.pc = "zk", !.cntries = 0]) /\ router' = [router EXCEPT !.mutex = t]
    /\ UNCHANGED <<co, be, errors>> /\ Outside

\* FetchCoordinatorInfo, until it tells another address or has been asked enough.
FetchCoordinatorInfo(t) ==
    /\ ThreadAt(t, "zk")
    /\ IF cm.zk = router.cn /\ T(t).cntries < RetryCnt
       THEN SetThread(t, [T(t) EXCEPT !.cntries = @ + 1]) /\ UNCHANGED router
       ELSE /\ router' = [router EXCEPT !.mutex = Free, !.cn = cm.zk]
            /\ SetThread(t, [T(t) EXCEPT !.pc = IF T(t).call = "dir" THEN "call" ELSE "refetch",
                                   !.at = IF T(t).call = "dir" THEN cm.zk ELSE @, !.cn = cm.zk])
    /\ UNCHANGED <<co, be, errors>> /\ Outside

\* TryToUpdateWorkerConn: the map is looked at before each fetch, so the last
\* fetch is not looked at.
TryToUpdateWorkerConn(t) ==
    /\ ThreadAt(t, "again") /\ T(t).call = "file"
    /\ \/ /\ router.map[T(t).id] # T(t).at /\ T(t).tries <= RetryCnt
          /\ SetThread(t, [T(t) EXCEPT !.pc = "call", !.at = router.map[T(t).id]])
       \/ /\ router.map[T(t).id] = T(t).at /\ T(t).tries <= RetryCnt /\ router.mutex = Free
          /\ SetThread(t, [T(t) EXCEPT !.pc = "plain", !.tries = @ + 1, !.cn = router.cn])
       \/ /\ T(t).tries > RetryCnt /\ Goto(t, "call")
    /\ UNCHANGED <<router, co, be, errors>> /\ Outside

\* FetchShardTable's command.  Only a SERVER_FAULT is noticed: after another error
\* the missing answer is read, and the client is gone.
PlainCommand(t) ==
    /\ ThreadAt(t, "plain") \/ ThreadAt(t, "refetch")
    /\ Reaches(Coord, T(t).cn)
    /\ SetThread(t, [T(t) EXCEPT !.pc = "fetch", !.tab = "shard", !.first = T(t).pc = "plain"])
    /\ UNCHANGED <<router, co, be, errors>> /\ Outside
PlainCommandFails(t) ==
    /\ T(t).call = "file" /\ T(t).pc \in {"plain", "refetch", "fetch", "reload"} /\ ~router.crashed
    /\ \/ /\ ~Reaches(Coord, T(t).cn) /\ UNCHANGED <<router, errors>>
          /\ Goto(t, IF T(t).pc = "plain" \/ (T(t).pc # "refetch" /\ T(t).first) THEN "cnagain" ELSE "again")
       \/ Error /\ router' = [router EXCEPT !.crashed = TRUE] /\ UNCHANGED cl
    /\ UNCHANGED <<co, be>> /\ Outside

\* falcon_renew_shard_table: the shards, and then the addresses of their servers.
RenewShardTable(t) ==
    /\ ThreadAt(t, "fetch") /\ Reaches(Coord, T(t).cn)
    /\ ~co.invalid[T(t).tab] /\ co.lock[T(t).tab] = Free
    /\ LET r == [T(t) EXCEPT !.got[T(t).tab] = co.cache[T(t).tab]] IN
       SetThread(t, IF T(t).tab = "shard" THEN [r EXCEPT !.tab = "server"] ELSE [r EXCEPT !.pc = "apply"])
    /\ UNCHANGED <<router, co, be, errors>> /\ Outside

\* FetchShardTable puts what it was told into the map, whoever has done so since.
FetchShardTable(t) ==
    /\ ThreadAt(t, "apply")
    /\ router' = [router EXCEPT !.shard = T(t).got.shard, !.map[1] = T(t).got.server]
    /\ LET stale == T(t).got.server # co.rows.server IN
       cl' = [u \in Threads |-> IF u = t THEN [T(t) EXCEPT !.pc = "again", !.got = Thread0(None).got]
                                ELSE [T(u) EXCEPT !.moved = @ /\ ~stale]]
    /\ UNCHANGED <<co, be, errors>> /\ Outside

-----------------------------------------------------------------------------
Calling(t) ==
    \/ GetCoordinatorConn(t) \/ GetWorkerConnByPath(t) \/ CallFails(t) \/ CallFailsOtherwise(t)
    \/ WorkerRuns(t) \/ AnswerComes(t) \/ CoordinatorRuns(t)
    \/ GetForeignServerConnection(t) \/ UseConnection(t) \/ BackendReloads(t) \/ BackendReads(t)
    \/ TryToUpdateCNConn(t) \/ FetchCoordinatorInfo(t) \/ TryToUpdateWorkerConn(t)
    \/ PlainCommand(t) \/ PlainCommandFails(t) \/ RenewShardTable(t) \/ FetchShardTable(t)
RouterNext ==
    \/ \E t \in Threads : Calling(t)
    \/ \E s \in DOMAIN servers : Fail(s) \/ Promote(s)
    \/ Announce \/ CMBegins \/ CMWorks

RouterSpec == RouterInit /\ [][RouterNext]_routerVars

\* The client's threads, the coordinator's backends and what the cluster manager
\* has begun go on; nothing is assumed of failovers.
RouterFairness == (\A t \in Threads : WF_routerVars(Calling(t))) /\ WF_routerVars(CMWorks)

-----------------------------------------------------------------------------
\* A call is run once at most, though it is repeated after a SERVER_FAULT, unless a
\* server went down between running it and answering: it has run when the caller
\* is told so, and has not when the server was down or not the path's own.
RunsOnce ==
    \A t \in Threads :
      LET r == T(t) IN
      /\ r.runs <= 1 \/ r.lost
      /\ r.result = "SUCCESS" => r.runs > 0
      /\ r.result \in {"SERVER_FAULT", "WRONG_WORKER", "PROGRAM_ERROR"} => r.runs = 0 \/ r.lost

\* When the cluster manager has told the coordinator of a failover, no stale cache
\* hides it: a client that looks for the server again, and a backend that asks for
\* its connection, find the new address, whatever reloads were under way.  (Unless
\* another thread puts an older answer into the client's map behind a newer one.)
MoveIsSeen ==
    /\ cm.pc = "done" => \A k \in Tables : co.invalid[k] \/ co.lock[k] # Free \/ co.cache[k] = co.rows[k]
    /\ \A t \in Threads : T(t).moved => T(t).result \notin {"SERVER_FAULT", "PROGRAM_ERROR"}

RoutesRight == RunsOnce /\ MoveIsSeen

CallsEnded == router.crashed \/ \A t \in Threads : T(t).pc = "done"

-----------------------------------------------------------------------------
(* Why routes are right.                                                    *)

Addresses == {"old", "new"}
Rows == [shard : Workers, server : Addresses]
Retrying == {"again", "zk", "cnagain", "plain", "refetch", "fetch", "apply"}
ThreadType ==
    [pc : {"route", "call", "answer", "backend", "use", "reload", "done"} \cup Retrying,
     call : {"dir", "file", None}, id : {Coord} \cup Workers, at : Addresses, cnt : Nat, tries : Nat,
     cntries : Nat, cn : Addresses, first : BOOLEAN, back : {"again", "backend", "fetch"}, got : Rows,
     tab : Tables, runs : Nat, lost : BOOLEAN, moved : BOOLEAN,
     result : {None, "SUCCESS", "SERVER_FAULT", "REMOTE_QUERY_FAILED", "WRONG_WORKER", "PROGRAM_ERROR"}]
RouterTyped ==
    /\ cl \in [Threads -> ThreadType]
    /\ router \in [shard : Workers, map : [Workers -> Addresses], cn : Addresses,
                   mutex : Threads \cup {Free}, crashed : BOOLEAN]
    /\ co \in [rows : Rows, invalid : [Tables -> BOOLEAN], cache : Rows,
               lock : [Tables -> Threads \cup {Free, CM}], version : Nat]
    /\ be \in [Threads -> [version : Nat, at : Addresses \cup {None}]]
    /\ servers \in [{Coord} \cup Workers -> [at : Addresses, up : BOOLEAN]]
    /\ cm \in [pc : {"idle", "update", "commit", "invalidate", "start", "read", "done"}, tab : Tables,
               zk : Addresses, moves : SUBSET {Coord, 1}, shard : BOOLEAN]
    /\ errors \in Nat

\* Only between a commit and the reload after it may a cache that looks valid
\* differ from its table.
Fresh(k) == co.invalid[k] \/ co.lock[k] # Free \/ co.cache[k] = co.rows[k]
CachesFresh == \A k \in Tables : Fresh(k) \/ (cm.pc = "invalidate" /\ k = cm.tab)

\* A backend that has seen the version of the cache has no other connection than
\* to the address in it.
BackendsCurrent ==
    \A t \in Threads : /\ be[t].version <= co.version
                       /\ be[t].version = co.version => be[t].at \in {None, co.cache.server}

\* Worker 2 is where it was.
WorkerStays == servers[2] = [at |-> "old", up |-> TRUE] /\ router.map[2] = "old"

\* A call that is not answered has not run, or nobody can know it.
ThreadRuns(t) ==
    LET r == T(t) IN
    /\ r.pc = "answer" => r.runs > 0
    /\ r.pc \notin {"answer", "done"} => r.runs = 0 \/ r.lost
    /\ r.runs <= 1 \/ r.lost
    /\ r.result # None => r.pc = "done"
    /\ r.result = "SUCCESS" => r.runs > 0
    /\ r.result \in {"SERVER_FAULT", "WRONG_WORKER", "PROGRAM_ERROR"} => r.runs = 0 \/ r.lost

\* A thread looks for another address (of a worker also while the backend that
\* it has asked reloads its cache).
Searches(t) == T(t).pc \in Retrying \/ (T(t).pc = "reload" /\ T(t).call = "file")
ThreadFits(t) ==
    LET r == T(t) IN
    /\ r.pc # "done" => r.call \in {"dir", "file"}
    /\ r.call = "dir" => r.id = Coord
    /\ r.call = "file" /\ r.pc # "route" => r.id \in Workers /\ (r.id = 2 => r.at = "old")
    /\ r.call = "file" /\ Searches(t) => r.id = 1
    /\ r.pc \in {"cnagain", "plain", "refetch", "fetch", "apply"} => r.call = "file"
    /\ r.pc \in {"backend", "use"} => r.call = "dir"
    /\ r.pc = "reload" => r.back = IF r.call = "dir" THEN "backend" ELSE "fetch"
    /\ r.pc = "route" => ~r.moved
    /\ Searches(t) => RetryCnt > 0

\* What a thread knows that has failed, or has come to the coordinator, since the
\* cluster manager was done: the address that failed is the old one, the
\* coordinator that it asks is the right one, and so is what it is told.
ThreadSees(t) ==
    LET r == T(t) IN
    r.moved =>
        /\ Moved /\ r.result \notin {"SERVER_FAULT", "PROGRAM_ERROR"}
        /\ Called(t) => r.at = servers[r.id].at
        /\ Searches(t) => r.at # servers[r.id].at
        /\ r.pc = "use" => be[t].at = servers[1].at
        /\ r.call = "file" =>
             /\ r.pc = "again" => r.tries = 0 \/ (r.tries = 1 /\ router.map[1] = servers[1].at)
             /\ Searches(t) /\ r.pc # "again" => r.tries = 1
             /\ r.pc = "cnagain" => r.cn # servers[Coord].at
             /\ r.pc \in {"refetch", "fetch", "reload"} => r.cn = servers[Coord].at
             /\ r.pc = "apply" => r.got.server = servers[1].at

ThreadInv(t) == ThreadRuns(t) /\ ThreadFits(t) /\ ThreadSees(t)
RouterInv ==
    /\ RouterTyped /\ CachesFresh /\ BackendsCurrent /\ WorkerStays
    /\ \A t \in Threads : ThreadInv(t)
=============================================================================
