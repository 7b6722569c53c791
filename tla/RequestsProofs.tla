--------------------------- MODULE RequestsProofs ---------------------------
(***************************************************************************)
(* Proofs about what a request meets on its way.                           *)
(***************************************************************************)
EXTENDS RemoteIO, Router, MetaPool, Client, FiniteSetTheorems, WellFoundedInduction, TLAPS

-----------------------------------------------------------------------------
(* Router: routes are right.                                                *)

\* A step of thread t that leaves the others, the servers and the tables alone.
Alone(t) ==
    /\ \A u \in Threads \ {t} : cl'[u] = cl[u] /\ be'[u] = be[u]
    /\ UNCHANGED <<servers, cm>> /\ co'.rows = co.rows /\ router'.map = router.map

\* What holds of another thread still does.
LEMMA OthersKeep ==
    ASSUME RouterInv, NEW t \in Threads, Alone(t), NEW u \in Threads \ {t}
    PROVE  ThreadInv(u)'
<1>1. /\ cl'[u] = cl[u] /\ be'[u] = be[u] /\ servers' = servers /\ cm' = cm
      /\ co'.rows = co.rows /\ router'.map = router.map /\ ThreadInv(u)
  BY DEF Alone, RouterInv
<1>2. ThreadRuns(u)' /\ ThreadFits(u)'
  BY <1>1 DEF ThreadInv, ThreadRuns, ThreadFits, Searches, T
<1>3. Moved' = Moved
  BY <1>1 DEF Moved
<1>4. ThreadSees(u)'
  BY <1>1, <1>3 DEF ThreadInv, ThreadSees, Searches, Called, T
<1> QED BY <1>2, <1>4 DEF ThreadInv

\* So what has to be shown of such a step is about its thread.
LEMMA AloneStep ==
    ASSUME RouterInv, NEW t \in Threads, Alone(t), RouterTyped', CachesFresh', BackendsCurrent',
           ThreadInv(t)'
    PROVE  RouterInv'
<1>1. \A u \in Threads : ThreadInv(u)'
  BY OthersKeep
<1>2. WorkerStays'
  BY DEF Alone, RouterInv, WorkerStays
<1> QED BY <1>1, <1>2 DEF RouterInv

\* A step that only changes what the thread knows, and the Router but for its map.
Quiet(t, r) ==
    /\ r \in ThreadType /\ cl' = [cl EXCEPT ![t] = r]
    /\ UNCHANGED <<co, be, servers, cm>>
    /\ router' \in [shard : {router.shard}, map : {router.map}, cn : Addresses,
                    mutex : Threads \cup {Free}, crashed : BOOLEAN]
    /\ errors' \in Nat

LEMMA QuietStep ==
    ASSUME RouterInv, NEW t \in Threads, NEW r, Quiet(t, r), ThreadInv(t)'
    PROVE  RouterInv'
<1>1. /\ RouterTyped /\ cl' = [cl EXCEPT ![t] = r] /\ r \in ThreadType
      /\ router' \in [shard : {router.shard}, map : {router.map}, cn : Addresses,
                      mutex : Threads \cup {Free}, crashed : BOOLEAN]
      /\ UNCHANGED <<co, be, servers, cm>> /\ errors' \in Nat
  BY DEF RouterInv, Quiet
<1>2. RouterTyped'
  <2>1. cl' \in [Threads -> ThreadType]
    BY <1>1 DEF RouterTyped
  <2>2. router' \in [shard : Workers, map : [Workers -> Addresses], cn : Addresses,
                     mutex : Threads \cup {Free}, crashed : BOOLEAN]
    BY <1>1 DEF RouterTyped
  <2> QED BY <1>1, <2>1, <2>2 DEF RouterTyped
<1>3. Alone(t)
  BY <1>1 DEF Alone, RouterTyped
<1>4. CachesFresh' /\ BackendsCurrent'
  BY <1>1 DEF RouterInv, CachesFresh, Fresh, BackendsCurrent
<1> QED BY <1>2, <1>3, <1>4, AloneStep

\* The call goes to the address that the Router has.
LEMMA RouteStep ==
    ASSUME RouterInv, NEW t \in Threads, GetCoordinatorConn(t) \/ GetWorkerConnByPath(t)
    PROVE  RouterInv'
<1>1. RouterTyped /\ ThreadInv(t) /\ WorkerStays /\ T(t) \in ThreadType
  BY DEF RouterInv, RouterTyped, T
<1>2. CASE GetCoordinatorConn(t)
  <2> DEFINE r == [T(t) EXCEPT !.pc = "call", !.at = router.cn]
  <2>1. Quiet(t, r)
    BY <1>1, <1>2 DEF GetCoordinatorConn, Outside, SetThread, Quiet, ThreadType, RouterTyped
  <2>2. ThreadInv(t)'
    BY <1>1, <1>2, <2>1 DEF GetCoordinatorConn, ThreadAt, Outside, SetThread, ThreadInv, ThreadRuns, ThreadFits,
      ThreadSees, Searches, Called, T, ThreadType, RouterTyped, Retrying
  <2> QED BY <2>1, <2>2, QuietStep
<1>3. CASE GetWorkerConnByPath(t)
  <2> DEFINE r == [T(t) EXCEPT !.pc = "call", !.id = router.shard, !.at = router.map[router.shard]]
  <2>1. Quiet(t, r)
    BY <1>1, <1>3 DEF GetWorkerConnByPath, Outside, SetThread, Quiet, ThreadType, RouterTyped
  <2>2. ThreadInv(t)'
    BY <1>1, <1>3, <2>1 DEF GetWorkerConnByPath, ThreadAt, Outside, SetThread, ThreadInv, ThreadRuns, ThreadFits,
      ThreadSees, Searches, Called, T, ThreadType, RouterTyped, Retrying, WorkerStays
  <2> QED BY <2>1, <2>2, QuietStep
<1> QED BY <1>2, <1>3

\* The record of a thread stays one when its flags are set, when its call fails and
\* when its call ends.
LEMMA Flags ==
    ASSUME NEW r \in ThreadType, NEW l \in BOOLEAN, NEW m \in BOOLEAN
    PROVE  [r EXCEPT !.lost = l, !.moved = m] \in ThreadType
BY DEF ThreadType

\* A failed call.
LEMMA FailedThread ==
    ASSUME NEW r \in ThreadType, NEW l \in BOOLEAN, NEW m \in BOOLEAN
    PROVE  [r EXCEPT !.pc = "again", !.cnt = @ + 1, !.tries = 0, !.lost = l, !.moved = m] \in ThreadType
<1>a. PICK n \in Nat : n = r.cnt + 1
  BY DEF ThreadType
<1>1. PICK q : q = [r EXCEPT !.pc = "again", !.cnt = n, !.tries = 0]
  OBVIOUS
<1>2. q \in ThreadType
  BY <1>1 DEF ThreadType, Retrying
<1>3. [q EXCEPT !.lost = l, !.moved = m] = [r EXCEPT !.pc = "again", !.cnt = @ + 1, !.tries = 0, !.lost = l, !.moved = m]
  BY <1>a, <1>1, <1>2 DEF ThreadType
<1> QED BY <1>2, <1>3, Flags

\* A call that ends.
LEMMA EndedThread ==
    ASSUME NEW r \in ThreadType, NEW l \in BOOLEAN, NEW m \in BOOLEAN, NEW n \in Nat,
           NEW result \in {"SUCCESS", "SERVER_FAULT", "REMOTE_QUERY_FAILED", "WRONG_WORKER", "PROGRAM_ERROR"}
    PROVE  [r EXCEPT !.result = result, !.runs = n, !.lost = l, !.moved = m] \in ThreadType
<1>1. PICK q : q = [r EXCEPT !.result = result, !.runs = n]
  OBVIOUS
<1>2. q \in ThreadType
  BY <1>1 DEF ThreadType, Retrying
<1>3. [q EXCEPT !.lost = l, !.moved = m] = [r EXCEPT !.result = result, !.runs = n, !.lost = l, !.moved = m]
  BY <1>1, <1>2 DEF ThreadType
<1> QED BY <1>2, <1>3, Flags
\* A call may end with a result that says what has happened.
LEMMA Ended ==
    ASSUME RouterInv, NEW t \in Threads,
           NEW result \in {"SUCCESS", "SERVER_FAULT", "REMOTE_QUERY_FAILED", "WRONG_WORKER"},
           Ends(t, result), UNCHANGED <<router, co, be>>, Outside, errors' \in Nat,
           result = "SUCCESS" => T(t).runs > 0,
           result \in {"SERVER_FAULT", "WRONG_WORKER"} => T(t).runs = 0 \/ Lost(t),
           result = "SERVER_FAULT" => ~T(t).moved
    PROVE  RouterInv'
<1>1. RouterTyped /\ ThreadInv(t) /\ T(t) \in ThreadType
  BY DEF RouterInv, RouterTyped, T
<1>a. PICK d : d = Thread0(None)
  OBVIOUS
<1>b. d \in ThreadType /\ d.pc = "done" /\ d.call = None
  BY <1>a DEF Thread0, ThreadType, Rows, Addresses, Tables, Workers
<1>3. Lost(t) \in BOOLEAN /\ (T(t).lost => Lost(t))
  BY <1>1 DEF Lost, ThreadType
<1>c. PICK l \in BOOLEAN : l = Lost(t)
  BY <1>3
<1>2. PICK r : r = [d EXCEPT !.result = result, !.runs = T(t).runs, !.lost = l, !.moved = T(t).moved]
  OBVIOUS
<1>4. /\ r.pc = "done" /\ r.call = None /\ r.result = result /\ r.runs = T(t).runs
      /\ r.lost = l /\ r.moved = T(t).moved /\ r \in ThreadType
  <2>1. r.pc = "done" /\ r.call = None /\ r.result = result
    BY <1>1, <1>2, <1>b DEF ThreadType
  <2>2. r.runs = T(t).runs /\ r.lost = l /\ r.moved = T(t).moved
    BY <1>1, <1>2, <1>b DEF ThreadType
  <2>3. T(t).runs \in Nat /\ T(t).moved \in BOOLEAN
    BY <1>1 DEF ThreadType
  <2>4. r \in ThreadType
    BY <1>2, <1>b, <2>3, EndedThread
  <2> QED BY <2>1, <2>2, <2>4
<1>5. Quiet(t, r)
  <2>1. cl' = [cl EXCEPT ![t] = r]
    BY <1>2, <1>a, <1>c DEF Ends, SetThread
  <2> QED BY <1>1, <2>1, <1>4 DEF Outside, Quiet, RouterTyped
<1>6. cl'[t] = r /\ servers' = servers /\ Moved' = Moved
  BY <1>1, <1>5 DEF Quiet, RouterTyped, Moved
<1>7. ThreadRuns(t)' /\ ThreadFits(t)'
  BY <1>1, <1>3, <1>4, <1>6, <1>c DEF ThreadInv, ThreadRuns, ThreadFits, Searches, T, ThreadType, Retrying, None
<1>8. ThreadSees(t)'
  BY <1>1, <1>3, <1>4, <1>6 DEF ThreadInv, ThreadSees, Searches, Called, T, Retrying, None
<1> QED BY <1>5, <1>7, <1>8, QuietStep DEF ThreadInv

\* A thread that has come back since the cluster manager was done reaches the
\* server that it calls: its call does not fail for want of it.
LEMMA FailStep ==
    ASSUME RouterInv, NEW t \in Threads, CallFails(t) \/ CallFailsOtherwise(t)
    PROVE  RouterInv'
<1>1. /\ RouterTyped /\ ThreadInv(t) /\ WorkerStays /\ T(t) \in ThreadType /\ Moved \in BOOLEAN
      /\ RetryCnt \in Nat
  BY RouterAssumptions DEF RouterInv, RouterTyped, T, Moved
<1>2. T(t).pc = "answer" /\ ~Reaches(T(t).id, T(t).at) => Lost(t)
  BY DEF Lost
<1>3. Lost(t) \in BOOLEAN /\ (T(t).lost => Lost(t))
  BY <1>1 DEF Lost, ThreadType
<1>4. CASE CallFails(t) /\ ~Retries(t)
  <2>1. ~T(t).moved
    BY <1>1, <1>4 DEF CallFails, ThreadInv, ThreadSees, Reaches, Moved, RouterTyped, ThreadType
  <2>2. T(t).runs = 0 \/ Lost(t)
    BY <1>1, <1>2, <1>3, <1>4 DEF CallFails, Called, ThreadInv, ThreadRuns
  <2> QED BY <1>1, <1>4, <2>1, <2>2, Ended DEF CallFails, RouterTyped
<1>5. CASE CallFails(t) /\ Retries(t)
  <2>a. PICK l \in BOOLEAN, m \in BOOLEAN : l = Lost(t) /\ m = Moved
    BY <1>1, <1>3
  <2>1. PICK r : r = [T(t) EXCEPT !.pc = "again", !.cnt = @ + 1, !.tries = 0, !.lost = l, !.moved = m]
    OBVIOUS
  <2>2. r \in ThreadType
    BY <1>1, <2>1, FailedThread
  <2>3. Quiet(t, r)
    <3>1. cl' = [cl EXCEPT ![t] = r]
      BY <1>5, <2>1, <2>a DEF CallFails, SetThread
    <3> QED BY <1>1, <1>5, <2>2, <3>1 DEF CallFails, Outside, Quiet, RouterTyped
  <2>4. cl'[t] = r /\ servers' = servers /\ router' = router /\ Moved' = Moved
    BY <1>1, <1>5, <2>3 DEF CallFails, Quiet, RouterTyped, Moved
  <2>5. /\ r.pc = "again" /\ r.tries = 0 /\ r.lost = l /\ r.moved = m /\ r.call = T(t).call
        /\ r.id = T(t).id /\ r.at = T(t).at /\ r.runs = T(t).runs /\ r.result = T(t).result
    BY <1>1, <2>1 DEF ThreadType
  <2>6. T(t).pc \in {"call", "answer", "backend", "use", "reload"} /\ T(t).result = None
    BY <1>1, <1>5 DEF CallFails, Called, ThreadInv, ThreadRuns
  <2>7. T(t).runs = 0 \/ Lost(t)
    BY <1>1, <1>2, <1>3, <1>5 DEF CallFails, Called, ThreadInv, ThreadRuns
  <2>8. ThreadRuns(t)'
    BY <1>1, <1>3, <2>4, <2>5, <2>6, <2>7, <2>a DEF ThreadRuns, T, ThreadType, None
  <2>9. T(t).call = "file" => T(t).id = 1
    BY <1>1, <1>5, <2>6 DEF CallFails, Called, ThreadInv, ThreadFits, WorkerStays, Reaches, Workers
  <2>10. RetryCnt > 0
    BY <1>1, <1>5 DEF Retries, ThreadType
  <2>11. ThreadFits(t)'
    BY <1>1, <2>4, <2>5, <2>6, <2>9, <2>10 DEF ThreadInv, ThreadFits, Searches, T, ThreadType, Retrying, Workers, Coord
  <2>12. Moved => r.at # servers[r.id].at
    BY <1>1, <1>5, <2>5 DEF CallFails, Reaches, Moved, RouterTyped, ThreadType
  <2>13. ThreadSees(t)'
    BY <1>1, <2>4, <2>5, <2>6, <2>12, <2>a DEF ThreadSees, Searches, Called, T, Retrying, None
  <2> QED BY <2>3, <2>8, <2>11, <2>13, QuietStep DEF ThreadInv
<1>6. CASE CallFailsOtherwise(t)
  BY <1>1, <1>6, Ended DEF CallFailsOtherwise, Error, RouterTyped
<1> QED BY <1>4, <1>5, <1>6

\* The call runs, here once, and is answered.
LEMMA RunStep ==
    ASSUME RouterInv, NEW t \in Threads, WorkerRuns(t) \/ AnswerComes(t) \/ CoordinatorRuns(t)
    PROVE  RouterInv'
<1>1. RouterTyped /\ ThreadInv(t) /\ T(t) \in ThreadType /\ Moved \in BOOLEAN
  BY DEF RouterInv, RouterTyped, T, Moved
<1>2. CASE WorkerRuns(t) /\ co.rows.shard = T(t).id
  <2>1. PICK n \in Nat : n = T(t).runs + 1
    BY <1>1 DEF ThreadType
  <2>2. PICK r : r = [T(t) EXCEPT !.pc = "answer", !.runs = n]
    OBVIOUS
  <2>3. r \in ThreadType /\ r = [T(t) EXCEPT !.pc = "answer", !.runs = @ + 1]
    BY <1>1, <2>1, <2>2 DEF ThreadType
  <2>4. Quiet(t, r)
    BY <1>1, <1>2, <2>3 DEF WorkerRuns, Outside, SetThread, Quiet, RouterTyped
  <2>5. cl'[t] = r /\ servers' = servers /\ Moved' = Moved
    BY <1>1, <2>4 DEF Quiet, RouterTyped, Moved
  <2>8. T(t).pc = "call" /\ T(t).result = None /\ n > 0 /\ (n <= 1 \/ T(t).lost)
    BY <1>1, <1>2, <2>1 DEF WorkerRuns, ThreadAt, ThreadInv, ThreadRuns, ThreadType
  <2>9. ThreadRuns(t)'
    BY <1>1, <2>2, <2>5, <2>8 DEF ThreadRuns, T, ThreadType, None
  <2>6. ThreadFits(t)'
    BY <1>1, <2>2, <2>5, <2>8 DEF ThreadInv, ThreadFits, Searches, T, ThreadType, Retrying
  <2>7. ThreadSees(t)'
    BY <1>1, <1>2, <2>2, <2>5 DEF WorkerRuns, ThreadAt, ThreadInv, ThreadSees, Searches, Called, T, ThreadType, Retrying
  <2> QED BY <2>4, <2>6, <2>7, <2>9, QuietStep DEF ThreadInv
<1>3. CASE WorkerRuns(t) /\ co.rows.shard # T(t).id
  <2>1. T(t).runs = 0 \/ Lost(t)
    BY <1>1, <1>3 DEF WorkerRuns, ThreadAt, ThreadInv, ThreadRuns, Lost
  <2> QED BY <1>1, <1>3, <2>1, Ended DEF WorkerRuns, RouterTyped
<1>4. CASE AnswerComes(t)
  <2>1. T(t).runs > 0
    BY <1>1, <1>4 DEF AnswerComes, ThreadAt, ThreadInv, ThreadRuns
  <2> QED BY <1>1, <1>4, <2>1, Ended DEF AnswerComes, RouterTyped
<1>5. CASE CoordinatorRuns(t)
  <2>1. PICK m \in BOOLEAN : m = Moved
    BY <1>1
  <2>2. PICK r : r = [T(t) EXCEPT !.pc = "backend", !.tab = "server", !.moved = m]
    OBVIOUS
  <2>3. r \in ThreadType
    BY <1>1, <2>1, <2>2 DEF ThreadType, Tables
  <2>4. Quiet(t, r)
    <3>1. cl' = [cl EXCEPT ![t] = r]
      BY <1>5, <2>1, <2>2 DEF CoordinatorRuns, SetThread
    <3> QED BY <1>1, <1>5, <2>3, <3>1 DEF CoordinatorRuns, Outside, Quiet, RouterTyped
  <2>5. cl'[t] = r /\ servers' = servers /\ Moved' = Moved
    BY <1>1, <2>4 DEF Quiet, RouterTyped, Moved
  <2>6. ThreadRuns(t)'
    BY <1>1, <1>5, <2>2, <2>5 DEF CoordinatorRuns, ThreadAt, ThreadInv, ThreadRuns, T, ThreadType
  <2>9. ThreadFits(t)'
    BY <1>1, <1>5, <2>2, <2>5 DEF CoordinatorRuns, ThreadAt, ThreadInv, ThreadFits, Searches, T, ThreadType, Retrying
  <2>7. T(t).result = None /\ T(t).id = Coord /\ T(t).at = servers[Coord].at
    BY <1>1, <1>5 DEF CoordinatorRuns, ThreadAt, Reaches, ThreadInv, ThreadRuns, ThreadFits
  <2>8. ThreadSees(t)'
    BY <1>1, <1>5, <2>1, <2>2, <2>5, <2>7 DEF CoordinatorRuns, ThreadAt, ThreadSees, Searches, Called, T, ThreadType,
      Retrying, None
  <2> QED BY <2>4, <2>6, <2>8, <2>9, QuietStep DEF ThreadInv
<1> QED BY <1>2, <1>3, <1>4, <1>5 DEF WorkerRuns

\* A thread looks for the coordinator: it stays with what it knows, or leaves with
\* another address, and after the move there is but one other.
LEMMA SearchStep ==
    ASSUME RouterInv, NEW t \in Threads, TryToUpdateCNConn(t) \/ FetchCoordinatorInfo(t)
    PROVE  RouterInv'
<1>1. RouterTyped /\ ThreadInv(t) /\ T(t) \in ThreadType /\ RetryCnt \in Nat
  BY RouterAssumptions DEF RouterInv, RouterTyped, T
<1>2. /\ T(t).pc \in {"again", "cnagain", "zk"} /\ (T(t).pc = "again" => T(t).call = "dir")
      /\ T(t).call \in {"dir", "file"}
  BY <1>1 DEF TryToUpdateCNConn, FetchCoordinatorInfo, ThreadAt, ThreadInv, ThreadFits
<1> DEFINE Found(a) == [T(t) EXCEPT !.pc = IF T(t).call = "dir" THEN "call" ELSE "refetch",
                                    !.at = IF T(t).call = "dir" THEN a ELSE @, !.cn = a]
<1>3. ASSUME NEW a \in Addresses, cl' = [cl EXCEPT ![t] = Found(a)], Quiet(t, Found(a)),
             T(t).moved => a = servers[Coord].at
      PROVE  ThreadInv(t)'
  <2>1. cl'[t] = Found(a) /\ servers' = servers /\ Moved' = Moved
    BY <1>1, <1>3 DEF Quiet, RouterTyped, Moved
  <2>2. ThreadRuns(t)' /\ ThreadFits(t)'
    BY <1>1, <1>2, <2>1 DEF ThreadInv, ThreadRuns, ThreadFits, Searches, T, ThreadType, Retrying
  <2>3. ThreadSees(t)'
    BY <1>1, <1>2, <1>3, <2>1 DEF ThreadInv, ThreadFits, ThreadSees, Searches, Called, T, ThreadType, Retrying
  <2> QED BY <2>2, <2>3 DEF ThreadInv
<1>4. CASE TryToUpdateCNConn(t) /\ router.cn # CoordOf(t)
  <2>1. router.cn \in Addresses /\ cl' = [cl EXCEPT ![t] = Found(router.cn)]
    BY <1>1, <1>4 DEF TryToUpdateCNConn, SetThread, RouterTyped
  <2>2. Found(router.cn) \in ThreadType
    BY <1>1, <2>1 DEF ThreadType, Retrying
  <2>3. Quiet(t, Found(router.cn))
    BY <1>1, <1>4, <2>1, <2>2 DEF TryToUpdateCNConn, Outside, Quiet, RouterTyped
  <2>4. servers[Coord].at \in Addresses /\ CoordOf(t) \in Addresses
    BY <1>1 DEF RouterTyped, CoordOf, ThreadType
  <2>5. T(t).moved => servers[Coord].at # CoordOf(t)
    BY <1>1, <1>2, <1>4 DEF TryToUpdateCNConn, ThreadAt, CoordOf, ThreadInv, ThreadSees, ThreadFits, Searches, Retrying
  <2>6. T(t).moved => router.cn = servers[Coord].at
    BY <1>4, <2>1, <2>4, <2>5 DEF Addresses
  <2> QED BY <1>3, <2>1, <2>3, <2>6, QuietStep
<1>5. CASE TryToUpdateCNConn(t) /\ router.cn = CoordOf(t)
  <2> DEFINE r == [T(t) EXCEPT !.pc = "zk", !.cntries = 0]
  <2>1. r \in ThreadType
    BY <1>1 DEF ThreadType, Retrying
  <2>2. Quiet(t, r)
    BY <1>1, <1>5, <2>1 DEF TryToUpdateCNConn, SetThread, Outside, Quiet, RouterTyped
  <2>3. cl'[t] = r /\ servers' = servers /\ Moved' = Moved
    BY <1>1, <2>2 DEF Quiet, RouterTyped, Moved
  <2>4. ThreadRuns(t)' /\ ThreadFits(t)'
    BY <1>1, <1>2, <2>3 DEF ThreadInv, ThreadRuns, ThreadFits, Searches, T, ThreadType, Retrying
  <2>5. T(t).call = "file" => T(t).pc = "cnagain"
    BY <1>2, <1>5 DEF TryToUpdateCNConn, ThreadAt
  <2>6. ThreadSees(t)'
    BY <1>1, <1>2, <2>3, <2>5 DEF ThreadInv, ThreadSees, Searches, Called, T, ThreadType, Retrying
  <2> QED BY <2>2, <2>4, <2>6, QuietStep DEF ThreadInv
<1>6. CASE FetchCoordinatorInfo(t) /\ cm.zk = router.cn /\ T(t).cntries < RetryCnt
  <2>1. PICK n \in Nat : n = T(t).cntries + 1
    BY <1>1 DEF ThreadType
  <2>2. PICK r : r = [T(t) EXCEPT !.cntries = n]
    OBVIOUS
  <2>3. r \in ThreadType /\ r = [T(t) EXCEPT !.cntries = @ + 1]
    BY <1>1, <2>1, <2>2 DEF ThreadType
  <2>4. Quiet(t, r)
    BY <1>1, <1>6, <2>3 DEF FetchCoordinatorInfo, Outside, SetThread, Quiet, RouterTyped
  <2>5. cl'[t] = r /\ servers' = servers /\ Moved' = Moved /\ router' = router
    BY <1>1, <1>6, <2>4 DEF FetchCoordinatorInfo, Quiet, RouterTyped, Moved
  <2>6. ThreadRuns(t)' /\ ThreadFits(t)'
    BY <1>1, <1>2, <2>2, <2>5 DEF ThreadInv, ThreadRuns, ThreadFits, Searches, T, ThreadType, Retrying
  <2>7. ThreadSees(t)'
    BY <1>1, <1>6, <2>2, <2>5 DEF FetchCoordinatorInfo, ThreadAt, ThreadInv, ThreadSees, Searches, Called, T, ThreadType,
      Retrying
  <2> QED BY <2>4, <2>6, <2>7, QuietStep DEF ThreadInv
<1>7. CASE FetchCoordinatorInfo(t) /\ ~(cm.zk = router.cn /\ T(t).cntries < RetryCnt)
  <2>1. cm.zk \in Addresses /\ cl' = [cl EXCEPT ![t] = Found(cm.zk)]
    BY <1>1, <1>7 DEF FetchCoordinatorInfo, SetThread, RouterTyped
  <2>2. Found(cm.zk) \in ThreadType
    BY <1>1, <2>1 DEF ThreadType, Retrying
  <2>3. Quiet(t, Found(cm.zk))
    <3>1. router' = [router EXCEPT !.mutex = Free, !.cn = cm.zk]
      BY <1>7 DEF FetchCoordinatorInfo
    <3>2. router' \in [shard : {router.shard}, map : {router.map}, cn : Addresses,
                       mutex : Threads \cup {Free}, crashed : BOOLEAN]
      BY <1>1, <2>1, <3>1 DEF RouterTyped
    <3> QED BY <1>1, <1>7, <2>1, <2>2, <3>2 DEF FetchCoordinatorInfo, Outside, Quiet, RouterTyped
  <2>4. T(t).moved => cm.zk = servers[Coord].at
    BY <1>1 DEF ThreadInv, ThreadSees, Moved
  <2> QED BY <1>3, <2>1, <2>3, <2>4, QuietStep
<1> QED BY <1>4, <1>5, <1>6, <1>7

\* A thread looks for its worker.  After the move it is told the new address the
\* first time, and finds it in the map the second.
LEMMA WorkerSearchStep ==
    ASSUME RouterInv, NEW t \in Threads, TryToUpdateWorkerConn(t)
    PROVE  RouterInv'
<1>1. RouterTyped /\ ThreadInv(t) /\ T(t) \in ThreadType /\ RetryCnt \in Nat
  BY RouterAssumptions DEF RouterInv, RouterTyped, T
<1>2. T(t).pc = "again" /\ T(t).call = "file" /\ T(t).id = 1 /\ RetryCnt > 0 /\ T(t).result = None
  BY <1>1 DEF TryToUpdateWorkerConn, ThreadAt, ThreadInv, ThreadFits, ThreadRuns, Searches, Retrying
<1>3. T(t).moved => /\ Moved /\ T(t).at # servers[1].at
                    /\ T(t).tries = 0 \/ (T(t).tries = 1 /\ router.map[1] = servers[1].at)
  BY <1>1, <1>2 DEF ThreadInv, ThreadSees, Searches, Retrying
<1>4. router.map[1] \in Addresses /\ T(t).at \in Addresses /\ servers[1].at \in Addresses
  BY <1>1 DEF RouterTyped, ThreadType, Workers
<1>5. CASE router.map[1] # T(t).at /\ SetThread(t, [T(t) EXCEPT !.pc = "call", !.at = router.map[1]])
  <2> DEFINE r == [T(t) EXCEPT !.pc = "call", !.at = router.map[1]]
  <2>1. r \in ThreadType
    BY <1>1, <1>4 DEF ThreadType
  <2>2. Quiet(t, r)
    BY <1>1, <1>5, <2>1 DEF TryToUpdateWorkerConn, SetThread, Outside, Quiet, RouterTyped
  <2>3. cl'[t] = r /\ servers' = servers /\ Moved' = Moved
    BY <1>1, <2>2 DEF Quiet, RouterTyped, Moved
  <2>4. ThreadRuns(t)' /\ ThreadFits(t)'
    BY <1>1, <1>2, <2>3 DEF ThreadInv, ThreadRuns, ThreadFits, Searches, T, ThreadType, Retrying, Workers
  <2>5. T(t).moved => router.map[1] = servers[1].at
    BY <1>3, <1>4, <1>5 DEF Addresses
  <2>6. ThreadSees(t)'
    BY <1>1, <1>2, <1>3, <2>3, <2>5 DEF ThreadSees, Searches, Called, T, ThreadType, Retrying, None
  <2> QED BY <2>2, <2>4, <2>6, QuietStep DEF ThreadInv
<1>6. CASE /\ router.map[1] = T(t).at
           /\ SetThread(t, [T(t) EXCEPT !.pc = "plain", !.tries = @ + 1, !.cn = router.cn])
  <2>1. PICK n \in Nat : n = T(t).tries + 1
    BY <1>1 DEF ThreadType
  <2>2. PICK r : r = [T(t) EXCEPT !.pc = "plain", !.tries = n, !.cn = router.cn]
    OBVIOUS
  <2>3. r = [T(t) EXCEPT !.pc = "plain", !.tries = @ + 1, !.cn = router.cn]
    BY <2>1, <2>2
  <2>4. r \in ThreadType
    BY <1>1, <2>1, <2>2 DEF ThreadType, RouterTyped, Retrying
  <2>5. Quiet(t, r)
    BY <1>1, <1>6, <2>3, <2>4 DEF TryToUpdateWorkerConn, SetThread, Outside, Quiet, RouterTyped
  <2>6. cl'[t] = r /\ servers' = servers /\ Moved' = Moved
    BY <1>1, <2>5 DEF Quiet, RouterTyped, Moved
  <2>7. ThreadRuns(t)' /\ ThreadFits(t)'
    BY <1>1, <1>2, <2>2, <2>6 DEF ThreadInv, ThreadRuns, ThreadFits, Searches, T, ThreadType, Retrying, Workers
  <2>8. T(t).moved => n = 1
    BY <1>3, <1>6, <2>1
  <2>9. ThreadSees(t)'
    BY <1>1, <1>2, <1>3, <2>2, <2>6, <2>8 DEF ThreadSees, Searches, Called, T, ThreadType, Retrying, None
  <2> QED BY <2>5, <2>7, <2>9, QuietStep DEF ThreadInv
<1>7. CASE T(t).tries > RetryCnt /\ SetThread(t, [T(t) EXCEPT !.pc = "call"])
  <2> DEFINE r == [T(t) EXCEPT !.pc = "call"]
  <2>1. r \in ThreadType
    BY <1>1, <1>4 DEF ThreadType
  <2>2. Quiet(t, r)
    BY <1>1, <1>7, <2>1 DEF TryToUpdateWorkerConn, SetThread, Outside, Quiet, RouterTyped
  <2>3. cl'[t] = r /\ servers' = servers /\ Moved' = Moved
    BY <1>1, <2>2 DEF Quiet, RouterTyped, Moved
  <2>4. ThreadRuns(t)' /\ ThreadFits(t)'
    BY <1>1, <1>2, <2>3 DEF ThreadInv, ThreadRuns, ThreadFits, Searches, T, ThreadType, Retrying, Workers
  <2>5. ~T(t).moved
    BY <1>1, <1>2, <1>3, <1>7
  <2>6. ThreadSees(t)'
    BY <1>1, <2>3, <2>5 DEF ThreadSees, T, ThreadType
  <2> QED BY <2>2, <2>4, <2>6, QuietStep DEF ThreadInv
<1> QED BY <1>2, <1>5, <1>6, <1>7 DEF TryToUpdateWorkerConn, Goto

\* The command reaches the coordinator that there is, or fails there and is sent
\* to it again.
LEMMA PlainStep ==
    ASSUME RouterInv, NEW t \in Threads, PlainCommand(t) \/ PlainCommandFails(t)
    PROVE  RouterInv'
<1>1. RouterTyped /\ ThreadInv(t) /\ T(t) \in ThreadType
  BY DEF RouterInv, RouterTyped, T
<1>2. CASE PlainCommand(t)
  <2>1. PICK f \in BOOLEAN : f = (T(t).pc = "plain")
    OBVIOUS
  <2>2. PICK r : r = [T(t) EXCEPT !.pc = "fetch", !.tab = "shard", !.first = f]
    OBVIOUS
  <2>3. r \in ThreadType
    BY <1>1, <2>1, <2>2 DEF ThreadType, Retrying, Tables
  <2>4. Quiet(t, r)
    <3>1. cl' = [cl EXCEPT ![t] = r]
      BY <1>2, <2>1, <2>2 DEF PlainCommand, SetThread
    <3> QED BY <1>1, <1>2, <2>3, <3>1 DEF PlainCommand, Outside, Quiet, RouterTyped
  <2>5. cl'[t] = r /\ servers' = servers /\ Moved' = Moved
    BY <1>1, <2>4 DEF Quiet, RouterTyped, Moved
  <2>6. /\ T(t).pc \in {"plain", "refetch"} /\ T(t).call = "file" /\ T(t).id = 1 /\ RetryCnt > 0
        /\ T(t).result = None /\ T(t).cn = servers[Coord].at
    BY <1>1, <1>2 DEF PlainCommand, ThreadAt, Reaches, ThreadInv, ThreadFits, ThreadRuns, Searches, Retrying
  <2>7. ThreadRuns(t)' /\ ThreadFits(t)'
    BY <1>1, <2>2, <2>5, <2>6 DEF ThreadInv, ThreadRuns, ThreadFits, Searches, T, ThreadType, Retrying, Workers
  <2>8. ThreadSees(t)'
    BY <1>1, <2>2, <2>5, <2>6 DEF ThreadInv, ThreadSees, Searches, Called, T, ThreadType, Retrying
  <2> QED BY <2>4, <2>7, <2>8, QuietStep DEF ThreadInv
<1>3. CASE PlainCommandFails(t) /\ ~Reaches(Coord, T(t).cn) /\ UNCHANGED <<router, errors>>
             /\ Goto(t, IF T(t).pc = "plain" \/ (T(t).pc # "refetch" /\ T(t).first) THEN "cnagain" ELSE "again")
  <2>1. PICK p \in {"cnagain", "again"} :
             p = IF T(t).pc = "plain" \/ (T(t).pc # "refetch" /\ T(t).first) THEN "cnagain" ELSE "again"
    OBVIOUS
  <2>2. PICK r : r = [T(t) EXCEPT !.pc = p]
    OBVIOUS
  <2>3. r \in ThreadType
    BY <1>1, <2>1, <2>2 DEF ThreadType, Retrying
  <2>4. Quiet(t, r)
    BY <1>1, <1>3, <2>1, <2>2, <2>3 DEF PlainCommandFails, Goto, SetThread, Outside, Quiet, RouterTyped
  <2>5. cl'[t] = r /\ servers' = servers /\ Moved' = Moved /\ router' = router
    BY <1>1, <1>3, <2>4 DEF Quiet, RouterTyped, Moved
  <2>6. T(t).call = "file" /\ T(t).pc \in {"plain", "refetch", "fetch", "reload"}
    BY <1>3 DEF PlainCommandFails
  <2>7. T(t).id = 1 /\ RetryCnt > 0 /\ T(t).result = None
    BY <1>1, <2>6 DEF ThreadInv, ThreadFits, ThreadRuns, Searches, Retrying
  <2>8. ThreadRuns(t)' /\ ThreadFits(t)'
    BY <1>1, <2>1, <2>2, <2>5, <2>6, <2>7 DEF ThreadInv, ThreadRuns, ThreadFits, Searches, T, ThreadType, Retrying,
      Workers, None
  <2>9. T(t).moved => Moved /\ T(t).cn # servers[Coord].at /\ T(t).pc = "plain"
    BY <1>1, <1>3, <2>6 DEF ThreadInv, ThreadSees, Reaches, Moved, RouterTyped
  <2>10. ThreadSees(t)'
    BY <1>1, <2>1, <2>2, <2>5, <2>6, <2>7, <2>9 DEF ThreadInv, ThreadSees, Searches, Called, T, ThreadType, Retrying
  <2> QED BY <2>4, <2>8, <2>10, QuietStep DEF ThreadInv
<1>4. CASE PlainCommandFails(t) /\ Error /\ router' = [router EXCEPT !.crashed = TRUE] /\ UNCHANGED cl
  <2>1. T(t) \in ThreadType /\ cl' = [cl EXCEPT ![t] = T(t)]
    BY <1>1, <1>4 DEF RouterTyped, T
  <2>2. Quiet(t, T(t))
    <3>1. router' \in [shard : {router.shard}, map : {router.map}, cn : Addresses,
                       mutex : Threads \cup {Free}, crashed : BOOLEAN]
      BY <1>1, <1>4 DEF RouterTyped
    <3>2. errors' \in Nat
      BY <1>1, <1>4 DEF Error, RouterTyped
    <3> QED BY <1>1, <1>4, <2>1, <3>1, <3>2 DEF PlainCommandFails, Outside, Quiet
  <2>3. cl' = cl /\ servers' = servers /\ be' = be /\ Moved' = Moved /\ router'.map = router.map
    BY <1>1, <1>4, <2>2 DEF Quiet, RouterTyped, Moved
  <2>4. ThreadRuns(t)' /\ ThreadFits(t)'
    BY <1>1, <2>3 DEF ThreadInv, ThreadRuns, ThreadFits, Searches, T
  <2>5. ThreadSees(t)'
    BY <1>1, <2>3 DEF ThreadInv, ThreadSees, Searches, Called, T
  <2> QED BY <2>2, <2>4, <2>5, QuietStep DEF ThreadInv
<1> QED BY <1>2, <1>3, <1>4 DEF PlainCommandFails

\* After the move no cache that a backend may read hides it.
LEMMA MovedFresh ==
    ASSUME RouterTyped, CachesFresh, Moved, ~co.invalid["server"], co.lock["server"] = Free
    PROVE  co.cache.server = servers[1].at
BY DEF CachesFresh, Fresh, Moved, Tables

\* So what the coordinator tells is where the worker is.
LEMMA RenewStep ==
    ASSUME RouterInv, NEW t \in Threads, RenewShardTable(t)
    PROVE  RouterInv'
<1>1. RouterTyped /\ ThreadInv(t) /\ T(t) \in ThreadType /\ CachesFresh
  BY DEF RouterInv, RouterTyped, T
<1>2. /\ T(t).pc = "fetch" /\ T(t).call = "file" /\ T(t).id = 1 /\ RetryCnt > 0 /\ T(t).result = None
      /\ T(t).tab \in {"shard", "server"}
  BY <1>1 DEF RenewShardTable, ThreadAt, ThreadInv, ThreadFits, ThreadRuns, Searches, Retrying, ThreadType, Tables
<1>3. CASE T(t).tab = "shard"
  <2>1. PICK g : g = [T(t).got EXCEPT !.shard = co.cache.shard]
    OBVIOUS
  <2>2. g \in Rows
    BY <1>1, <2>1 DEF ThreadType, RouterTyped, Rows
  <2>3. PICK r : r = [T(t) EXCEPT !.got = g, !.tab = "server"]
    OBVIOUS
  <2>4. r \in ThreadType
    BY <1>1, <2>2, <2>3 DEF ThreadType, Tables
  <2>5. cl' = [cl EXCEPT ![t] = r]
    BY <1>1, <1>3, <2>1, <2>3 DEF RenewShardTable, SetThread, ThreadType
  <2>6. Quiet(t, r)
    BY <1>1, <2>4, <2>5 DEF RenewShardTable, Outside, Quiet, RouterTyped
  <2>7. cl'[t] = r /\ servers' = servers /\ Moved' = Moved
    BY <1>1, <2>6 DEF Quiet, RouterTyped, Moved
  <2>8. ThreadRuns(t)' /\ ThreadFits(t)'
    BY <1>1, <1>2, <2>3, <2>7 DEF ThreadInv, ThreadRuns, ThreadFits, Searches, T, ThreadType, Retrying, Workers
  <2>9. ThreadSees(t)'
    BY <1>1, <1>2, <2>3, <2>7 DEF ThreadInv, ThreadSees, Searches, Called, T, ThreadType, Retrying
  <2> QED BY <2>6, <2>8, <2>9, QuietStep DEF ThreadInv
<1>4. CASE T(t).tab = "server"
  <2>1. PICK g : g = [T(t).got EXCEPT !.server = co.cache.server]
    OBVIOUS
  <2>2. g \in Rows /\ g.server = co.cache.server
    BY <1>1, <2>1 DEF ThreadType, RouterTyped, Rows
  <2>3. PICK r : r = [T(t) EXCEPT !.got = g, !.pc = "apply"]
    OBVIOUS
  <2>4. r \in ThreadType
    BY <1>1, <2>2, <2>3 DEF ThreadType, Retrying
  <2>5. cl' = [cl EXCEPT ![t] = r]
    BY <1>1, <1>4, <2>1, <2>3 DEF RenewShardTable, SetThread, ThreadType
  <2>6. Quiet(t, r)
    BY <1>1, <2>4, <2>5 DEF RenewShardTable, Outside, Quiet, RouterTyped
  <2>7. cl'[t] = r /\ servers' = servers /\ Moved' = Moved
    BY <1>1, <2>6 DEF Quiet, RouterTyped, Moved
  <2>8. ThreadRuns(t)' /\ ThreadFits(t)'
    BY <1>1, <1>2, <2>3, <2>7 DEF ThreadInv, ThreadRuns, ThreadFits, Searches, T, ThreadType, Retrying, Workers
  <2>9. T(t).moved => g.server = servers[1].at
    BY <1>1, <1>4, <2>2, MovedFresh DEF RenewShardTable, ThreadInv, ThreadSees
  <2>10. ThreadSees(t)'
    BY <1>1, <1>2, <2>3, <2>7, <2>9 DEF ThreadInv, ThreadSees, Searches, Called, T, ThreadType, Retrying
  <2> QED BY <2>6, <2>8, <2>10, QuietStep DEF ThreadInv
<1> QED BY <1>2, <1>3, <1>4

\* The backend's connection goes to the address in the cache, or it is dropped.
LEMMA ConnectionStep ==
    ASSUME RouterInv, NEW t \in Threads, GetForeignServerConnection(t) \/ UseConnection(t)
    PROVE  RouterInv'
<1>1. /\ RouterTyped /\ ThreadInv(t) /\ T(t) \in ThreadType /\ CachesFresh /\ BackendsCurrent
      /\ be[t] \in [version : Nat, at : Addresses \cup {None}] /\ co.version \in Nat /\ co.cache.server \in Addresses
  BY DEF RouterInv, RouterTyped, T, Rows
<1>2. CachesFresh' /\ servers' = servers /\ cm' = cm /\ co' = co /\ router' = router /\ errors' = errors /\ Moved' = Moved
  BY <1>1 DEF GetForeignServerConnection, UseConnection, Outside, CachesFresh, Fresh, Moved
<1>3. ASSUME NEW r \in ThreadType, NEW b \in [version : Nat, at : Addresses \cup {None}],
             cl' = [cl EXCEPT ![t] = r], be' = [be EXCEPT ![t] = b], ThreadInv(t)',
             b.version <= co.version, b.version = co.version => b.at \in {None, co.cache.server}
      PROVE  RouterInv'
  <2>1. cl' \in [Threads -> ThreadType] /\ be' \in [Threads -> [version : Nat, at : Addresses \cup {None}]]
    BY <1>1, <1>3 DEF RouterTyped
  <2>2. RouterTyped'
    BY <1>1, <1>2, <2>1 DEF RouterTyped
  <2>3. Alone(t)
    BY <1>1, <1>2, <1>3 DEF Alone, RouterTyped
  <2>4. BackendsCurrent'
    BY <1>1, <1>2, <1>3 DEF BackendsCurrent, RouterTyped
  <2> QED BY <1>2, <1>3, <2>2, <2>3, <2>4, AloneStep
<1>4. CASE GetForeignServerConnection(t)
  <2>1. PICK b : b = [version |-> co.version, at |-> co.cache.server]
    OBVIOUS
  <2>2. be[t].version <= co.version /\ (be[t].version = co.version => be[t].at \in {None, co.cache.server})
    BY <1>1 DEF BackendsCurrent
  <2>3. Dropped(t) \in {None, co.cache.server}
    BY <1>1, <2>2 DEF Dropped
  <2>4. be' = [be EXCEPT ![t] = b]
    BY <1>4, <2>1, <2>3 DEF GetForeignServerConnection
  <2>5. PICK r : r = [T(t) EXCEPT !.pc = "use"]
    OBVIOUS
  <2>6. r \in ThreadType /\ cl' = [cl EXCEPT ![t] = r]
    BY <1>1, <1>4, <2>5 DEF GetForeignServerConnection, Goto, SetThread, ThreadType
  <2>7. cl'[t] = r /\ be'[t] = b
    BY <1>1, <2>4, <2>6 DEF RouterTyped
  <2>8. T(t).pc = "backend" /\ T(t).call = "dir" /\ T(t).id = Coord
    BY <1>1, <1>4 DEF GetForeignServerConnection, ThreadAt, ThreadInv, ThreadFits
  <2>9. ThreadRuns(t)' /\ ThreadFits(t)'
    BY <1>1, <2>5, <2>7, <2>8 DEF ThreadInv, ThreadRuns, ThreadFits, Searches, T, ThreadType, Retrying
  <2>10. T(t).moved => b.at = servers[1].at
    BY <1>1, <1>4, <2>1, MovedFresh DEF GetForeignServerConnection, ThreadInv, ThreadSees
  <2>11. ThreadSees(t)'
    BY <1>1, <1>2, <2>5, <2>7, <2>8, <2>10 DEF ThreadInv, ThreadSees, Searches, Called, T, ThreadType, Retrying
  <2>12. /\ b \in [version : Nat, at : Addresses \cup {None}] /\ b.version <= co.version
         /\ b.at \in {None, co.cache.server}
    BY <1>1, <2>1
  <2> QED BY <1>3, <2>4, <2>6, <2>9, <2>11, <2>12 DEF ThreadInv
<1>5. CASE UseConnection(t) /\ Reaches(1, be[t].at)
  <2>1. PICK n \in Nat : n = T(t).runs + 1
    BY <1>1 DEF ThreadType
  <2>2. PICK r : r = [T(t) EXCEPT !.pc = "answer", !.runs = n]
    OBVIOUS
  <2>3. r \in ThreadType /\ cl' = [cl EXCEPT ![t] = r]
    BY <1>1, <1>5, <2>1, <2>2 DEF UseConnection, SetThread, ThreadType
  <2>4. cl'[t] = r /\ be' = [be EXCEPT ![t] = be[t]] /\ be' = be
    BY <1>1, <1>5, <2>3 DEF UseConnection, RouterTyped
  <2>5. /\ T(t).pc = "use" /\ T(t).call = "dir" /\ T(t).result = None /\ n > 0 /\ (n <= 1 \/ T(t).lost)
    BY <1>1, <1>5, <2>1 DEF UseConnection, ThreadAt, ThreadInv, ThreadRuns, ThreadFits, ThreadType
  <2>6. ThreadRuns(t)'
    BY <1>1, <2>2, <2>4, <2>5 DEF ThreadRuns, T, ThreadType, None
  <2>7. ThreadFits(t)'
    BY <1>1, <2>2, <2>4, <2>5 DEF ThreadInv, ThreadFits, Searches, T, ThreadType, Retrying
  <2>8. ThreadSees(t)'
    BY <1>1, <1>2, <2>2, <2>4, <2>5 DEF ThreadInv, ThreadSees, Searches, Called, T, ThreadType, Retrying
  <2> QED BY <1>1, <1>3, <2>3, <2>4, <2>6, <2>7, <2>8 DEF ThreadInv, BackendsCurrent
<1>6. CASE UseConnection(t) /\ ~Reaches(1, be[t].at)
  <2>1. /\ T(t).pc = "use" /\ T(t).call = "dir" /\ T(t).result = None /\ (T(t).runs = 0 \/ T(t).lost)
    BY <1>1, <1>6 DEF UseConnection, ThreadAt, ThreadInv, ThreadRuns, ThreadFits
  <2>2. ~T(t).moved
    BY <1>1, <1>6, <2>1 DEF ThreadInv, ThreadSees, Reaches, Moved, RouterTyped, Workers
  <2>3. Lost(t) \in BOOLEAN /\ (T(t).lost => Lost(t))
    BY <1>1 DEF Lost, ThreadType
  <2>a. PICK d : d = Thread0(None)
    OBVIOUS
  <2>4. PICK l \in BOOLEAN : l = Lost(t)
    BY <2>3
  <2>5. d \in ThreadType /\ d.pc = "done" /\ d.call = None
    BY <2>a DEF Thread0, ThreadType, Rows, Addresses, Tables, Workers
  <2>6. PICK r : r = [d EXCEPT !.result = "PROGRAM_ERROR", !.runs = T(t).runs, !.lost = l, !.moved = T(t).moved]
    OBVIOUS
  <2>7. T(t).runs \in Nat /\ T(t).moved \in BOOLEAN
    BY <1>1 DEF ThreadType
  <2>8. r \in ThreadType
    BY <2>5, <2>6, <2>7, EndedThread
  <2>9. /\ r.pc = "done" /\ r.call = None /\ r.result = "PROGRAM_ERROR" /\ r.runs = T(t).runs
        /\ r.lost = l /\ r.moved = T(t).moved
    BY <2>5, <2>6 DEF ThreadType
  <2>10. cl' = [cl EXCEPT ![t] = r]
    BY <1>6, <2>a, <2>4, <2>6 DEF UseConnection, Ends, SetThread
  <2>11. PICK b : b = [be[t] EXCEPT !.at = None]
    OBVIOUS
  <2>12. /\ b \in [version : Nat, at : Addresses \cup {None}] /\ b.version = be[t].version /\ b.at = None
         /\ be' = [be EXCEPT ![t] = b]
    BY <1>1, <1>6, <2>11 DEF UseConnection
  <2>13. cl'[t] = r
    BY <1>1, <2>10 DEF RouterTyped
  <2>14. ThreadRuns(t)' /\ ThreadFits(t)'
    BY <2>1, <2>3, <2>4, <2>7, <2>9, <2>13 DEF ThreadRuns, ThreadFits, Searches, T, Retrying, None
  <2>15. ThreadSees(t)'
    BY <2>2, <2>9, <2>13 DEF ThreadSees, T
  <2> QED BY <1>1, <1>3, <2>8, <2>10, <2>12, <2>14, <2>15 DEF ThreadInv, BackendsCurrent
<1> QED BY <1>4, <1>5, <1>6

\* A reload under the lock leaves the cache as the table is, and makes every
\* connection of a backend one of an older version.
LEMMA ReloadKeeps ==
    ASSUME RouterInv, NEW by \in Threads \cup {CM}, NEW k \in Tables, ReloadStart(by, k) \/ ReloadRead(by, k)
    PROVE  /\ co' \in [rows : Rows, invalid : [Tables -> BOOLEAN], cache : Rows,
                       lock : [Tables -> Threads \cup {Free, CM}], version : Nat]
           /\ co'.rows = co.rows
           /\ \A j \in Tables : j # k => /\ co'.invalid[j] = co.invalid[j] /\ co'.lock[j] = co.lock[j]
                                         /\ co'.cache[j] = co.cache[j]
           /\ co'.invalid[k] \/ co'.lock[k] # Free \/ co'.cache[k] = co.rows[k] \/ co' = co
           /\ co'.version >= co.version
           /\ co'.version = co.version => co'.cache.server = co.cache.server
<1>1. RouterTyped /\ by # Free
  BY RouterAssumptions DEF RouterInv, CM, Free
<1>2. /\ co \in [rows : Rows, invalid : [Tables -> BOOLEAN], cache : Rows,
                 lock : [Tables -> Threads \cup {Free, CM}], version : Nat]
      /\ co.cache \in Rows /\ co.rows \in Rows /\ co.version \in Nat
  BY <1>1 DEF RouterTyped
<1>3. CASE ReloadStart(by, k)
  <2>1. CASE co' = co
    BY <1>2, <2>1
  <2>2. CASE co.invalid[k] /\ co' = [co EXCEPT !.lock[k] = by, !.invalid[k] = FALSE]
    <3>1. PICK l, v : l = [co.lock EXCEPT ![k] = by] /\ v = [co.invalid EXCEPT ![k] = FALSE]
      OBVIOUS
    <3>2. /\ l \in [Tables -> Threads \cup {Free, CM}] /\ l[k] # Free /\ (\A j \in Tables : j # k => l[j] = co.lock[j])
          /\ v \in [Tables -> BOOLEAN] /\ (\A j \in Tables : j # k => v[j] = co.invalid[j])
      BY <1>1, <1>2, <3>1
    <3>3. co' = [co EXCEPT !.lock = l, !.invalid = v]
      BY <1>2, <2>2, <3>1
    <3>4. /\ co'.rows = co.rows /\ co'.invalid = v /\ co'.lock = l /\ co'.cache = co.cache /\ co'.version = co.version
          /\ co' \in [rows : Rows, invalid : [Tables -> BOOLEAN], cache : Rows,
                      lock : [Tables -> Threads \cup {Free, CM}], version : Nat]
      BY <1>2, <3>2, <3>3
    <3> QED BY <1>2, <3>2, <3>4
  <2> QED BY <1>3, <2>1, <2>2 DEF ReloadStart
<1>4. CASE ReloadRead(by, k)
  <2>1. CASE k = "server"
    <3>1. PICK n \in Nat : n = co.version + 1
      BY <1>2
    <3>2. PICK c : c = [co.cache EXCEPT !.server = co.rows.server]
      OBVIOUS
    <3>3. c \in Rows /\ c.server = co.rows.server /\ c.shard = co.cache.shard
      BY <1>2, <3>2 DEF Rows
    <3>4. PICK l : l = [co.lock EXCEPT !["server"] = Free]
      OBVIOUS
    <3>5. l \in [Tables -> Threads \cup {Free, CM}] /\ (\A j \in Tables : j # "server" => l[j] = co.lock[j])
      BY <1>2, <3>4 DEF Tables
    <3>6. co' = [co EXCEPT !.lock = l, !.cache = c, !.version = n]
      BY <1>2, <1>4, <2>1, <3>1, <3>2, <3>4 DEF ReloadRead
    <3>7. /\ co'.rows = co.rows /\ co'.invalid = co.invalid /\ co'.lock = l /\ co'.cache = c /\ co'.version = n
          /\ co' \in [rows : Rows, invalid : [Tables -> BOOLEAN], cache : Rows,
                      lock : [Tables -> Threads \cup {Free, CM}], version : Nat]
      BY <1>2, <3>3, <3>5, <3>6
    <3>8. \A j \in Tables : j # k => co'.cache[j] = co.cache[j]
      BY <2>1, <3>3, <3>7 DEF Tables
    <3>9. co'.cache[k] = co.rows[k]
      BY <2>1, <3>3, <3>7
    <3> QED BY <1>2, <2>1, <3>1, <3>5, <3>7, <3>8, <3>9
  <2>2. CASE k = "shard"
    <3>2. PICK c : c = [co.cache EXCEPT !.shard = co.rows.shard]
      OBVIOUS
    <3>3. c \in Rows /\ c.shard = co.rows.shard /\ c.server = co.cache.server
      BY <1>2, <3>2 DEF Rows
    <3>4. PICK l : l = [co.lock EXCEPT !["shard"] = Free]
      OBVIOUS
    <3>5. l \in [Tables -> Threads \cup {Free, CM}] /\ (\A j \in Tables : j # "shard" => l[j] = co.lock[j])
      BY <1>2, <3>4 DEF Tables
    <3>1. PICK n \in Nat : n = co.version + 0
      BY <1>2
    <3>6. co' = [co EXCEPT !.lock = l, !.cache = c, !.version = n]
      BY <1>2, <1>4, <2>2, <3>1, <3>2, <3>4 DEF ReloadRead
    <3>7. /\ co'.rows = co.rows /\ co'.invalid = co.invalid /\ co'.lock = l /\ co'.cache = c /\ co'.version = n
          /\ co' \in [rows : Rows, invalid : [Tables -> BOOLEAN], cache : Rows,
                      lock : [Tables -> Threads \cup {Free, CM}], version : Nat]
      BY <1>2, <3>3, <3>5, <3>6
    <3>8. \A j \in Tables : j # k => co'.cache[j] = co.cache[j]
      BY <2>2, <3>3, <3>7 DEF Tables
    <3>9. co'.cache[k] = co.rows[k]
      BY <2>2, <3>3, <3>7
    <3> QED BY <1>2, <2>2, <3>1, <3>3, <3>5, <3>7, <3>8, <3>9
  <2> QED BY <2>1, <2>2 DEF Tables
<1> QED BY <1>3, <1>4

\* And caches stay fresh.
LEMMA ReloadFresh ==
    ASSUME RouterInv, NEW by \in Threads \cup {CM}, NEW k \in Tables, ReloadStart(by, k) \/ ReloadRead(by, k),
           cm'.tab = cm.tab, cm'.pc = cm.pc \/ cm.pc # "invalidate", be' = be
    PROVE  CachesFresh' /\ BackendsCurrent'
<1>1. RouterTyped /\ CachesFresh /\ BackendsCurrent
  BY DEF RouterInv
<1>2. CachesFresh'
  <2> SUFFICES ASSUME NEW j \in Tables PROVE (Fresh(j) \/ (cm.pc = "invalidate" /\ j = cm.tab))'
    BY DEF CachesFresh
  <2>1. Fresh(j) \/ (cm.pc = "invalidate" /\ j = cm.tab)
    BY <1>1 DEF CachesFresh
  <2>2. CASE j = k
    BY <2>1, <2>2, ReloadKeeps DEF Fresh
  <2>3. CASE j # k
    BY <2>1, <2>3, ReloadKeeps DEF Fresh
  <2> QED BY <2>2, <2>3
<1>3. BackendsCurrent'
  <2>1. co'.version >= co.version /\ (co'.version = co.version => co'.cache.server = co.cache.server)
        /\ co'.version \in Nat /\ co.version \in Nat
    BY <1>1, ReloadKeeps DEF RouterTyped
  <2>2. \A u \in Threads : be[u].version \in Nat
    BY <1>1 DEF RouterTyped
  <2> QED BY <1>1, <2>1, <2>2 DEF BackendsCurrent
<1> QED BY <1>2, <1>3

\* A backend that reloads a cache goes back to what it was doing.
LEMMA ReloadStep ==
    ASSUME RouterInv, NEW t \in Threads, BackendReloads(t) \/ BackendReads(t)
    PROVE  RouterInv'
<1>1. RouterTyped /\ ThreadInv(t) /\ T(t) \in ThreadType /\ T(t).tab \in Tables
  BY DEF RouterInv, RouterTyped, T, ThreadType
<1>2. ReloadStart(t, T(t).tab) \/ ReloadRead(t, T(t).tab)
  BY DEF BackendReloads, BackendReads
<1>3. servers' = servers /\ cm' = cm /\ router' = router /\ be' = be /\ errors' = errors
  BY DEF BackendReloads, BackendReads, Outside
<1>4. CachesFresh' /\ BackendsCurrent'
  BY <1>1, <1>2, <1>3, ReloadFresh
<1>5. /\ co' \in [rows : Rows, invalid : [Tables -> BOOLEAN], cache : Rows,
                  lock : [Tables -> Threads \cup {Free, CM}], version : Nat]
      /\ co'.rows = co.rows
  BY <1>1, <1>2, ReloadKeeps
<1>6. Moved' = Moved
  BY <1>3, <1>5 DEF Moved
<1>7. ASSUME NEW r \in ThreadType, cl' = [cl EXCEPT ![t] = r], ThreadInv(t)'
      PROVE  RouterInv'
  <2>1. RouterTyped'
    BY <1>1, <1>3, <1>5, <1>7 DEF RouterTyped
  <2>2. Alone(t)
    BY <1>1, <1>3, <1>5, <1>7 DEF Alone, RouterTyped
  <2> QED BY <1>4, <1>7, <2>1, <2>2, AloneStep
<1>8. CASE BackendReloads(t)
  <2>1. /\ T(t).pc \in {"backend", "fetch"} /\ (T(t).pc = "backend" <=> T(t).call = "dir")
        /\ (T(t).pc = "fetch" <=> T(t).call = "file")
    BY <1>1, <1>8 DEF BackendReloads, Backend, ThreadAt, ThreadInv, ThreadFits
  <2>2. PICK r : r = [T(t) EXCEPT !.pc = "reload", !.back = T(t).pc]
    OBVIOUS
  <2>3. r \in ThreadType /\ cl' = [cl EXCEPT ![t] = r]
    BY <1>1, <1>8, <2>1, <2>2 DEF BackendReloads, SetThread, ThreadType
  <2>4. cl'[t] = r
    BY <1>1, <2>3 DEF RouterTyped
  <2>5. ThreadRuns(t)' /\ ThreadFits(t)'
    BY <1>1, <2>1, <2>2, <2>4 DEF ThreadInv, ThreadRuns, ThreadFits, Searches, T, ThreadType, Retrying
  <2>6. ThreadSees(t)'
    BY <1>1, <1>3, <1>6, <2>1, <2>2, <2>4 DEF ThreadInv, ThreadSees, Searches, Called, T, ThreadType, Retrying
  <2> QED BY <1>7, <2>3, <2>5, <2>6 DEF ThreadInv
<1>9. CASE BackendReads(t)
  <2>1. /\ T(t).pc = "reload" /\ T(t).back = IF T(t).call = "dir" THEN "backend" ELSE "fetch"
        /\ T(t).call \in {"dir", "file"}
    BY <1>1, <1>9 DEF BackendReads, ThreadAt, ThreadInv, ThreadFits
  <2>2. PICK r : r = [T(t) EXCEPT !.pc = T(t).back]
    OBVIOUS
  <2>3. r \in ThreadType /\ cl' = [cl EXCEPT ![t] = r]
    BY <1>1, <1>9, <2>1, <2>2 DEF BackendReads, Goto, SetThread, ThreadType, Retrying
  <2>4. cl'[t] = r
    BY <1>1, <2>3 DEF RouterTyped
  <2>5. ThreadRuns(t)' /\ ThreadFits(t)'
    BY <1>1, <2>1, <2>2, <2>4 DEF ThreadInv, ThreadRuns, ThreadFits, Searches, T, ThreadType, Retrying
  <2>6. ThreadSees(t)'
    BY <1>1, <1>3, <1>6, <2>1, <2>2, <2>4 DEF ThreadInv, ThreadSees, Searches, Called, T, ThreadType, Retrying
  <2> QED BY <1>7, <2>3, <2>5, <2>6 DEF ThreadInv
<1> QED BY <1>8, <1>9

\* What a thread was told before the move may come into the map after it: then
\* the others are no longer said to have seen the move.
LEMMA ApplyStep ==
    ASSUME RouterInv, NEW t \in Threads, FetchShardTable(t)
    PROVE  RouterInv'
<1>1. RouterTyped /\ ThreadInv(t) /\ T(t) \in ThreadType /\ CachesFresh /\ BackendsCurrent /\ WorkerStays
  BY DEF RouterInv, RouterTyped, T
<1>2. /\ T(t).pc = "apply" /\ T(t).call = "file" /\ T(t).id = 1 /\ RetryCnt > 0 /\ T(t).result = None
      /\ T(t).got \in Rows
  BY <1>1 DEF FetchShardTable, ThreadAt, ThreadInv, ThreadFits, ThreadRuns, Searches, Retrying, ThreadType
<1>3. servers' = servers /\ cm' = cm /\ co' = co /\ be' = be /\ errors' = errors /\ Moved' = Moved
  BY DEF FetchShardTable, Outside, Moved
<1>4. CachesFresh' /\ BackendsCurrent'
  BY <1>1, <1>3 DEF CachesFresh, Fresh, BackendsCurrent
<1>5. PICK m : m = [router.map EXCEPT ![1] = T(t).got.server]
  OBVIOUS
<1>6. m \in [Workers -> Addresses] /\ m[1] = T(t).got.server /\ m[2] = router.map[2]
  BY <1>1, <1>2, <1>5 DEF RouterTyped, Rows, Workers
<1>7. router' = [router EXCEPT !.shard = T(t).got.shard, !.map = m]
  BY <1>1, <1>5 DEF FetchShardTable, RouterTyped
<1>8. /\ router' \in [shard : Workers, map : [Workers -> Addresses], cn : Addresses,
                      mutex : Threads \cup {Free}, crashed : BOOLEAN]
      /\ router'.map = m
  BY <1>1, <1>2, <1>6, <1>7 DEF RouterTyped, Rows
<1>9. WorkerStays'
  BY <1>1, <1>3, <1>6, <1>8 DEF WorkerStays
<1>10. ASSUME NEW u \in Threads \ {t}
       PROVE  cl'[u] \in ThreadType /\ ThreadInv(u)'
  <2>1. ThreadInv(u) /\ T(u) \in ThreadType
    BY <1>1 DEF RouterInv, RouterTyped, T
  <2>2. PICK m1 \in BOOLEAN : m1 = (T(u).moved /\ ~(T(t).got.server # co.rows.server))
    OBVIOUS
  <2>3. PICK r : r = [T(u) EXCEPT !.moved = m1]
    OBVIOUS
  <2>4. cl'[u] = r
    BY <2>2, <2>3 DEF FetchShardTable
  <2>5. r \in ThreadType
    BY <2>1, <2>3 DEF ThreadType
  <2>6. ThreadRuns(u)'
    BY <2>1, <2>3, <2>4 DEF ThreadInv, ThreadRuns, T, ThreadType
  <2>7. ThreadFits(u)'
    BY <2>1, <2>2, <2>3, <2>4 DEF ThreadInv, ThreadFits, Searches, T, ThreadType
  <2>8. ThreadSees(u)'
    <3>1. CASE ~m1
      BY <2>1, <2>3, <2>4, <3>1 DEF ThreadSees, T, ThreadType
    <3>2. CASE m1
      <4>1. T(u).moved /\ T(t).got.server = co.rows.server
        BY <2>2, <3>2
      <4>2. m[1] = servers[1].at
        BY <1>6, <2>1, <4>1 DEF ThreadInv, ThreadSees, Moved
      <4>3. r.moved = T(u).moved /\ r = T(u)
        BY <2>1, <2>3, <3>2, <4>1 DEF ThreadType
      <4> QED BY <1>3, <1>8, <2>1, <2>4, <4>2, <4>3 DEF ThreadInv, ThreadSees, Searches, Called, T
    <3> QED BY <3>1, <3>2
  <2> QED BY <2>4, <2>5, <2>6, <2>7, <2>8 DEF ThreadInv
<1>11. cl'[t] \in ThreadType /\ ThreadInv(t)'
  <2>1. PICK g : g = Thread0(None).got
    OBVIOUS
  <2>2. g \in Rows
    BY <2>1 DEF Thread0, Rows, Workers, Addresses
  <2>3. PICK r : r = [T(t) EXCEPT !.pc = "again", !.got = g]
    OBVIOUS
  <2>4. cl'[t] = r
    BY <2>1, <2>3 DEF FetchShardTable
  <2>5. r \in ThreadType
    BY <1>1, <2>2, <2>3 DEF ThreadType, Retrying
  <2>6. ThreadRuns(t)' /\ ThreadFits(t)'
    BY <1>1, <1>2, <2>3, <2>4 DEF ThreadInv, ThreadRuns, ThreadFits, Searches, T, ThreadType, Retrying, Workers
  <2>7. T(t).moved => m[1] = servers[1].at
    BY <1>1, <1>2, <1>6 DEF ThreadInv, ThreadSees
  <2>8. ThreadSees(t)'
    BY <1>1, <1>2, <1>3, <1>8, <2>3, <2>4, <2>7 DEF ThreadInv, ThreadSees, Searches, Called, T, ThreadType, Retrying
  <2> QED BY <2>4, <2>5, <2>6, <2>8 DEF ThreadInv
<1>12. cl' = [u \in Threads |-> cl'[u]]
  BY DEF FetchShardTable
<1>13. cl' \in [Threads -> ThreadType]
  BY <1>10, <1>11, <1>12
<1>14. RouterTyped'
  BY <1>1, <1>3, <1>8, <1>13 DEF RouterTyped
<1> QED BY <1>4, <1>9, <1>10, <1>11, <1>14 DEF RouterInv

\* What holds of the caches, of the backends and of worker 2.
SharedInv == RouterTyped /\ CachesFresh /\ BackendsCurrent /\ WorkerStays

\* A step of the servers or of the cluster manager before the move is complete.
LEMMA BeforeMove ==
    ASSUME RouterInv, ~Moved, cl' = cl, SharedInv'
    PROVE  RouterInv'
<1>1. ASSUME NEW t \in Threads PROVE ThreadInv(t)'
  <2>1. ThreadInv(t) /\ ~T(t).moved
    BY DEF RouterInv, ThreadInv, ThreadSees
  <2>2. ThreadRuns(t)' /\ ThreadFits(t)'
    BY <2>1 DEF ThreadInv, ThreadRuns, ThreadFits, Searches, T
  <2>3. ThreadSees(t)'
    BY <2>1 DEF ThreadSees, T
  <2> QED BY <2>2, <2>3 DEF ThreadInv
<1> QED BY <1>1 DEF SharedInv, RouterInv

\* After a failover nobody has seen the move that is to come.
LEMMA FailoverStep ==
    ASSUME RouterInv, NEW s \in DOMAIN servers, Fail(s) \/ Promote(s)
    PROVE  RouterInv'
<1>1. RouterTyped /\ CachesFresh /\ BackendsCurrent /\ WorkerStays /\ s \in {Coord} \cup Workers
  BY DEF RouterInv, RouterTyped
<1>2. CASE Fail(s)
  <2>1. s # 2
    BY <1>1, <1>2 DEF Fail, RouterTyped, Coord
  <2>2. servers' \in [{Coord} \cup Workers -> [at : Addresses, up : BOOLEAN]]
    BY <1>1, <1>2 DEF Fail, RouterTyped
  <2>3. WorkerStays'
    BY <1>1, <1>2, <2>1 DEF Fail, WorkerStays, RouterTyped, Workers
  <2>4. CachesFresh' /\ BackendsCurrent'
    BY <1>1, <1>2 DEF Fail, CachesFresh, Fresh, BackendsCurrent
  <2>5. ASSUME NEW t \in Threads PROVE cl'[t] \in ThreadType /\ ThreadInv(t)'
    <3>1. PICK r : r = [T(t) EXCEPT !.moved = FALSE]
      OBVIOUS
    <3>2. cl'[t] = r /\ T(t) \in ThreadType /\ ThreadInv(t)
      BY <1>1, <1>2, <3>1 DEF Fail, RouterTyped, T, RouterInv
    <3>3. r \in ThreadType /\ ~r.moved
      BY <3>1, <3>2 DEF ThreadType
    <3>4. ThreadRuns(t)'
      BY <3>1, <3>2 DEF ThreadInv, ThreadRuns, T, ThreadType
    <3>5. ThreadFits(t)'
      BY <3>1, <3>2, <3>3 DEF ThreadInv, ThreadFits, Searches, T, ThreadType
    <3>6. ThreadSees(t)'
      BY <3>2, <3>3 DEF ThreadSees, T
    <3> QED BY <3>2, <3>3, <3>4, <3>5, <3>6 DEF ThreadInv
  <2>6. cl' = [t \in Threads |-> cl'[t]]
    BY <1>2 DEF Fail
  <2>7. cl' \in [Threads -> ThreadType]
    BY <2>5, <2>6
  <2>8. RouterTyped'
    BY <1>1, <1>2, <2>2, <2>7 DEF Fail, RouterTyped
  <2> QED BY <2>3, <2>4, <2>5, <2>8 DEF RouterInv
<1>3. CASE Promote(s)
  <2>1. ~Moved /\ s # 2 /\ cl' = cl /\ router' = router /\ errors' = errors
    BY <1>1, <1>3 DEF Promote, Moved, WorkerStays
  <2>2. servers' \in [{Coord} \cup Workers -> [at : Addresses, up : BOOLEAN]]
    BY <1>1, <1>3 DEF Promote, RouterTyped, Addresses
  <2>3. WorkerStays'
    BY <1>1, <1>3, <2>1 DEF Promote, WorkerStays, RouterTyped, Workers
  <2>4. CASE s # Coord
    <3>1. co' = co /\ be' = be /\ cm' = cm
      BY <1>3, <2>4 DEF Promote
    <3>2. CachesFresh' /\ BackendsCurrent'
      BY <1>1, <3>1 DEF CachesFresh, Fresh, BackendsCurrent
    <3>3. RouterTyped'
      BY <1>1, <2>1, <2>2, <3>1 DEF RouterTyped
    <3> QED BY <2>1, <2>3, <3>2, <3>3, BeforeMove DEF SharedInv
  <2>5. CASE s = Coord
    <3>1. PICK v, l : v = [k \in Tables |-> TRUE] /\ l = [k \in Tables |-> Free]
      OBVIOUS
    <3>2. v \in [Tables -> BOOLEAN] /\ (\A k \in Tables : v[k]) /\ l \in [Tables -> Threads \cup {Free, CM}]
      BY <3>1
    <3>3. co' = [co EXCEPT !.invalid = v, !.lock = l, !.version = 0]
      BY <1>3, <2>5, <3>1 DEF Promote
    <3>4. /\ co' \in [rows : Rows, invalid : [Tables -> BOOLEAN], cache : Rows,
                      lock : [Tables -> Threads \cup {Free, CM}], version : Nat]
          /\ co'.invalid = v /\ co'.version = 0
      BY <1>1, <3>2, <3>3 DEF RouterTyped
    <3>5. be' = [t \in Threads |-> [version |-> 0, at |-> None]]
      BY <1>3, <2>5 DEF Promote
    <3>6. be' \in [Threads -> [version : Nat, at : Addresses \cup {None}]]
      BY <3>5
    <3>7. PICK p : p = IF cm.pc \in {"idle", "done"} THEN cm.pc ELSE "update"
      OBVIOUS
    <3>8. cm' = [cm EXCEPT !.pc = p] /\ p \in {"idle", "done", "update"}
      BY <1>3, <2>5, <3>7 DEF Promote
    <3>9. cm' \in [pc : {"idle", "update", "commit", "invalidate", "start", "read", "done"}, tab : Tables,
                   zk : Addresses, moves : SUBSET {Coord, 1}, shard : BOOLEAN]
      BY <1>1, <3>8 DEF RouterTyped
    <3>10. RouterTyped'
      BY <1>1, <2>1, <2>2, <3>4, <3>6, <3>9 DEF RouterTyped
    <3>11. CachesFresh'
      BY <3>2, <3>4 DEF CachesFresh, Fresh
    <3>12. BackendsCurrent'
      BY <3>4, <3>5 DEF BackendsCurrent
    <3> QED BY <2>1, <2>3, <3>10, <3>11, <3>12, BeforeMove DEF SharedInv
  <2> QED BY <2>4, <2>5
<1> QED BY <1>2, <1>3

\* The cluster manager makes the cache invalid before the new row is committed and
\* again after it: a reload that read the old row between the two is repeated.
LEMMA ManagerStep ==
    ASSUME RouterInv, Announce \/ CMBegins \/ CMWorks
    PROVE  RouterInv'
<1>1. RouterTyped /\ CachesFresh /\ BackendsCurrent /\ WorkerStays /\ cm.tab \in Tables /\ CM \in Threads \cup {CM}
  BY DEF RouterInv, RouterTyped
<1>2. cl' = cl /\ router' = router /\ be' = be /\ servers' = servers /\ errors' = errors /\ ~Moved
  BY DEF Announce, CMBegins, CMWorks, UpdateTable, CommitTable, ReloadCache, ReloadCacheStart, ReloadCacheRead, CMStep, Moved
<1>3. WorkerStays'
  BY <1>1, <1>2 DEF WorkerStays
<1>4. cm' \in [pc : {"idle", "update", "commit", "invalidate", "start", "read", "done"}, tab : Tables,
               zk : Addresses, moves : SUBSET {Coord, 1}, shard : BOOLEAN]
  <2>1. CASE Announce
    BY <1>1, <2>1 DEF Announce, RouterTyped
  <2>2. CASE CMBegins
    BY <1>1, <2>2 DEF CMBegins, RouterTyped, Tables
  <2>3. CASE CMWorks
    BY <1>1, <2>3 DEF CMWorks, UpdateTable, CommitTable, ReloadCache, ReloadCacheStart, ReloadCacheRead, CMGoes, RouterTyped
  <2> QED BY <2>1, <2>2, <2>3
<1>5. SUFFICES /\ co' \in [rows : Rows, invalid : [Tables -> BOOLEAN], cache : Rows,
                           lock : [Tables -> Threads \cup {Free, CM}], version : Nat]
               /\ CachesFresh' /\ BackendsCurrent'
  <2>1. SUFFICES RouterTyped'
    BY <1>2, <1>3, <1>5, BeforeMove DEF SharedInv
  <2> QED BY <1>1, <1>2, <1>4, <1>5 DEF RouterTyped
<1>6. CASE Announce \/ CMBegins
  <2>1. co' = co /\ (cm.pc # "invalidate" \/ (cm'.pc = cm.pc /\ cm'.tab = cm.tab))
    BY <1>1, <1>6 DEF Announce, CMBegins, RouterTyped
  <2> QED BY <1>1, <1>2, <2>1 DEF RouterTyped, CachesFresh, Fresh, BackendsCurrent
<1>7. CASE UpdateTable \/ ReloadCache
  <2>1. PICK v : v = [co.invalid EXCEPT ![cm.tab] = TRUE]
    OBVIOUS
  <2>2. v \in [Tables -> BOOLEAN] /\ v[cm.tab] /\ \A k \in Tables : k # cm.tab => v[k] = co.invalid[k]
    BY <1>1, <2>1 DEF RouterTyped
  <2>3. co' = [co EXCEPT !.invalid = v]
    BY <1>7, <2>1 DEF UpdateTable, ReloadCache, Invalidate
  <2>4. /\ co' \in [rows : Rows, invalid : [Tables -> BOOLEAN], cache : Rows,
                    lock : [Tables -> Threads \cup {Free, CM}], version : Nat]
        /\ co'.rows = co.rows /\ co'.invalid = v /\ co'.cache = co.cache /\ co'.lock = co.lock /\ co'.version = co.version
    BY <1>1, <2>2, <2>3 DEF RouterTyped
  <2>5. CachesFresh'
    BY <1>1, <2>2, <2>4 DEF CachesFresh, Fresh
  <2> QED BY <1>1, <1>2, <2>4, <2>5 DEF BackendsCurrent
<1>8. CASE CommitTable
  <2>1. /\ cm'.pc = "invalidate" /\ cm'.tab = cm.tab
    BY <1>1, <1>8 DEF CommitTable, CMGoes, RouterTyped
  <2>2. \E r \in Rows : co' = [co EXCEPT !.rows = r] /\ \A k \in Tables : k # cm.tab => r[k] = co.rows[k]
    <3>1. CASE cm.tab = "shard"
      <4>1. PICK r : r = [co.rows EXCEPT !.shard = 2]
        OBVIOUS
      <4>2. r \in Rows /\ r["server"] = co.rows["server"]
        BY <1>1, <4>1 DEF RouterTyped, Rows, Workers
      <4>3. co' = [co EXCEPT !.rows = r]
        BY <1>1, <1>8, <3>1, <4>1 DEF CommitTable, RouterTyped
      <4> QED BY <3>1, <4>2, <4>3 DEF Tables
    <3>2. CASE cm.tab = "server"
      <4>1. PICK r : r = [co.rows EXCEPT !.server = "new"]
        OBVIOUS
      <4>2. r \in Rows /\ r["shard"] = co.rows["shard"]
        BY <1>1, <4>1 DEF RouterTyped, Rows, Addresses
      <4>3. co' = [co EXCEPT !.rows = r]
        BY <1>1, <1>8, <3>2, <4>1 DEF CommitTable, RouterTyped
      <4> QED BY <3>2, <4>2, <4>3 DEF Tables
    <3> QED BY <1>1, <3>1, <3>2 DEF Tables
  <2>3. PICK r \in Rows : co' = [co EXCEPT !.rows = r] /\ \A k \in Tables : k # cm.tab => r[k] = co.rows[k]
    BY <2>2
  <2>4. /\ co' \in [rows : Rows, invalid : [Tables -> BOOLEAN], cache : Rows,
                    lock : [Tables -> Threads \cup {Free, CM}], version : Nat]
        /\ co'.rows = r /\ co'.invalid = co.invalid /\ co'.cache = co.cache /\ co'.lock = co.lock /\ co'.version = co.version
    BY <1>1, <2>3 DEF RouterTyped
  <2>5. CachesFresh'
    BY <1>1, <2>1, <2>3, <2>4 DEF CachesFresh, Fresh
  <2> QED BY <1>1, <1>2, <2>4, <2>5 DEF BackendsCurrent
<1>9. CASE ReloadCacheStart \/ ReloadCacheRead
  <2>1. /\ ReloadStart(CM, cm.tab) \/ ReloadRead(CM, cm.tab)
        /\ cm'.tab = cm.tab /\ cm.pc # "invalidate"
    BY <1>1, <1>9 DEF ReloadCacheStart, ReloadCacheRead, CMStep, CMGoes, RouterTyped
  <2>2. CachesFresh' /\ BackendsCurrent'
    BY <1>1, <1>2, <2>1, ReloadFresh
  <2>3. co' \in [rows : Rows, invalid : [Tables -> BOOLEAN], cache : Rows,
                 lock : [Tables -> Threads \cup {Free, CM}], version : Nat]
    BY <1>1, <2>1, ReloadKeeps
  <2> QED BY <2>2, <2>3
<1> QED BY <1>6, <1>7, <1>8, <1>9 DEF CMWorks

\* The invariant holds at the start, ...
LEMMA RouterStarts == RouterInit => RouterInv
<1> SUFFICES ASSUME RouterInit PROVE RouterInv
  OBVIOUS
<1>1. PICK p \in Plans : /\ cl = [t \in Threads |-> Thread0(p.calls[t])]
                         /\ cm = [pc |-> "idle", tab |-> "server", zk |-> "old", moves |-> p.moves, shard |-> p.shard]
  BY DEF RouterInit
<1>2. p.calls \in [Threads -> {"dir", "file", None}] /\ p.moves \subseteq {Coord, 1} /\ p.shard \in BOOLEAN
  BY RouterAssumptions
<1>3. ASSUME NEW t \in Threads PROVE cl[t] \in ThreadType /\ ThreadInv(t)
  <2>1. p.calls[t] \in {"dir", "file", None} /\ cl[t] = Thread0(p.calls[t])
    BY <1>1, <1>2
  <2>2. cl[t] \in ThreadType
    BY <2>1 DEF Thread0, ThreadType, Rows, Addresses, Tables, Workers
  <2>3. /\ cl[t].pc = IF p.calls[t] = None THEN "done" ELSE "route"
        /\ cl[t].call = p.calls[t] /\ cl[t].id = Coord /\ cl[t].runs = 0 /\ ~cl[t].moved /\ cl[t].result = None
    BY <2>1 DEF Thread0
  <2>4. ThreadRuns(t) /\ ThreadFits(t) /\ ThreadSees(t)
    BY <2>1, <2>3 DEF ThreadRuns, ThreadFits, ThreadSees, Searches, Retrying, T, None
  <2> QED BY <2>2, <2>4 DEF ThreadInv
<1>4. cl \in [Threads -> ThreadType]
  BY <1>1, <1>3
<1>5. router \in [shard : Workers, map : [Workers -> Addresses], cn : Addresses,
                  mutex : Threads \cup {Free}, crashed : BOOLEAN]
  BY DEF RouterInit, Workers, Addresses
<1>6. co \in [rows : Rows, invalid : [Tables -> BOOLEAN], cache : Rows,
              lock : [Tables -> Threads \cup {Free, CM}], version : Nat]
  BY DEF RouterInit, Rows, Workers, Addresses
<1>7. cm \in [pc : {"idle", "update", "commit", "invalidate", "start", "read", "done"}, tab : Tables,
              zk : Addresses, moves : SUBSET {Coord, 1}, shard : BOOLEAN]
  BY <1>1, <1>2 DEF Tables, Addresses
<1>8. be \in [Threads -> [version : Nat, at : Addresses \cup {None}]]
  BY DEF RouterInit, Addresses
<1>9. servers \in [{Coord} \cup Workers -> [at : Addresses, up : BOOLEAN]] /\ errors \in Nat
  BY DEF RouterInit, Addresses
<1>10. RouterTyped
  BY <1>4, <1>5, <1>6, <1>7, <1>8, <1>9 DEF RouterTyped
<1>11. CachesFresh
  BY DEF RouterInit, CachesFresh, Fresh, Tables
<1>12. BackendsCurrent /\ WorkerStays
  BY DEF RouterInit, BackendsCurrent, WorkerStays, Workers
<1> QED BY <1>3, <1>10, <1>11, <1>12 DEF RouterInv

\* ... and every step keeps it.
LEMMA RouterSteps == RouterInv /\ [RouterNext]_routerVars => RouterInv'
<1> SUFFICES ASSUME RouterInv, [RouterNext]_routerVars PROVE RouterInv'
  OBVIOUS
<1>1. ASSUME NEW t \in Threads, Calling(t) PROVE RouterInv'
  BY <1>1, RouteStep, FailStep, RunStep, ConnectionStep, ReloadStep, SearchStep, WorkerSearchStep, PlainStep,
    RenewStep, ApplyStep DEF Calling
<1>2. CASE UNCHANGED routerVars
  <2>1. \A t \in Threads : ThreadInv(t)'
    BY <1>2 DEF routerVars, RouterInv, ThreadInv, ThreadRuns, ThreadFits, ThreadSees, Searches, Called, Moved, T
  <2>2. RouterTyped' /\ CachesFresh' /\ BackendsCurrent' /\ WorkerStays'
    BY <1>2 DEF routerVars, RouterInv, RouterTyped, CachesFresh, Fresh, BackendsCurrent, WorkerStays
  <2> QED BY <2>1, <2>2 DEF RouterInv
<1> QED BY <1>1, <1>2, FailoverStep, ManagerStep DEF RouterNext

\* The cached tables, the connections of the backends and what every thread of the
\* client knows fit together in every reachable state.
THEOREM RouterInvariance == RouterSpec => []RouterInv
<1>1. RouterInit => RouterInv
  BY RouterStarts
<1>2. RouterInv /\ [RouterNext]_routerVars => RouterInv'
  BY RouterSteps
<1> QED BY <1>1, <1>2, PTL DEF RouterSpec

\* A repeated call runs once unless a server died with its answer, and when the
\* cluster manager has done its work a client that looks again finds the server:
\* router.cpp, falcon_meta.cpp, shard_table.c and foreign_server.c together.
THEOREM RoutesHold == RouterSpec => []RoutesRight
<1>1. RouterInv => RoutesRight
  <2> SUFFICES ASSUME RouterInv PROVE RoutesRight
    OBVIOUS
  <2>1. RunsOnce
    BY DEF RouterInv, ThreadInv, ThreadRuns, RunsOnce
  <2>2. cm.pc = "done" => \A k \in Tables : co.invalid[k] \/ co.lock[k] # Free \/ co.cache[k] = co.rows[k]
    BY DEF RouterInv, CachesFresh, Fresh
  <2>3. \A t \in Threads : T(t).moved => T(t).result \notin {"SERVER_FAULT", "PROGRAM_ERROR"}
    BY DEF RouterInv, ThreadInv, ThreadSees
  <2> QED BY <2>1, <2>2, <2>3 DEF RoutesRight, MoveIsSeen
<1> QED BY <1>1, RouterInvariance, PTL

-----------------------------------------------------------------------------
(* RemoteIO: instances are closed.                                          *)

\* What is left of a list of operations is one, and goes on to its close.
LEMMA OpsGoOn ==
    ASSUME NEW ops \in Seq(IOOps), ops # <<>>
    PROVE  /\ Tail(ops) \in Seq(IOOps) /\ Head(ops) \in IOOps
           /\ ClosesLast(ops) => /\ ClosesLast(Tail(ops))
                                 /\ Head(ops).op # "close" => Tail(ops) # <<>>
           /\ NeverOpens(ops) => NeverOpens(Tail(ops)) /\ Head(ops).op \in {"small", "delete", "stat"}
<1>1. /\ Tail(ops) \in Seq(IOOps) /\ Head(ops) \in IOOps /\ Head(ops) = ops[1] /\ 1 \in DOMAIN ops
      /\ Len(Tail(ops)) = Len(ops) - 1 /\ Len(ops) \in Nat /\ Len(ops) > 0
      /\ DOMAIN ops = 1 .. Len(ops) /\ DOMAIN Tail(ops) = 1 .. Len(ops) - 1
      /\ \A k \in 1 .. Len(ops) - 1 : Tail(ops)[k] = ops[k + 1]
  OBVIOUS
<1>2. ASSUME ClosesLast(ops) PROVE ClosesLast(Tail(ops))
  <2> SUFFICES ASSUME NEW k \in 1 .. Len(ops) - 1 PROVE Tail(ops)[k].op = "close" <=> k = Len(ops) - 1
    BY <1>1 DEF ClosesLast
  <2>1. k + 1 \in DOMAIN ops /\ Tail(ops)[k] = ops[k + 1]
    BY <1>1
  <2>2. ops[k + 1].op = "close" <=> k + 1 = Len(ops)
    BY <1>2, <2>1 DEF ClosesLast
  <2>3. Len(ops) \in Nat /\ k \in Int
    BY <1>1
  <2>4. k + 1 = Len(ops) <=> k = Len(ops) - 1
    BY <2>3
  <2> QED BY <2>1, <2>2, <2>4
<1>3. ASSUME ClosesLast(ops), Head(ops).op # "close" PROVE Tail(ops) # <<>>
  <2>1. Len(ops) # 1
    BY <1>1, <1>3 DEF ClosesLast
  <2>2. Len(ops) \in Nat /\ Len(ops) > 0 /\ Len(Tail(ops)) = Len(ops) - 1
    BY <1>1
  <2>3. Len(Tail(ops)) # 0
    BY <2>1, <2>2
  <2>4. Len(<< >>) = 0
    OBVIOUS
  <2> QED BY <2>3, <2>4, Zenon
<1>4. ASSUME NeverOpens(ops) PROVE NeverOpens(Tail(ops)) /\ Head(ops).op \in {"small", "delete", "stat"}
  <2>1. ASSUME NEW k \in DOMAIN Tail(ops) PROVE Tail(ops)[k].op \in {"small", "delete", "stat"}
    <3>1. k + 1 \in DOMAIN ops /\ Tail(ops)[k] = ops[k + 1]
      BY <1>1
    <3> QED BY <1>4, <3>1 DEF NeverOpens
  <2> QED BY <1>1, <1>4, <2>1 DEF NeverOpens
<1> QED BY <1>1, <1>2, <1>3, <1>4

\* Nodes give new numbers and take none back that was closed.
NodesGoOn ==
    /\ NodesSound'
    /\ \A n \in Nodes : /\ srv'[n].nextFd >= srv[n].nextFd
                        /\ \A f \in DOMAIN srv'[n].insts : f \in Fds(n) \/ f >= srv[n].nextFd

\* So what holds of another user still does.
LEMMA OthersSound ==
    ASSUME NodesSound, NodesGoOn, NEW r, UserSound(r, srv)
    PROVE  UserSound(r, srv')
<1>1. \A n \in Nodes : /\ srv[n].nextFd \in Nat /\ srv'[n].nextFd \in Nat /\ srv'[n].nextFd >= srv[n].nextFd
                       /\ \A f \in DOMAIN srv'[n].insts : f \in Fds(n) \/ f >= srv[n].nextFd
  BY DEF NodesSound, NodesGoOn
<1>2. \A n \in Nodes : \A f : Given(srv, n, f) =>
        Given(srv', n, f) /\ (f \notin DOMAIN srv[n].insts => f \notin DOMAIN srv'[n].insts)
  BY <1>1 DEF Given, Fds
<1>3. UserBase(r, srv')
  BY <1>2 DEF UserSound, UserBase
<1>4. UserAt(r, srv')
  BY <1>2 DEF UserSound, UserBase, UserAt
<1> QED BY <1>3, <1>4 DEF UserSound

\* What an operation leaves, with or without an error.
LEMMA NextSound ==
    ASSUME NEW S, NEW r, UserBase(r, S), r.ops # <<>>, NEW s, NEW code, s = NextOp(r) \/ s = Fails(r, code)
    PROVE  /\ UserSound(s, S) /\ s.opened = r.opened /\ s.client = r.client /\ s.fd = r.fd /\ s.pc = "ready"
           /\ s.ops = Tail(r.ops)
           /\ r.opened /\ Head(r.ops).op # "close" => s.ops # <<>>
<1>1. /\ IsRecord(s, IOFields) /\ s.opened = r.opened /\ s.client = r.client /\ s.fd = r.fd /\ s.pc = "ready"
      /\ s.ops = Tail(r.ops) /\ s.call = r.call /\ s.node = r.node /\ s.todo = r.todo
  <2>1. IsRecord(r, IOFields)
    BY DEF UserBase
  <2>2. PICK q : q = NextOp(r)
    OBVIOUS
  <2>3. /\ IsRecord(q, IOFields) /\ q.opened = r.opened /\ q.client = r.client /\ q.fd = r.fd /\ q.pc = "ready"
        /\ q.ops = Tail(r.ops) /\ q.call = r.call /\ q.node = r.node /\ q.todo = r.todo
    BY <2>1, <2>2 DEF NextOp, IsRecord, IOFields
  <2>4. CASE s = NextOp(r)
    BY <2>2, <2>3, <2>4
  <2>5. CASE s = Fails(r, code)
    <3>1. s = [q EXCEPT !.ret = code, !.failed = TRUE]
      BY <2>2, <2>5 DEF Fails
    <3> QED BY <2>3, <3>1 DEF IsRecord, IOFields
  <2> QED BY <2>4, <2>5
<1>2. s.ops \in Seq(IOOps) /\ (ClosesLast(s.ops) \/ (NeverOpens(s.ops) /\ ~s.opened))
  BY <1>1, OpsGoOn DEF UserBase
<1>3. r.opened /\ Head(r.ops).op # "close" => s.ops # <<>>
  BY <1>1, OpsGoOn DEF UserBase
<1>4. UserBase(s, S)
  BY <1>1, <1>2 DEF UserBase
<1>5. UserAt(s, S)
  BY <1>1 DEF UserAt, Waiting, Opening
<1> QED BY <1>1, <1>3, <1>4, <1>5 DEF UserSound

\* The instances of nodes pass from r to s.
Hands(r, s) == \A n \in Remote : \A f \in Fds(n) : Owns(r, n, f) => Owns(s, n, f)
Waits0(r) == r.pc \in Waiting /\ r.reply = "none"

\* A step of a user without a call, nodes left alone or only their files.
LEMMA QuietUser ==
    ASSUME IOSound, NEW u \in IOUsers, NEW r, UserSound(r, srv), io' = [io EXCEPT ![u] = r], ~Waits0(R(u)),
           net' = net, NodesSound', \A n \in Nodes : srv'[n].insts = srv[n].insts /\ srv'[n].nextFd = srv[n].nextFd,
           Hands(R(u), r)
    PROVE  IOSound'
<1>1. NodesSound /\ NetSound /\ Owned /\ io = [v \in IOUsers |-> R(v)] /\ Remote \subseteq Nodes
  BY DEF IOSound, Nodes
<1>2. NodesGoOn
  BY <1>1 DEF NodesGoOn, NodesSound, Fds
<1>3. R(u)' = r /\ (\A v \in IOUsers \ {u} : R(v)' = R(v)) /\ io' = [v \in IOUsers |-> R(v)']
  BY <1>1 DEF R
<1>4. UserSound(r, srv')
  BY <1>1, <1>2, OthersSound
<1>5. \A v \in IOUsers : UserSound(R(v)', srv')
  BY <1>1, <1>2, <1>3, <1>4, OthersSound DEF IOSound
<1>6. NetSound'
  BY <1>1, <1>3 DEF NetSound, Waits0
<1>7. Owned'
  BY <1>1, <1>3 DEF Owned, Hands, Fds
<1> QED BY <1>1, <1>2, <1>3, <1>5, <1>6, <1>7 DEF IOSound, NodesGoOn

\* A step of a user that makes a call.
LEMMA SendStep ==
    ASSUME IOSound, NEW u \in IOUsers, NEW r, NEW c, NEW to \in Waiting, Send(u, r, c, to), ~Waits0(R(u)),
           IsRecord(r, IOFields), r.seq = R(u).seq,
           NEW s, s = [r EXCEPT !.pc = to, !.call = c, !.seq = @ + 1, !.reply = "none"], UserSound(s, srv),
           Hands(R(u), s)
    PROVE  IOSound'
<1>1. NodesSound /\ NetSound /\ Owned /\ io = [v \in IOUsers |-> R(v)]
  BY DEF IOSound
<1>2. PICK q : q = [by |-> u, seq |-> R(u).seq + 1, call |-> c, found |-> FALSE]
  OBVIOUS
<1>3. io' = [io EXCEPT ![u] = s] /\ net' = net \cup {q} /\ srv' = srv /\ nodeMap' = nodeMap
  BY <1>2 DEF Send, SetIO
<1>4. s.pc = to /\ s.call = c /\ s.seq = R(u).seq + 1 /\ s.reply = "none"
  BY DEF IsRecord, IOFields
<1>5. q.by = u /\ q.seq = R(u).seq + 1 /\ q.call = c /\ q = [by |-> q.by, seq |-> q.seq, call |-> q.call, found |-> q.found]
  BY <1>2
<1>6. R(u)' = s /\ (\A v \in IOUsers \ {u} : R(v)' = R(v)) /\ io' = [v \in IOUsers |-> R(v)']
  BY <1>1, <1>3 DEF R
<1>7. \A v \in IOUsers : UserSound(R(v)', srv')
  BY <1>3, <1>6 DEF IOSound
<1>8. NodesSound'
  BY <1>1, <1>3 DEF NodesSound, Fds
<1>9. NetSound'
  <2>1. \A p \in net : p.by # u
    BY <1>1 DEF NetSound, Waits0
  <2>2. ASSUME NEW p \in net'
        PROVE  /\ p = [by |-> p.by, seq |-> p.seq, call |-> p.call, found |-> p.found]
               /\ p.by \in IOUsers /\ R(p.by)'.pc \in Waiting /\ R(p.by)'.reply = "none"
               /\ p.seq = R(p.by)'.seq /\ p.call = R(p.by)'.call
    <3>1. CASE p = q
      BY <1>4, <1>5, <1>6, <3>1
    <3>2. CASE p \in net
      BY <1>1, <1>6, <2>1, <3>2 DEF NetSound
    <3> QED BY <1>3, <3>1, <3>2
  <2>3. \A p, o \in net' : p.by = o.by => p = o
    BY <1>1, <1>3, <1>5, <2>1 DEF NetSound
  <2> QED BY <2>2, <2>3 DEF NetSound
<1>10. Owned'
  BY <1>1, <1>3, <1>6 DEF Owned, Hands, Fds
<1> QED BY <1>6, <1>7, <1>8, <1>9, <1>10 DEF IOSound

\* A node answers a call.
LEMMA ReplyStep ==
    ASSUME IOSound, NEW q \in net, NEW code, code # "none", NEW fd, NEW got, Reply(q, code, fd, got), Served(q), NodesGoOn,
           NEW s, s = [R(q.by) EXCEPT !.reply = code, !.answer = fd, !.got = got], UserSound(s, srv'),
           \A n \in Remote : \A f \in DOMAIN srv'[n].insts : f \in Fds(n) \/ Owns(s, n, f)
    PROVE  IOSound'
<1>1. NodesSound /\ NetSound /\ Owned /\ io = [v \in IOUsers |-> R(v)]
  BY DEF IOSound
<1>2. PICK u \in IOUsers : u = q.by
  BY <1>1 DEF NetSound
<1>3. R(u).pc \in Waiting /\ R(u).reply = "none" /\ q.seq = R(u).seq /\ UserSound(R(u), srv) /\ R(u) = io[u]
  BY <1>1, <1>2 DEF NetSound, IOSound, R
<1>4. IsRecord(R(u), IOFields)
  BY <1>3 DEF UserSound, UserBase
<1>5. io' = [io EXCEPT ![u] = s]
  BY <1>1, <1>2, <1>3 DEF Reply
<1>6. R(u)' = s /\ (\A v \in IOUsers \ {u} : R(v)' = R(v)) /\ io' = [v \in IOUsers |-> R(v)']
  BY <1>1, <1>5 DEF R
<1>7. \A v \in IOUsers : UserSound(R(v)', srv')
  BY <1>1, <1>6, OthersSound DEF IOSound
<1>8. NetSound'
  <2>1. net' = net \ {q} /\ \A p \in net' : p.by # u
    BY <1>1, <1>2 DEF NetSound, Served
  <2> QED BY <1>1, <1>6, <2>1 DEF NetSound
<1>9. \A n, f : Owns(R(u), n, f) => Owns(s, n, f)
  <2>1. /\ s.pc = R(u).pc /\ s.opened = R(u).opened /\ s.client = R(u).client /\ s.fd = R(u).fd /\ s.ops = R(u).ops
        /\ s.ret = R(u).ret /\ s.node = R(u).node
    BY <1>2, <1>4 DEF IsRecord, IOFields
  <2> QED BY <1>3, <2>1 DEF Owns
<1>10. Owned'
  BY <1>1, <1>6, <1>9 DEF Owned, Fds
<1> QED BY <1>6, <1>7, <1>8, <1>10 DEF IOSound, NodesGoOn

\* Nodes whose files are all that changes.
FilesOnly ==
    /\ NodesGoOn
    /\ \A n \in Nodes : srv'[n].insts = srv[n].insts /\ srv'[n].nextFd = srv[n].nextFd
LEMMA SameNodes ==
    ASSUME NodesSound, srv' = srv, nodeMap' \subseteq Nodes
    PROVE  FilesOnly
BY DEF FilesOnly, NodesGoOn, NodesSound, Fds

\* Files of one node.
LEMMA NodeFiles ==
    ASSUME NodesSound, NEW m \in Nodes, NEW x, srv' = [srv EXCEPT ![m].files = x], nodeMap' = nodeMap
    PROVE  FilesOnly
<1>1. ASSUME NEW n \in Nodes
      PROVE  /\ IsRecord(srv'[n], NodeFields) /\ srv'[n].up
             /\ srv'[n].insts = srv[n].insts /\ srv'[n].nextFd = srv[n].nextFd
  <2>1. IsRecord(srv[n], NodeFields) /\ srv[n].up
    BY DEF NodesSound
  <2>2. CASE n = m
    <3>1. srv'[n] = [srv[n] EXCEPT !.files = x]
      BY <2>2 DEF NodesSound
    <3> QED BY <2>1, <3>1 DEF IsRecord, NodeFields
  <2>3. CASE n # m
    <3>1. srv'[n] = srv[n]
      BY <2>3 DEF NodesSound
    <3> QED BY <2>1, <3>1
  <2> QED BY <2>2, <2>3
<1>2. srv' = [n \in Nodes |-> srv'[n]]
  BY DEF NodesSound
<1>3. NodesSound'
  BY <1>1, <1>2 DEF NodesSound, Given, Fds
<1>4. \A n \in Nodes : srv'[n].nextFd >= srv[n].nextFd
  BY <1>1 DEF NodesSound
<1>5. NodesGoOn
  BY <1>1, <1>3, <1>4 DEF NodesGoOn, Fds
<1> QED BY <1>1, <1>5 DEF FilesOnly

\* What a call's answer must be like.
LEMMA AnswerSound ==
    ASSUME IOSound, NodesGoOn, NEW q \in net, NEW code, NEW fd, NEW got,
           NEW s, s = [R(q.by) EXCEPT !.reply = code, !.answer = fd, !.got = got],
           q.call.kind = "open" /\ code = "ok" => Given(srv', q.call.node, fd),
           q.call.kind = "close" /\ ~q.call.flush => q.call.fd \notin DOMAIN srv'[q.call.node].insts
    PROVE  UserSound(s, srv')
<1>1. NodesSound /\ q.by \in IOUsers /\ q.call = R(q.by).call /\ UserSound(R(q.by), srv)
  BY DEF IOSound, NetSound
<1>2. UserSound(R(q.by), srv')
  BY <1>1, OthersSound
<1>3. /\ IsRecord(s, IOFields) /\ s.reply = code /\ s.answer = fd
      /\ s.pc = R(q.by).pc /\ s.ops = R(q.by).ops /\ s.opened = R(q.by).opened /\ s.client = R(q.by).client
      /\ s.fd = R(q.by).fd /\ s.call = R(q.by).call /\ s.node = R(q.by).node /\ s.ret = R(q.by).ret
      /\ s.todo = R(q.by).todo
  BY <1>1 DEF UserSound, UserBase, IsRecord, IOFields
<1>4. UserBase(s, srv')
  BY <1>2, <1>3 DEF UserSound, UserBase
<1>5. UserAt(s, srv')
  BY <1>1, <1>2, <1>3 DEF UserSound, UserAt
<1> QED BY <1>4, <1>5 DEF UserSound

\* Answers that change no instance.
LEMMA PlainReply ==
    ASSUME IOSound, FilesOnly, NEW q \in net, NEW code, code # "none", NEW fd, NEW got, Reply(q, code, fd, got),
           Served(q), q.call.kind # "open" \/ code # "ok",
           q.call.kind = "close" /\ ~q.call.flush => q.call.fd \notin Fds(q.call.node), q.call.node \in Nodes
    PROVE  IOSound'
<1>1. PICK s : s = [R(q.by) EXCEPT !.reply = code, !.answer = fd, !.got = got]
  OBVIOUS
<1>2. NodesGoOn
  BY DEF FilesOnly
<1>3. UserSound(s, srv')
  BY <1>1, <1>2, AnswerSound DEF FilesOnly, Fds
<1>4. \A n \in Remote : \A f \in DOMAIN srv'[n].insts : f \in Fds(n) \/ Owns(s, n, f)
  BY DEF FilesOnly, Fds, Nodes
<1> QED BY <1>1, <1>2, <1>3, <1>4, ReplyStep

\* A number is given to the caller that waits for it.
LEMMA OpenServed ==
    ASSUME IOSound, NEW q \in net, ServeOpenFile(q)
    PROVE  IOSound'
<1>1. NodesSound /\ NetSound /\ q.by \in IOUsers /\ UserSound(R(q.by), srv) /\ q.call = R(q.by).call
      /\ R(q.by).pc \in Waiting
  BY DEF IOSound, NetSound
<1>2. q.call.node \in Nodes
  BY <1>1 DEF UserSound, UserAt
<1>3. PICK m \in Nodes : m = q.call.node
  BY <1>2
<1>4. PICK k : k = srv[m].nextFd
  OBVIOUS
<1>5. k \in Nat /\ IsRecord(srv[m], NodeFields) /\ srv[m].up
  BY <1>1, <1>4 DEF NodesSound
<1>6. PICK x : x = [f \in DOMAIN srv[m].insts \cup {k} |-> IF f = k THEN q.call.ino ELSE srv[m].insts[f]]
  OBVIOUS
<1>7. srv' = [srv EXCEPT ![m] = [srv[m] EXCEPT !.insts = x, !.nextFd = k + 1]]
  BY <1>1, <1>3, <1>4, <1>5, <1>6 DEF ServeOpenFile, NodesSound
<1>8. srv'[m] = [srv[m] EXCEPT !.insts = x, !.nextFd = k + 1]
  BY <1>1, <1>7 DEF NodesSound
<1>9. \A n \in Nodes \ {m} : srv'[n] = srv[n]
  BY <1>1, <1>7 DEF NodesSound
<1>10. srv' = [n \in Nodes |-> srv'[n]] /\ nodeMap' = nodeMap
  BY <1>1, <1>7 DEF NodesSound, ServeOpenFile, Served
<1>11. /\ srv'[m].insts = x /\ srv'[m].nextFd = k + 1
       /\ IsRecord(srv'[m], NodeFields) /\ srv'[m].up
  BY <1>5, <1>8 DEF IsRecord, NodeFields
<1>12. DOMAIN x = DOMAIN srv[m].insts \cup {k} /\ \A f \in DOMAIN x : f \in Nat /\ f < k + 1
  BY <1>1, <1>4, <1>5, <1>6 DEF NodesSound, Given, Fds
<1>13. NodesSound'
  <2>1. ASSUME NEW n \in Nodes
        PROVE  /\ IsRecord(srv'[n], NodeFields) /\ srv'[n].up
               /\ srv'[n].nextFd \in Nat /\ \A f \in DOMAIN srv'[n].insts : Given(srv', n, f)
    <3>1. CASE n = m
      BY <1>5, <1>11, <1>12, <3>1 DEF Given
    <3>2. CASE n # m
      BY <1>1, <1>9, <3>2 DEF NodesSound, Given, Fds
    <3> QED BY <3>1, <3>2
  <2> QED BY <1>1, <1>10, <2>1 DEF NodesSound, Fds
<1>14. NodesGoOn
  <2>1. ASSUME NEW n \in Nodes
        PROVE  srv'[n].nextFd >= srv[n].nextFd /\ \A f \in DOMAIN srv'[n].insts : f \in Fds(n) \/ f >= srv[n].nextFd
    <3>1. CASE n = m
      BY <1>4, <1>5, <1>11, <1>12, <3>1 DEF Fds
    <3>2. CASE n # m
      BY <1>1, <1>9, <3>2 DEF NodesSound, Fds
    <3> QED BY <3>1, <3>2
  <2> QED BY <1>13, <2>1 DEF NodesGoOn
<1>15. PICK s : s = [R(q.by) EXCEPT !.reply = "ok", !.answer = k, !.got = NoData]
  OBVIOUS
<1>16. Reply(q, "ok", k, NoData) /\ Served(q) /\ q.call.kind = "open"
  BY <1>3, <1>4 DEF ServeOpenFile
<1>17. Given(srv', q.call.node, k)
  BY <1>3, <1>5, <1>11 DEF Given
<1>18. UserSound(s, srv')
  BY <1>14, <1>15, <1>16, <1>17, AnswerSound
<1>19. /\ s.pc = R(q.by).pc /\ s.reply = "ok" /\ s.answer = k /\ s.call = R(q.by).call /\ s.ops = R(q.by).ops
  BY <1>1, <1>15 DEF UserSound, UserBase, IsRecord, IOFields
<1>20. s.pc = "opening"
  BY <1>1, <1>16, <1>19 DEF UserSound, UserAt, Waiting
<1>21. Owns(s, m, k)
  BY <1>1, <1>3, <1>16, <1>19, <1>20 DEF Owns
<1>22. \A n \in Remote : \A f \in DOMAIN srv'[n].insts : f \in Fds(n) \/ Owns(s, n, f)
  BY <1>9, <1>11, <1>12, <1>21 DEF Fds, Nodes
<1> QED BY <1>14, <1>15, <1>16, <1>18, <1>22, ReplyStep

\* A call finds its instance, or is told that there is none.
LEMMA FoundServed ==
    ASSUME IOSound, NEW q \in net, GetOpenInstanceByFd(q), q.call.node \in Nodes
    PROVE  IOSound'
<1>1. NodesSound /\ NetSound /\ Owned /\ srv' = srv /\ q.call.kind \in ByFd
  BY DEF IOSound, GetOpenInstanceByFd
<1>2. CASE q.call.fd \in Fds(q.call.node)
  <2>1. PICK p : p = [q EXCEPT !.found = TRUE]
    OBVIOUS
  <2>2. q = [by |-> q.by, seq |-> q.seq, call |-> q.call, found |-> q.found]
    BY <1>1 DEF NetSound
  <2>3. p = [by |-> q.by, seq |-> q.seq, call |-> q.call, found |-> TRUE]
    BY <2>1, <2>2
  <2>4. p.by = q.by /\ p.seq = q.seq /\ p.call = q.call /\ p = [by |-> p.by, seq |-> p.seq, call |-> p.call, found |-> p.found]
    BY <2>3
  <2>5. net' = (net \ {q}) \cup {p} /\ io' = io /\ nodeMap' = nodeMap
    BY <1>2, <2>1 DEF GetOpenInstanceByFd
  <2>6. NetSound'
    BY <1>1, <2>4, <2>5 DEF NetSound, R
  <2>7. NodesSound'
    BY <1>1, <2>5 DEF NodesSound, Fds
  <2>8. Owned' /\ \A u \in IOUsers : R(u)' = R(u)
    BY <1>1, <2>5 DEF Owned, Fds, R
  <2> QED BY <1>1, <2>5, <2>6, <2>7, <2>8 DEF IOSound
<1>3. CASE q.call.fd \notin Fds(q.call.node)
  <2>1. Reply(q, "EBADF", NoFd, NoData) /\ Served(q)
    BY <1>3 DEF GetOpenInstanceByFd
  <2>2. FilesOnly
    BY <1>1, <2>1, SameNodes DEF Served, NodesSound
  <2>3. q.call.kind # "open"
    BY <1>1 DEF ByFd
  <2> QED BY <1>3, <2>1, <2>2, <2>3, PlainReply
<1> QED BY <1>2, <1>3

\* A close takes its number away.
LEMMA CloseServed ==
    ASSUME IOSound, NEW q \in net, ServeCloseFile(q), q.call.node \in Nodes
    PROVE  IOSound'
<1>1. NodesSound /\ Reply(q, "ok", NoFd, NoData) /\ Served(q) /\ q.call.kind = "close" /\ nodeMap' = nodeMap
  BY DEF IOSound, ServeCloseFile, Opened, Served
<1>2. PICK m \in Nodes : m = q.call.node
  OBVIOUS
<1>3. IsRecord(srv[m], NodeFields) /\ srv[m].up
  BY <1>1 DEF NodesSound
<1>4. PICK x : x = Files(m, Target(q), q.call.off, q.call.vals)
  OBVIOUS
<1>5. CASE q.call.flush
  <2>1. srv' = [srv EXCEPT ![m] = [srv[m] EXCEPT !.files = x, !.insts = srv[m].insts]]
    BY <1>1, <1>2, <1>3, <1>4, <1>5 DEF ServeCloseFile, NodesSound
  <2>2. [srv[m] EXCEPT !.files = x, !.insts = srv[m].insts] = [srv[m] EXCEPT !.files = x]
    BY <1>3 DEF IsRecord, NodeFields
  <2>3. srv' = [srv EXCEPT ![m].files = x]
    BY <2>1, <2>2
  <2>4. FilesOnly
    BY <1>1, <2>3, NodeFiles
  <2> QED BY <1>1, <1>5, <2>4, PlainReply
<1>6. CASE ~q.call.flush
  <2>1. PICK y : y = Without(srv[m].insts, q.call.fd)
    OBVIOUS
  <2>2. srv' = [srv EXCEPT ![m] = [srv[m] EXCEPT !.files = x, !.insts = y]]
    BY <1>1, <1>2, <1>3, <1>4, <1>6, <2>1 DEF ServeCloseFile, NodesSound
  <2>3. srv'[m] = [srv[m] EXCEPT !.files = x, !.insts = y] /\ (\A n \in Nodes \ {m} : srv'[n] = srv[n])
        /\ srv' = [n \in Nodes |-> srv'[n]]
    BY <1>1, <2>2 DEF NodesSound
  <2>4. IsRecord(srv'[m], NodeFields) /\ srv'[m].up /\ srv'[m].insts = y /\ srv'[m].nextFd = srv[m].nextFd
    BY <1>3, <2>3 DEF IsRecord, NodeFields
  <2>5. DOMAIN y = DOMAIN srv[m].insts \ {q.call.fd}
    BY <2>1 DEF Without
  <2>6. \A n \in Nodes : /\ IsRecord(srv'[n], NodeFields) /\ srv'[n].up /\ srv'[n].nextFd = srv[n].nextFd
                         /\ DOMAIN srv'[n].insts \subseteq Fds(n)
    BY <1>1, <2>3, <2>4, <2>5 DEF NodesSound, Fds
  <2>7. NodesSound'
    BY <1>1, <2>3, <2>6 DEF NodesSound, Given, Fds
  <2>8. \A n \in Nodes : srv'[n].nextFd >= srv[n].nextFd
    BY <1>1, <2>6 DEF NodesSound
  <2>9. NodesGoOn
    BY <2>6, <2>7, <2>8 DEF NodesGoOn
  <2>10. PICK s : s = [R(q.by) EXCEPT !.reply = "ok", !.answer = NoFd, !.got = NoData]
    OBVIOUS
  <2>11. q.call.fd \notin DOMAIN srv'[q.call.node].insts
    BY <1>2, <2>4, <2>5
  <2>12. UserSound(s, srv')
    BY <1>1, <2>9, <2>10, <2>11, AnswerSound
  <2>13. \A n \in Remote : \A f \in DOMAIN srv'[n].insts : f \in Fds(n) \/ Owns(s, n, f)
    BY <2>6 DEF Nodes
  <2> QED BY <1>1, <2>9, <2>10, <2>12, <2>13, ReplyStep
<1> QED BY <1>5, <1>6

\* What nodes do with calls keeps the invariant, an error of theirs aside.
LEMMA ServeSound ==
    ASSUME IOSound, NEW q \in net, Serve(q), ~ServeFails(q)
    PROVE  IOSound'
<1>1. NodesSound /\ q.by \in IOUsers /\ UserSound(R(q.by), srv) /\ q.call = R(q.by).call /\ R(q.by).pc \in Waiting
  BY DEF IOSound, NetSound
<1>2. q.call.node \in Nodes
  BY <1>1 DEF UserSound, UserAt
<1>3. srv' = srv /\ nodeMap' = nodeMap => FilesOnly
  BY <1>1, SameNodes DEF NodesSound
<1>4. CASE ServeOpenFile(q)
  BY <1>4, OpenServed
<1>5. CASE GetOpenInstanceByFd(q)
  BY <1>2, <1>5, FoundServed
<1>6. CASE ServeCloseFile(q)
  BY <1>2, <1>6, CloseServed
<1>7. CASE IsClosed(q)
  BY <1>2, <1>3, <1>7, PlainReply DEF IsClosed, Served
<1>8. CASE ServeWriteFile(q)
  <2>1. PICK x : x = Files(q.call.node, Target(q), q.call.off, q.call.vals)
    OBVIOUS
  <2>2. srv' = [srv EXCEPT ![q.call.node].files = x] /\ Reply(q, "ok", NoFd, NoData) /\ Served(q) /\ q.call.kind = "write"
    BY <1>8, <2>1 DEF ServeWriteFile, Opened
  <2>3. FilesOnly
    BY <1>1, <1>2, <2>2, NodeFiles DEF Served
  <2> QED BY <1>2, <2>2, <2>3, PlainReply
<1>9. CASE ServeReadFile(q)
  BY <1>2, <1>3, <1>9, PlainReply DEF ServeReadFile, Opened, Served
<1>10. CASE ServeTruncateOpenInstance(q)
  BY <1>2, <1>3, <1>10, PlainReply DEF ServeTruncateOpenInstance, Opened, Served
<1>11. CASE ServeTruncateFile(q)
  <2>1. PICK x : x = [srv[q.call.node].files EXCEPT ![Target(q)] = [b \in Blocks |-> NoData]]
    OBVIOUS
  <2>2. srv' = [srv EXCEPT ![q.call.node].files[Target(q)] = [b \in Blocks |-> NoData]]
        /\ Reply(q, "ok", NoFd, NoData) /\ Served(q) /\ q.call.kind = "trunc"
    BY <1>11 DEF ServeTruncateFile, Opened
  <2>3. srv' = [srv EXCEPT ![q.call.node].files = x]
    BY <2>1, <2>2
  <2>4. FilesOnly
    BY <1>1, <1>2, <2>2, <2>3, NodeFiles DEF Served
  <2> QED BY <1>2, <2>2, <2>4, PlainReply
<1>12. CASE ServeReadSmallFile(q)
  BY <1>2, <1>3, <1>12, PlainReply DEF ServeReadSmallFile, Served
<1>13. CASE ServeDeleteFile(q)
  <2>1. PICK x : x = [srv[q.call.node].files EXCEPT ![q.call.ino] = [b \in Blocks |-> NoData]]
    OBVIOUS
  <2>2. srv' = [srv EXCEPT ![q.call.node].files[q.call.ino] = [b \in Blocks |-> NoData]]
        /\ Reply(q, "ok", NoFd, NoData) /\ Served(q) /\ q.call.kind = "delete"
    BY <1>13 DEF ServeDeleteFile
  <2>3. srv' = [srv EXCEPT ![q.call.node].files = x]
    BY <2>1, <2>2
  <2>4. FilesOnly
    BY <1>1, <1>2, <2>2, <2>3, NodeFiles DEF Served
  <2> QED BY <1>2, <2>2, <2>4, PlainReply
<1>14. CASE ServeStatFS(q)
  BY <1>2, <1>3, <1>14, PlainReply DEF ServeStatFS, Served
<1> QED BY <1>4, <1>5, <1>6, <1>7, <1>8, <1>9, <1>10, <1>11, <1>12, <1>13, <1>14 DEF Serve

\* s is r but for what the invariant does not look at between calls.
Like(s, r) ==
    /\ IsRecord(s, IOFields) /\ s.todo \subseteq Nodes
    /\ s.ops = r.ops /\ s.opened = r.opened /\ s.client = r.client /\ s.fd = r.fd
    /\ s.call = r.call /\ s.seq = r.seq /\ s.node \in Nodes /\ (r.opened => s.node = r.node)

\* s is r after its operation.
EndsOp(s, r) ==
    /\ IsRecord(s, IOFields) /\ s.todo \subseteq Nodes /\ s.pc = "ready"
    /\ s.ops = Tail(r.ops) /\ s.opened = r.opened /\ s.client = r.client /\ s.fd = r.fd
    /\ s.call = r.call /\ s.node \in Nodes /\ (r.opened => s.node = r.node)

\* The ways to end an operation.
LEMMA EndsForms ==
    ASSUME NEW r, NEW q, Like(q, r), NEW code, NEW o
    PROVE  EndsOp(NextOp(q), r) /\ EndsOp(Fails(q, code), r) /\ EndsOp(PushDone(q, o), r)
<1>1. PICK t : t = NextOp(q)
  OBVIOUS
<1>2. EndsOp(t, r)
  BY <1>1 DEF Like, EndsOp, NextOp, IsRecord, IOFields
<1>3. PICK x : x = Pushes(q, o.off, o.vals)
  OBVIOUS
<1>4. Fails(q, code) = [t EXCEPT !.ret = code, !.failed = TRUE] /\ PushDone(q, o) = [t EXCEPT !.pushed = x]
  BY <1>1, <1>3 DEF Fails, PushDone
<1>5. EndsOp([t EXCEPT !.ret = code, !.failed = TRUE], r)
  BY <1>2 DEF EndsOp, IsRecord, IOFields
<1>6. EndsOp([t EXCEPT !.pushed = x], r)
  BY <1>2 DEF EndsOp, IsRecord, IOFields
<1> QED BY <1>1, <1>2, <1>4, <1>5, <1>6

\* What r owns is open, and its close is still to come.
KeepsIts(r) ==
    \A n \in Remote : \A f \in Fds(n) : Owns(r, n, f) => r.opened /\ r.client = n /\ r.fd = f /\ Head(r.ops).op # "close"

\* The end of an operation.
LEMMA OpDone ==
    ASSUME IOSound, NEW u \in IOUsers, NEW s, EndsOp(s, R(u)), SetIO(u, s), ~Waits0(R(u)), net' = net, FilesOnly,
           R(u).ops # <<>>, KeepsIts(R(u))
    PROVE  IOSound'
<1>1. UserBase(R(u), srv)
  BY DEF IOSound, UserSound
<1>2. s.ops \in Seq(IOOps) /\ (ClosesLast(s.ops) \/ (NeverOpens(s.ops) /\ ~s.opened))
  BY <1>1, OpsGoOn DEF UserBase, EndsOp
<1>3. R(u).opened /\ Head(R(u).ops).op # "close" => s.ops # <<>>
  BY <1>1, OpsGoOn DEF UserBase, EndsOp
<1>4. UserBase(s, srv)
  BY <1>1, <1>2 DEF UserBase, EndsOp
<1>5. UserAt(s, srv)
  BY DEF UserAt, Waiting, Opening, EndsOp
<1>6. Hands(R(u), s)
  BY <1>3 DEF Hands, KeepsIts, Owns, EndsOp
<1> QED BY <1>4, <1>5, <1>6, QuietUser DEF UserSound, SetIO, FilesOnly, NodesGoOn

\* The calls that may be made at an operation.
GoodCall(r, c, to) ==
    /\ IsRecord(c, CallFields) /\ c.node \in Nodes /\ (c.kind = "open" => to = "opening")
    /\ to = "opening" => /\ ~r.opened /\ Head(r.ops).op \in {"push", "read", "trunc", "small"}
                         /\ c.kind = (IF Head(r.ops).op = "small" THEN "small" ELSE "open")
                         /\ c.node = r.node
    /\ to \in {"writing", "reading", "truncating", "deleting", "asking"} => Head(r.ops).op # "close"
    /\ to = "closing" => /\ r.opened /\ r.client # Local
                         /\ c.kind = "close" /\ c.node = r.client /\ c.fd = r.fd
                         /\ ~c.flush => Head(r.ops).op = "close"

\* A call is made.
LEMMA CallMade ==
    ASSUME IOSound, NEW u \in IOUsers, NEW r, Like(r, R(u)), r.node = R(u).node, NEW c, NEW to \in Waiting, GoodCall(R(u), c, to),
           Send(u, r, c, to), ~Waits0(R(u)), R(u).ops # <<>>, R(u).pc \notin {"opening", "opened"}
    PROVE  IOSound'
<1>1. UserBase(R(u), srv)
  BY DEF IOSound, UserSound
<1>2. PICK s : s = [r EXCEPT !.pc = to, !.call = c, !.seq = @ + 1, !.reply = "none"]
  OBVIOUS
<1>3. PICK k : k = r.seq + 1
  OBVIOUS
<1>4. s = [r EXCEPT !.pc = to, !.call = c, !.seq = k, !.reply = "none"]
  BY <1>2, <1>3
<1>5. /\ IsRecord(s, IOFields) /\ s.pc = to /\ s.call = c /\ s.reply = "none" /\ s.todo \subseteq Nodes
      /\ s.ops = R(u).ops /\ s.opened = R(u).opened /\ s.client = R(u).client /\ s.fd = R(u).fd /\ s.node = R(u).node
  BY <1>4 DEF Like, IsRecord, IOFields
<1>6. UserBase(s, srv)
  BY <1>1, <1>5 DEF UserBase, GoodCall
<1>7. UserAt(s, srv)
  BY <1>5 DEF UserAt, GoodCall, Waiting, Opening
<1>8. Hands(R(u), s)
  BY <1>5 DEF Hands, Owns
<1> QED BY <1>2, <1>6, <1>7, <1>8, SendStep DEF UserSound, Like

\* The record of a call.
LEMMA CallForms ==
    ASSUME NEW u, NEW b, IsRecord(b, CallFields), NEW c, c = CallOf(u, b)
    PROVE  IsRecord(c, CallFields) /\ c.kind = b.kind /\ c.flush = b.flush /\ c.node = R(u).node /\ c.fd = R(u).fd
<1>1. PICK r : r = R(u)
  OBVIOUS
<1>2. c = [b EXCEPT !.node = r.node, !.fd = r.fd, !.ino = r.ino]
  BY <1>1 DEF CallOf
<1> QED BY <1>1, <1>2 DEF IsRecord, CallFields

\* ... and of one that is not filled in yet.
LEMMA EmptyCall == IsRecord(Call0, CallFields)
BY DEF Call0, IsRecord, CallFields

\* What is known of a user before its step.
LEMMA UserFacts ==
    ASSUME IOSound, NEW u \in IOUsers
    PROVE  /\ UserSound(R(u), srv) /\ UserBase(R(u), srv) /\ UserAt(R(u), srv)
           /\ IsRecord(R(u), IOFields) /\ IsRecord(R(u).call, CallFields) /\ Like(R(u), R(u))
           /\ R(u).node \in Nodes /\ R(u).client \in Nodes /\ R(u).todo \subseteq Nodes /\ nodeMap \subseteq Nodes
           /\ R(u).opened /\ R(u).client # Local => R(u).client = R(u).node
           /\ Same => FilesOnly /\ net' = net
           /\ Local \in Nodes /\ Local \notin Remote /\ Remote \subseteq Nodes
<1>1. UserSound(R(u), srv) /\ NodesSound
  BY DEF IOSound
<1>2. UserBase(R(u), srv) /\ UserAt(R(u), srv)
  BY <1>1 DEF UserSound
<1>3. /\ IsRecord(R(u), IOFields) /\ IsRecord(R(u).call, CallFields) /\ Like(R(u), R(u))
      /\ R(u).node \in Nodes /\ R(u).client \in Nodes /\ R(u).todo \subseteq Nodes
      /\ R(u).opened /\ R(u).client # Local => R(u).client = R(u).node
  BY <1>2 DEF UserBase, Like
<1>4. nodeMap \subseteq Nodes /\ (Same => FilesOnly /\ net' = net)
  BY <1>1, SameNodes DEF NodesSound, Same
<1>5. Local \in Nodes /\ Local \notin Remote /\ Remote \subseteq Nodes
  BY IOAssumptions DEF Nodes
<1> QED BY <1>1, <1>2, <1>3, <1>4, <1>5

\* ... between two calls,
LEMMA AtReady ==
    ASSUME IOSound, NEW u \in IOUsers, NEW ops, AtOp(u, ops)
    PROVE  /\ R(u).pc = "ready" /\ R(u).ops # <<>> /\ ~Waits0(R(u)) /\ Op(u) = Head(R(u).ops) /\ Op(u).op \in ops
           /\ "close" \notin ops => KeepsIts(R(u))
           /\ \A n, f : Owns(R(u), n, f) => R(u).opened /\ R(u).client = n /\ R(u).fd = f
BY DEF AtOp, IOAt, Waits0, Waiting, Op, KeepsIts, Owns

\* ... and when one has been answered.
LEMMA AtAnswer ==
    ASSUME IOSound, NEW u \in IOUsers, NEW pc \in Waiting, Answered(u, pc)
    PROVE  /\ R(u).pc = pc /\ R(u).ops # <<>> /\ ~Waits0(R(u)) /\ Op(u) = Head(R(u).ops) /\ R(u).reply # "none"
           /\ R(u).call.node \in Nodes /\ (R(u).call.kind = "open" => pc = "opening")
           /\ pc \notin {"opening", "closing"} => KeepsIts(R(u)) /\ Head(R(u).ops).op # "close"
<1>1. R(u).pc = pc /\ R(u).reply # "none" /\ Op(u) = Head(R(u).ops) /\ UserAt(R(u), srv)
  BY UserFacts DEF Answered, IOAt, Op
<1>2. R(u).ops # <<>> /\ R(u).call.node \in Nodes /\ (R(u).call.kind = "open" => pc = "opening") /\ ~Waits0(R(u))
  BY <1>1 DEF UserAt, Waiting, Waits0
<1>3. ASSUME pc \notin {"opening", "closing"} PROVE KeepsIts(R(u)) /\ Head(R(u).ops).op # "close"
  <2>1. Head(R(u).ops).op # "close"
    BY <1>1, <1>3 DEF UserAt, Waiting
  <2> QED BY <1>1, <1>3, <2>1 DEF KeepsIts, Owns, Waiting
<1> QED BY <1>1, <1>2, <1>3

\* A step to another place of the same operation.
LEMMA MovedOn ==
    ASSUME IOSound, NEW u \in IOUsers, NEW s, Like(s, R(u)), UserAt(s, srv), SetIO(u, s), ~Waits0(R(u)),
           net' = net, FilesOnly, Hands(R(u), s)
    PROVE  IOSound'
<1>1. UserBase(R(u), srv)
  BY DEF IOSound, UserSound
<1>2. UserBase(s, srv)
  BY <1>1 DEF UserBase, Like
<1> QED BY <1>2, QuietUser DEF UserSound, SetIO, FilesOnly, NodesGoOn

\* An operation begins to open the file, or has it opened here.
LEMMA OpenFileSound ==
    ASSUME IOSound, NEW u \in IOUsers, OpenFile(u)
    PROVE  IOSound'
<1>1. AtOp(u, {"push", "read", "trunc", "small"}) /\ ~R(u).opened /\ Same
  BY DEF OpenFile
<1>2. /\ R(u).pc = "ready" /\ R(u).ops # <<>> /\ ~Waits0(R(u)) /\ KeepsIts(R(u)) /\ Op(u) = Head(R(u).ops)
      /\ Op(u).op \in {"push", "read", "trunc", "small"}
      /\ \A n, f : ~Owns(R(u), n, f)
  BY <1>1, AtReady
<1>3. FilesOnly /\ net' = net /\ IsRecord(R(u), IOFields) /\ UserBase(R(u), srv) /\ Like(R(u), R(u))
  BY <1>1, UserFacts
<1>4. CASE R(u).node = Local /\ Small(u)
  <2>1. PICK r : r = [R(u) EXCEPT !.filled = TRUE]
    OBVIOUS
  <2>2. Like(r, R(u))
    BY <1>3, <2>1 DEF Like, IsRecord, IOFields
  <2>3. SetIO(u, NextOp(r)) /\ EndsOp(NextOp(r), R(u))
    BY <1>4, <2>1, <2>2, EndsForms DEF OpenFile
  <2> QED BY <1>2, <1>3, <2>3, OpDone
<1>5. CASE R(u).node = Local /\ ~Small(u)
  <2>1. PICK s : s = [R(u) EXCEPT !.opened = TRUE]
    OBVIOUS
  <2>2. SetIO(u, s)
    BY <1>5, <2>1 DEF OpenFile
  <2>3. /\ IsRecord(s, IOFields) /\ s.opened = TRUE /\ s.pc = "ready" /\ s.ops = R(u).ops /\ s.client = R(u).client
        /\ s.node = R(u).node /\ s.call = R(u).call /\ s.todo = R(u).todo
    BY <1>2, <1>3, <2>1 DEF IsRecord, IOFields
  <2>4. ClosesLast(R(u).ops) /\ R(u).client = Local
    BY <1>1, <1>2, <1>3, <1>5, OpsGoOn DEF UserBase, Small
  <2>5. UserBase(s, srv)
    BY <1>3, <2>3, <2>4 DEF UserBase
  <2>6. UserAt(s, srv) /\ Hands(R(u), s)
    BY <1>2, <2>3 DEF UserAt, Waiting, Opening, Hands
  <2> QED BY <1>2, <1>3, <2>2, <2>5, <2>6, QuietUser DEF UserSound, SetIO, FilesOnly, NodesGoOn
<1>6. CASE R(u).node # Local
  <2>1. PICK k : k = Cardinality(nodeMap)
    OBVIOUS
  <2>2. PICK s : s = [R(u) EXCEPT !.pc = "loop", !.loops = k, !.tries = RetryNum, !.ret = "EHOSTUNREACH"]
    OBVIOUS
  <2>3. SetIO(u, s)
    BY <1>6, <2>1, <2>2 DEF OpenFile
  <2>4. Like(s, R(u)) /\ s.pc = "loop" /\ s.ret = "EHOSTUNREACH"
    BY <1>3, <2>2 DEF Like, IsRecord, IOFields
  <2>5. UserAt(s, srv) /\ Hands(R(u), s)
    BY <1>1, <1>2, <2>4 DEF UserAt, Waiting, Opening, Hands, Like
  <2> QED BY <1>2, <1>3, <2>3, <2>4, <2>5, MovedOn
<1> QED BY <1>4, <1>5, <1>6

\* While a file is being opened nothing of it is open, and only an answer is owned.
LEMMA AtOpening ==
    ASSUME IOSound, NEW u \in IOUsers, NEW pc \in {"loop", "turn", "opened"}, IOAt(u, pc)
    PROVE  /\ R(u).pc = pc /\ R(u).ops # <<>> /\ ~Waits0(R(u)) /\ Op(u) = Head(R(u).ops)
           /\ ~R(u).opened /\ R(u).client = Local
           /\ Head(R(u).ops).op \in {"push", "read", "trunc", "small"}
           /\ pc # "opened" => R(u).ret # "ok"
           /\ R(u).ret # "ok" \/ Small(u) => KeepsIts(R(u)) /\ \A n, f : ~Owns(R(u), n, f)
           /\ Small(u) \/ ClosesLast(R(u).ops)
<1>1. R(u).pc = pc /\ UserAt(R(u), srv) /\ UserBase(R(u), srv) /\ Op(u) = Head(R(u).ops)
      /\ (Small(u) <=> Head(R(u).ops).op = "small")
  BY UserFacts DEF IOAt, Op, Small
<1>2. /\ R(u).ops # <<>> /\ ~Waits0(R(u)) /\ ~R(u).opened /\ (pc # "opened" => R(u).ret # "ok")
      /\ Head(R(u).ops).op \in {"push", "read", "trunc", "small"}
  BY <1>1 DEF UserAt, Waits0, Waiting, Opening
<1>3. R(u).client = Local
  BY <1>1, <1>2 DEF UserBase
<1>4. R(u).ret # "ok" \/ Small(u) => KeepsIts(R(u)) /\ \A n, f : ~Owns(R(u), n, f)
  BY <1>1, <1>2 DEF KeepsIts, Owns
<1>5. Small(u) \/ ClosesLast(R(u).ops)
  BY <1>1, <1>2, OpsGoOn DEF UserBase
<1> QED BY <1>1, <1>2, <1>3, <1>4, <1>5

\* A turn of the loop that opens a file at another node.
LEMMA FromRemoteSound ==
    ASSUME IOSound, NEW u \in IOUsers, OpenFileFromRemote(u)
    PROVE  IOSound'
<1>1. /\ R(u).pc = "loop" /\ R(u).ops # <<>> /\ ~Waits0(R(u)) /\ ~R(u).opened /\ R(u).ret # "ok"
      /\ Head(R(u).ops).op \in {"push", "read", "trunc", "small"} /\ (Small(u) <=> Head(R(u).ops).op = "small")
      /\ \A n, f : ~Owns(R(u), n, f)
  BY AtOpening DEF OpenFileFromRemote, Small
<1>2. IsRecord(R(u), IOFields) /\ Like(R(u), R(u)) /\ R(u).node \in Nodes
  BY UserFacts
<1>3. ASSUME Send(u, R(u), CallOf(u, [Call0 EXCEPT !.kind = IF Small(u) THEN "small" ELSE "open"]), "opening")
      PROVE  IOSound'
  <2>1. PICK k : k = IF Small(u) THEN "small" ELSE "open"
    OBVIOUS
  <2>2. PICK b : b = [Call0 EXCEPT !.kind = k]
    OBVIOUS
  <2>3. IsRecord(b, CallFields) /\ b.kind = k
    BY <2>2, EmptyCall DEF IsRecord, CallFields
  <2>4. PICK c : c = CallOf(u, b)
    OBVIOUS
  <2>5. IsRecord(c, CallFields) /\ c.kind = k /\ c.node = R(u).node
    BY <2>3, <2>4, CallForms
  <2>6. GoodCall(R(u), c, "opening")
    BY <1>1, <1>2, <2>1, <2>5 DEF GoodCall
  <2>7. Send(u, R(u), c, "opening") /\ "opening" \in Waiting
    BY <1>3, <2>1, <2>2, <2>4 DEF Waiting
  <2> QED BY <1>1, <1>2, <2>6, <2>7, CallMade
<1>4. ASSUME NEW pc \in {"turn", "opened"}, SetIO(u, [R(u) EXCEPT !.pc = pc]), Same
      PROVE  IOSound'
  <2>1. PICK s : s = [R(u) EXCEPT !.pc = pc]
    OBVIOUS
  <2>2. Like(s, R(u)) /\ s.pc = pc /\ s.ret = R(u).ret
    BY <1>2, <2>1 DEF Like, IsRecord, IOFields
  <2>3. UserAt(s, srv) /\ Hands(R(u), s)
    BY <1>1, <2>2 DEF UserAt, Waiting, Opening, Hands, Like
  <2>4. FilesOnly /\ net' = net /\ SetIO(u, s)
    BY <1>4, <2>1, UserFacts
  <2> QED BY <1>1, <2>2, <2>3, <2>4, MovedOn
<1> QED BY <1>3, <1>4 DEF OpenFileFromRemote

\* The number that a node has given reaches the user.
LEMMA OpenReturnsSound ==
    ASSUME IOSound, NEW u \in IOUsers, OpenReturns(u)
    PROVE  IOSound'
<1>1. R(u).pc = "opening" /\ R(u).ops # <<>> /\ ~Waits0(R(u)) /\ Op(u) = Head(R(u).ops)
  BY AtAnswer DEF OpenReturns, Waiting
<1>2. UserAt(R(u), srv) /\ UserBase(R(u), srv) /\ IsRecord(R(u), IOFields) /\ FilesOnly /\ net' = net
  BY UserFacts DEF OpenReturns
<1>3. /\ ~R(u).opened /\ Head(R(u).ops).op \in {"push", "read", "trunc", "small"}
      /\ R(u).call.kind = (IF Head(R(u).ops).op = "small" THEN "small" ELSE "open") /\ R(u).call.node = R(u).node
      /\ R(u).reply = "ok" /\ R(u).call.kind = "open" => Given(srv, R(u).node, R(u).answer)
  BY <1>1, <1>2 DEF UserAt, Opening
<1>4. PICK pc : pc = IF ConnectionError(R(u).reply) THEN "turn" ELSE "opened"
  OBVIOUS
<1>5. PICK fd : fd = IF R(u).reply = "ok" /\ ~Small(u) THEN R(u).answer ELSE R(u).fd
  OBVIOUS
<1>6. PICK s : s = [R(u) EXCEPT !.pc = pc, !.ret = R(u).reply, !.fd = fd]
  OBVIOUS
<1>7. SetIO(u, s)
  BY <1>2, <1>4, <1>5, <1>6 DEF OpenReturns, IsRecord, IOFields
<1>8. /\ IsRecord(s, IOFields) /\ s.pc = pc /\ s.ret = R(u).reply /\ s.fd = fd /\ s.ops = R(u).ops /\ s.opened = R(u).opened
      /\ s.client = R(u).client /\ s.node = R(u).node /\ s.call = R(u).call /\ s.todo = R(u).todo
  BY <1>2, <1>6 DEF IsRecord, IOFields
<1>9. pc \in {"turn", "opened"} /\ (pc = "turn" => R(u).reply # "ok")
  BY <1>4 DEF ConnectionError
<1>10. R(u).reply = "ok" /\ Head(R(u).ops).op # "small" => fd = R(u).answer /\ pc = "opened" /\ Given(srv, R(u).node, fd)
  BY <1>1, <1>3, <1>4, <1>5 DEF Small, ConnectionError
<1>11. UserBase(s, srv)
  BY <1>2, <1>3, <1>8 DEF UserBase
<1>12. UserAt(s, srv)
  BY <1>1, <1>3, <1>8, <1>9, <1>10 DEF UserAt, Waiting, Opening
<1>13. Hands(R(u), s)
  BY <1>1, <1>3, <1>8, <1>10 DEF Hands, Owns
<1> QED BY <1>1, <1>2, <1>7, <1>11, <1>12, <1>13, QuietUser DEF UserSound, SetIO, FilesOnly, NodesGoOn

\* An open that has ended.
LEMMA RemoteOpenedSound ==
    ASSUME IOSound, NEW u \in IOUsers, RemoteOpened(u)
    PROVE  IOSound'
<1>1. /\ R(u).pc = "opened" /\ R(u).ops # <<>> /\ ~Waits0(R(u)) /\ ~R(u).opened
      /\ (Small(u) <=> Head(R(u).ops).op = "small")
      /\ R(u).ret # "ok" \/ Small(u) => KeepsIts(R(u))
      /\ Small(u) \/ ClosesLast(R(u).ops)
  BY AtOpening DEF RemoteOpened, Small
<1>2. IsRecord(R(u), IOFields) /\ Like(R(u), R(u)) /\ FilesOnly /\ net' = net /\ UserBase(R(u), srv) /\ UserAt(R(u), srv)
  BY UserFacts DEF RemoteOpened
<1>3. CASE R(u).ret = "ok" /\ Small(u)
  <2>1. PICK r : r = [R(u) EXCEPT !.filled = TRUE]
    OBVIOUS
  <2>2. Like(r, R(u)) /\ SetIO(u, NextOp(r))
    BY <1>2, <1>3, <2>1 DEF Like, IsRecord, IOFields, RemoteOpened
  <2> QED BY <1>1, <1>2, <1>3, <2>2, EndsForms, OpDone
<1>4. CASE R(u).ret = "ok" /\ ~Small(u)
  <2>1. PICK s : s = [R(u) EXCEPT !.pc = "ready", !.opened = TRUE, !.client = R(u).node]
    OBVIOUS
  <2>2. SetIO(u, s)
    BY <1>4, <2>1 DEF RemoteOpened
  <2>3. /\ IsRecord(s, IOFields) /\ s.pc = "ready" /\ s.opened = TRUE /\ s.client = R(u).node /\ s.fd = R(u).fd
        /\ s.ops = R(u).ops /\ s.node = R(u).node /\ s.call = R(u).call /\ s.todo = R(u).todo
    BY <1>2, <2>1 DEF IsRecord, IOFields
  <2>4. Given(srv, R(u).node, R(u).fd) /\ ClosesLast(R(u).ops)
    BY <1>1, <1>2, <1>4 DEF UserAt
  <2>5. UserBase(s, srv)
    BY <1>2, <2>3, <2>4 DEF UserBase
  <2>6. UserAt(s, srv)
    BY <2>3 DEF UserAt, Waiting, Opening
  <2>7. Hands(R(u), s)
    BY <1>1, <2>3 DEF Hands, Owns
  <2> QED BY <1>1, <1>2, <2>2, <2>5, <2>6, <2>7, QuietUser DEF UserSound, SetIO, FilesOnly, NodesGoOn
<1>5. CASE R(u).ret # "ok" /\ Small(u) /\ R(u).persist
  <2>1. PICK r : r = [R(u) EXCEPT !.filled = TRUE, !.ret = "ok"]
    OBVIOUS
  <2>2. Like(r, R(u)) /\ SetIO(u, NextOp(r))
    BY <1>2, <1>5, <2>1 DEF Like, IsRecord, IOFields, RemoteOpened
  <2> QED BY <1>1, <1>2, <1>5, <2>2, EndsForms, OpDone
<1>6. CASE R(u).ret # "ok" /\ ~(Small(u) /\ R(u).persist)
  <2>1. SetIO(u, Fails(R(u), R(u).ret))
    BY <1>6 DEF RemoteOpened
  <2> QED BY <1>1, <1>2, <1>6, <2>1, EndsForms, OpDone
<1> QED BY <1>3, <1>4, <1>5, <1>6

\* The same node is tried again, another one, or the file is opened here.
LEMMA SwitchNodeSound ==
    ASSUME IOSound, NEW u \in IOUsers, SwitchNode(u)
    PROVE  IOSound'
<1>1. /\ R(u).pc = "turn" /\ R(u).ops # <<>> /\ ~Waits0(R(u)) /\ ~R(u).opened /\ R(u).client = Local /\ R(u).ret # "ok"
      /\ Head(R(u).ops).op \in {"push", "read", "trunc", "small"} /\ (Small(u) <=> Head(R(u).ops).op = "small")
      /\ KeepsIts(R(u)) /\ (\A n, f : ~Owns(R(u), n, f)) /\ (Small(u) \/ ClosesLast(R(u).ops))
  BY AtOpening DEF SwitchNode, Small
<1>2. /\ IsRecord(R(u), IOFields) /\ Like(R(u), R(u)) /\ UserBase(R(u), srv) /\ nodeMap \subseteq Nodes /\ Local \in Nodes
      /\ NodesSound /\ srv' = srv /\ net' = net
  BY UserFacts DEF SwitchNode, IOSound
<1>3. nodeMap' \subseteq Nodes
  BY <1>2 DEF SwitchNode
<1>4. FilesOnly
  BY <1>2, <1>3, SameNodes
<1>5. PICK k : k = R(u).loops - 1
  OBVIOUS
<1>6. PICK r : r = [R(u) EXCEPT !.loops = k]
  OBVIOUS
<1>7. Like(r, R(u)) /\ r.pc = R(u).pc /\ r.ret = R(u).ret /\ r.node = R(u).node
  BY <1>2, <1>6 DEF Like, IsRecord, IOFields
<1>8. r = [R(u) EXCEPT !.loops = @ - 1]
  BY <1>5, <1>6
\* any state in which the user still has no instance
<1>9. ASSUME NEW s, SetIO(u, s), Like(s, R(u)), s.pc \in {"loop", "opened"}, s.ret # "ok" PROVE IOSound'
  <2>1. UserAt(s, srv) /\ Hands(R(u), s)
    BY <1>1, <1>9 DEF UserAt, Waiting, Opening, Hands, Like
  <2> QED BY <1>1, <1>2, <1>4, <1>9, <2>1, MovedOn
<1>10. ASSUME SetIO(u, [r EXCEPT !.pc = "loop", !.tries = @ - 1]) PROVE IOSound'
  <2>1. PICK t : t = r.tries - 1
    OBVIOUS
  <2>2. PICK s : s = [r EXCEPT !.pc = "loop", !.tries = t]
    OBVIOUS
  <2>3. SetIO(u, s)
    BY <1>10, <2>1, <2>2
  <2>4. Like(s, R(u)) /\ s.pc = "loop" /\ s.ret = R(u).ret
    BY <1>7, <2>2 DEF Like, IsRecord, IOFields
  <2> QED BY <1>1, <1>9, <2>3, <2>4
<1>11. ASSUME SetIO(u, [r EXCEPT !.pc = "opened"]) PROVE IOSound'
  <2>1. PICK s : s = [r EXCEPT !.pc = "opened"]
    OBVIOUS
  <2>2. Like(s, R(u)) /\ s.pc = "opened" /\ s.ret = R(u).ret
    BY <1>7, <2>1 DEF Like, IsRecord, IOFields
  <2> QED BY <1>1, <1>9, <1>11, <2>1, <2>2
<1>12. ASSUME NEW n \in Nodes, NEW m, m = [r EXCEPT !.node = n, !.nodeFail = TRUE, !.pc = "loop"],
              SetIO(u, IF n # Local THEN m
                       ELSE IF Small(u) THEN NextOp([m EXCEPT !.ret = "ok"])
                       ELSE [m EXCEPT !.opened = TRUE, !.ret = "ok", !.pc = "ready"])
       PROVE  IOSound'
  <2>1. Like(m, R(u)) /\ m.pc = "loop" /\ m.ret = R(u).ret /\ m.node = n
    BY <1>1, <1>7, <1>12 DEF Like, IsRecord, IOFields
  <2>2. CASE n # Local
    BY <1>1, <1>9, <1>12, <2>1, <2>2
  <2>3. CASE n = Local /\ Small(u)
    <3>1. PICK t : t = [m EXCEPT !.ret = "ok"]
      OBVIOUS
    <3>2. Like(t, R(u)) /\ SetIO(u, NextOp(t))
      BY <1>12, <2>1, <2>3, <3>1 DEF Like, IsRecord, IOFields
    <3> QED BY <1>1, <1>2, <1>4, <3>2, EndsForms, OpDone
  <2>4. CASE n = Local /\ ~Small(u)
    <3>1. PICK s : s = [m EXCEPT !.opened = TRUE, !.ret = "ok", !.pc = "ready"]
      OBVIOUS
    <3>2. SetIO(u, s)
      BY <1>12, <2>4, <3>1
    <3>3. /\ IsRecord(s, IOFields) /\ s.pc = "ready" /\ s.opened = TRUE /\ s.client = R(u).client
          /\ s.ops = R(u).ops /\ s.node = n /\ s.call = R(u).call /\ s.todo \subseteq Nodes
      BY <2>1, <3>1 DEF IsRecord, IOFields, Like
    <3>4. UserBase(s, srv)
      BY <1>1, <1>2, <2>4, <3>3 DEF UserBase
    <3>5. UserAt(s, srv) /\ Hands(R(u), s)
      BY <1>1, <3>3 DEF UserAt, Waiting, Opening, Hands
    <3> QED BY <1>1, <1>2, <1>4, <3>2, <3>4, <3>5, QuietUser DEF UserSound, SetIO, FilesOnly, NodesGoOn
  <2> QED BY <2>2, <2>3, <2>4
<1>13. ASSUME NEW n \in (IF nodeMap' = {} THEN {Local} ELSE nodeMap') PROVE n \in Nodes
  BY <1>2, <1>3, <1>13
<1>14. \/ SetIO(u, [r EXCEPT !.pc = "loop", !.tries = @ - 1])
       \/ SetIO(u, [r EXCEPT !.pc = "opened"])
       \/ \E n \in Nodes : \E m : /\ m = [r EXCEPT !.node = n, !.nodeFail = TRUE, !.pc = "loop"]
                                  /\ SetIO(u, IF n # Local THEN m
                                              ELSE IF Small(u) THEN NextOp([m EXCEPT !.ret = "ok"])
                                              ELSE [m EXCEPT !.opened = TRUE, !.ret = "ok", !.pc = "ready"])
  BY <1>8, <1>13 DEF SwitchNode
<1> QED BY <1>10, <1>11, <1>12, <1>14

\* A write: to the buffer, to the file here, or to the node.
LEMMA PushSound ==
    ASSUME IOSound, NEW u \in IOUsers, Push(u)
    PROVE  IOSound'
<1>1. /\ R(u).pc = "ready" /\ R(u).ops # <<>> /\ ~Waits0(R(u)) /\ KeepsIts(R(u)) /\ Op(u) = Head(R(u).ops)
      /\ Op(u).op = "push" /\ R(u).opened
  BY AtReady DEF Push
<1>2. IsRecord(R(u), IOFields) /\ Like(R(u), R(u)) /\ R(u).node \in Nodes /\ Local \in Nodes /\ NodesSound
  BY UserFacts DEF IOSound
<1>3. ASSUME NEW mark, NEW off, NEW vals,
             Send(u, [R(u) EXCEPT !.mark = mark, !.tries = RetryNum], WriteCall(u, off, vals), "writing")
      PROVE  IOSound'
  <2>1. PICK r : r = [R(u) EXCEPT !.mark = mark, !.tries = RetryNum]
    OBVIOUS
  <2>2. Like(r, R(u)) /\ r.node = R(u).node
    BY <1>2, <2>1 DEF Like, IsRecord, IOFields
  <2>3. PICK b : b = [Call0 EXCEPT !.kind = "write", !.off = off, !.vals = vals]
    OBVIOUS
  <2>4. IsRecord(b, CallFields) /\ b.kind = "write"
    BY <2>3, EmptyCall DEF IsRecord, CallFields
  <2>5. PICK c : c = CallOf(u, b)
    OBVIOUS
  <2>6. IsRecord(c, CallFields) /\ c.kind = "write" /\ c.node = R(u).node
    BY <2>4, <2>5, CallForms
  <2>7. GoodCall(R(u), c, "writing")
    BY <1>1, <1>2, <2>6 DEF GoodCall
  <2>8. Send(u, r, c, "writing") /\ "writing" \in Waiting
    BY <1>3, <2>1, <2>3, <2>5 DEF WriteCall, Waiting
  <2> QED BY <1>1, <2>2, <2>7, <2>8, CallMade
<1>4. ASSUME SetIO(u, PushDone(R(u), Op(u))), UNCHANGED <<net, nodeMap, faults>>,
             srv' = [srv EXCEPT ![Local].files = Files(Local, R(u).ino, Op(u).off, Op(u).vals)]
      PROVE  IOSound'
  <2>1. FilesOnly
    BY <1>2, <1>4, NodeFiles
  <2> QED BY <1>1, <1>2, <1>4, <2>1, EndsForms, OpDone
<1>5. ASSUME SetIO(u, PushDone([R(u) EXCEPT !.off = IF R(u).data = <<>> THEN Op(u).off ELSE @,
                                            !.data = @ \o Op(u).vals], Op(u))), Same
      PROVE  IOSound'
  <2>1. PICK off : off = IF R(u).data = <<>> THEN Op(u).off ELSE R(u).off
    OBVIOUS
  <2>2. PICK buf : buf = R(u).data \o Op(u).vals
    OBVIOUS
  <2>3. PICK r : r = [R(u) EXCEPT !.off = off, !.data = buf]
    OBVIOUS
  <2>4. Like(r, R(u))
    BY <1>2, <2>3 DEF Like, IsRecord, IOFields
  <2>5. SetIO(u, PushDone(r, Op(u)))
    BY <1>5, <2>1, <2>2, <2>3
  <2>6. FilesOnly /\ net' = net
    BY <1>5, UserFacts
  <2> QED BY <1>1, <2>4, <2>5, <2>6, EndsForms, OpDone
<1> QED BY <1>3, <1>4, <1>5 DEF Push

\* A call is made again.
LEMMA CallAgain ==
    ASSUME IOSound, NEW u \in IOUsers, NEW pc \in {"writing", "reading", "closing"}, Answered(u, pc),
           Send(u, [R(u) EXCEPT !.tries = @ - 1], R(u).call, pc)
    PROVE  IOSound'
<1>1. /\ R(u).pc = pc /\ R(u).ops # <<>> /\ ~Waits0(R(u)) /\ R(u).call.node \in Nodes /\ R(u).call.kind # "open"
      /\ pc # "closing" => Head(R(u).ops).op # "close"
  BY AtAnswer DEF Waiting
<1>2. IsRecord(R(u), IOFields) /\ Like(R(u), R(u)) /\ UserAt(R(u), srv) /\ IsRecord(R(u).call, CallFields)
  BY UserFacts
<1>3. PICK t : t = R(u).tries - 1
  OBVIOUS
<1>4. PICK r : r = [R(u) EXCEPT !.tries = t]
  OBVIOUS
<1>5. Like(r, R(u)) /\ r.node = R(u).node /\ Send(u, r, R(u).call, pc) /\ pc \in Waiting
  BY <1>2, <1>3, <1>4 DEF Like, IsRecord, IOFields, Waiting
<1>6. GoodCall(R(u), R(u).call, pc)
  BY <1>1, <1>2 DEF GoodCall, UserAt
<1> QED BY <1>1, <1>5, <1>6, CallMade

\* The answer of a write.
LEMMA WriteReturnsSound ==
    ASSUME IOSound, NEW u \in IOUsers, WriteReturns(u)
    PROVE  IOSound'
<1>1. /\ Answered(u, "writing") /\ R(u).pc = "writing" /\ R(u).ops # <<>> /\ ~Waits0(R(u))
      /\ KeepsIts(R(u)) /\ Head(R(u).ops).op # "close"
  BY AtAnswer DEF WriteReturns, Waiting
<1>2. IsRecord(R(u), IOFields) /\ Like(R(u), R(u)) /\ (Same => FilesOnly /\ net' = net)
  BY UserFacts
<1>3. PICK g : g = IF R(u).mark = "persist" THEN [R(u) EXCEPT !.data = <<>>] ELSE R(u)
  OBVIOUS
<1>4. Like(g, R(u))
  BY <1>2, <1>3 DEF Like, IsRecord, IOFields
<1>5. CASE Send(u, [R(u) EXCEPT !.tries = @ - 1], R(u).call, "writing")
  BY <1>1, <1>5, CallAgain
<1>6. CASE Same /\ SetIO(u, Fails(g, R(u).reply))
  BY <1>1, <1>2, <1>4, <1>6, EndsForms, OpDone
<1>7. CASE Same /\ SetIO(u, [g EXCEPT !.pc = "ready"])
  <2>1. PICK s : s = [g EXCEPT !.pc = "ready"]
    OBVIOUS
  <2>2. Like(s, R(u)) /\ s.pc = "ready"
    BY <1>4, <2>1 DEF Like, IsRecord, IOFields
  <2>3. UserAt(s, srv) /\ Hands(R(u), s)
    BY <1>1, <2>2 DEF UserAt, Waiting, Opening, Hands, Owns, Like
  <2> QED BY <1>1, <1>2, <1>7, <2>1, <2>2, <2>3, MovedOn
<1>8. CASE Same /\ SetIO(u, PushDone(R(u), Op(u)))
  BY <1>1, <1>2, <1>8, EndsForms, OpDone
<1> QED BY <1>3, <1>5, <1>6, <1>7, <1>8 DEF WriteReturns

\* A call that flushes or closes.
LEMMA CompleteSound ==
    ASSUME IOSound, NEW u \in IOUsers, NEW r, Like(r, R(u)), r.node = R(u).node, NEW flush, Complete(u, r, flush),
           R(u).pc = "ready", R(u).ops # <<>>, R(u).opened, Remotely(u), ~flush => Head(R(u).ops).op = "close"
    PROVE  IOSound'
<1>1. R(u).client = R(u).node /\ R(u).client # Local /\ R(u).node \in Nodes
  BY UserFacts DEF Remotely
<1>2. PICK q : q = [r EXCEPT !.tries = RetryNum]
  OBVIOUS
<1>3. Like(q, R(u)) /\ q.node = R(u).node
  BY <1>2 DEF Like, IsRecord, IOFields
<1>4. PICK b : b = [Call0 EXCEPT !.kind = "close", !.flush = flush, !.off = r.off, !.vals = r.data]
  OBVIOUS
<1>5. IsRecord(b, CallFields) /\ b.kind = "close" /\ b.flush = flush
  BY <1>4, EmptyCall DEF IsRecord, CallFields
<1>6. PICK c : c = CallOf(u, b)
  OBVIOUS
<1>7. IsRecord(c, CallFields) /\ c.kind = "close" /\ c.flush = flush /\ c.node = R(u).node /\ c.fd = R(u).fd
  BY <1>5, <1>6, CallForms
<1>8. GoodCall(R(u), c, "closing")
  BY <1>1, <1>7 DEF GoodCall
<1>9. Send(u, q, c, "closing") /\ "closing" \in Waiting /\ ~Waits0(R(u))
  BY <1>2, <1>4, <1>6 DEF Complete, Waits0, Waiting
<1> QED BY <1>3, <1>8, <1>9, CallMade

\* A flush or a close begins.
LEMMA CloseTmpFilesSound ==
    ASSUME IOSound, NEW u \in IOUsers, CloseTmpFiles(u)
    PROVE  IOSound'
<1>1. /\ R(u).pc = "ready" /\ R(u).ops # <<>> /\ ~Waits0(R(u)) /\ Op(u) = Head(R(u).ops)
      /\ Op(u).op \in {"flush", "close"}
      /\ \A n, f : Owns(R(u), n, f) => R(u).opened /\ R(u).client = n /\ R(u).fd = f
  BY AtReady DEF CloseTmpFiles
<1>2. IsRecord(R(u), IOFields) /\ Like(R(u), R(u)) /\ (Same => FilesOnly /\ net' = net) /\ Local \notin Remote
  BY UserFacts
<1>3. CASE ~R(u).opened \/ ~Remotely(u)
  <2>1. KeepsIts(R(u))
    BY <1>1, <1>2, <1>3 DEF KeepsIts, Remotely
  <2>2. SetIO(u, NextOp(R(u))) /\ Same
    BY <1>3 DEF CloseTmpFiles
  <2> QED BY <1>1, <1>2, <2>1, <2>2, EndsForms, OpDone
<1>4. CASE R(u).opened /\ Remotely(u)
  <2>1. PICK r : r = [R(u) EXCEPT !.flushed = TRUE]
    OBVIOUS
  <2>2. Like(r, R(u)) /\ r.node = R(u).node
    BY <1>2, <2>1 DEF Like, IsRecord, IOFields
  <2>3. Complete(u, r, Op(u).op = "flush" \/ ~R(u).flushed)
    BY <1>4, <2>1 DEF CloseTmpFiles
  <2>4. ~(Op(u).op = "flush" \/ ~R(u).flushed) => Head(R(u).ops).op = "close"
    BY <1>1
  <2> QED BY <1>1, <1>4, <2>2, <2>3, <2>4, CompleteSound
<1> QED BY <1>3, <1>4

\* The answer of a flush or a close: a close that was answered has taken the number away.
LEMMA CompleteReturnsSound ==
    ASSUME IOSound, NEW u \in IOUsers, CompleteReturns(u)
    PROVE  IOSound'
<1>1. Answered(u, "closing") /\ R(u).pc = "closing" /\ R(u).ops # <<>> /\ ~Waits0(R(u)) /\ Op(u) = Head(R(u).ops)
      /\ R(u).reply # "none"
  BY AtAnswer DEF CompleteReturns, Waiting
<1>2. IsRecord(R(u), IOFields) /\ Like(R(u), R(u)) /\ (Same => FilesOnly /\ net' = net) /\ UserAt(R(u), srv)
  BY UserFacts
<1>3. /\ R(u).opened /\ R(u).client # Local
      /\ ~R(u).call.flush => Head(R(u).ops).op = "close" /\ R(u).fd \notin Fds(R(u).client)
  BY <1>1, <1>2 DEF UserAt, Fds
<1>4. PICK g : g = [R(u) EXCEPT !.data = <<>>]
  OBVIOUS
<1>5. Like(g, R(u))
  BY <1>2, <1>4 DEF Like, IsRecord, IOFields
<1>6. \A n \in Remote : \A f \in Fds(n) : Owns(R(u), n, f) => R(u).client = n /\ R(u).fd = f
  BY <1>1 DEF Owns
<1>7. CASE Send(u, [R(u) EXCEPT !.tries = @ - 1], R(u).call, "closing")
  BY <1>1, <1>7, CallAgain
<1>8. CASE Same /\ SetIO(u, [g EXCEPT !.pc = "ready", !.failed = @ \/ R(u).reply # "ok"])
  <2>1. PICK x : x = (g.failed \/ R(u).reply # "ok")
    OBVIOUS
  <2>2. PICK s : s = [g EXCEPT !.pc = "ready", !.failed = x]
    OBVIOUS
  <2>3. Like(s, R(u)) /\ s.pc = "ready"
    BY <1>5, <2>2 DEF Like, IsRecord, IOFields
  <2>4. UserAt(s, srv) /\ Hands(R(u), s)
    BY <1>1, <1>3, <2>3 DEF UserAt, Waiting, Opening, Hands, Owns, Like
  <2>5. SetIO(u, s)
    BY <1>8, <2>1, <2>2
  <2> QED BY <1>1, <1>2, <1>8, <2>3, <2>4, <2>5, MovedOn
<1>9. ASSUME NEW s, SetIO(u, s), s = NextOp(g) \/ s = Fails(g, R(u).reply), Same,
             ~(ClosesNow(R(u), Op(u)) /\ (R(u).reply = "ok" \/ Op(u).op = "close"))
      PROVE  IOSound'
  <2>1. CASE Head(R(u).ops).op = "close"
    <3>1. ~R(u).call.flush
      BY <1>1, <1>9, <2>1 DEF ClosesNow
    <3>2. KeepsIts(R(u))
      BY <1>3, <1>6, <3>1 DEF KeepsIts
    <3> QED BY <1>1, <1>2, <1>5, <1>9, <3>2, EndsForms, OpDone
  <2>2. CASE Head(R(u).ops).op # "close"
    <3>1. KeepsIts(R(u))
      BY <1>3, <1>6, <2>2 DEF KeepsIts
    <3> QED BY <1>1, <1>2, <1>5, <1>9, <3>1, EndsForms, OpDone
  <2> QED BY <2>1, <2>2
<1>10. CASE Same /\ ~(ClosesNow(R(u), Op(u)) /\ (R(u).reply = "ok" \/ Op(u).op = "close"))
            /\ SetIO(u, IF R(u).reply # "ok" THEN Fails(g, R(u).reply) ELSE NextOp(g))
  BY <1>9, <1>10
<1> QED BY <1>4, <1>7, <1>8, <1>10 DEF CompleteReturns

\* Buffered data goes before a read or a truncation.
LEMMA CompleteFirstSound ==
    ASSUME IOSound, NEW u \in IOUsers, CompleteFirst(u)
    PROVE  IOSound'
<1>1. R(u).pc = "ready" /\ R(u).ops # <<>> /\ R(u).opened /\ Remotely(u) /\ Complete(u, R(u), TRUE)
  BY AtReady DEF CompleteFirst
<1> QED BY <1>1, UserFacts, CompleteSound

\* A read.
LEMMA ReadSound ==
    ASSUME IOSound, NEW u \in IOUsers, ReadFileLR(u)
    PROVE  IOSound'
<1>1. /\ R(u).pc = "ready" /\ R(u).ops # <<>> /\ ~Waits0(R(u)) /\ KeepsIts(R(u)) /\ Op(u) = Head(R(u).ops)
      /\ Op(u).op = "read"
  BY AtReady DEF ReadFileLR
<1>2. IsRecord(R(u), IOFields) /\ Like(R(u), R(u)) /\ R(u).node \in Nodes /\ (Same => FilesOnly /\ net' = net)
  BY UserFacts
<1>3. ASSUME Send(u, [R(u) EXCEPT !.tries = RetryNum],
                  CallOf(u, [Call0 EXCEPT !.kind = "read", !.off = Op(u).off]), "reading")
      PROVE  IOSound'
  <2>1. PICK r : r = [R(u) EXCEPT !.tries = RetryNum]
    OBVIOUS
  <2>2. Like(r, R(u)) /\ r.node = R(u).node
    BY <1>2, <2>1 DEF Like, IsRecord, IOFields
  <2>3. PICK off : off = Op(u).off
    OBVIOUS
  <2>4. PICK b : b = [Call0 EXCEPT !.kind = "read", !.off = off]
    OBVIOUS
  <2>5. IsRecord(b, CallFields) /\ b.kind = "read"
    BY <2>4, EmptyCall DEF IsRecord, CallFields
  <2>6. PICK c : c = CallOf(u, b)
    OBVIOUS
  <2>7. IsRecord(c, CallFields) /\ c.kind = "read" /\ c.node = R(u).node
    BY <2>5, <2>6, CallForms
  <2>8. GoodCall(R(u), c, "reading")
    BY <1>1, <1>2, <2>7 DEF GoodCall
  <2>9. Send(u, r, c, "reading") /\ "reading" \in Waiting
    BY <1>3, <2>1, <2>3, <2>4, <2>6 DEF Waiting
  <2> QED BY <1>1, <2>2, <2>8, <2>9, CallMade
<1>4. ASSUME SetIO(u, ReadElsewhere([R(u) EXCEPT !.remoteFailed = TRUE])), Same PROVE IOSound'
  <2>1. PICK r : r = [R(u) EXCEPT !.remoteFailed = TRUE]
    OBVIOUS
  <2>2. Like(r, R(u))
    BY <1>2, <2>1 DEF Like, IsRecord, IOFields
  <2>3. EndsOp(ReadElsewhere(r), R(u)) /\ SetIO(u, ReadElsewhere(r))
    BY <1>4, <2>1, <2>2, EndsForms DEF ReadElsewhere
  <2> QED BY <1>1, <1>2, <1>4, <2>3, OpDone
<1>5. ASSUME NEW x, NEW y, SetIO(u, NextOp([R(u) EXCEPT !.got = x, !.want = y])), Same PROVE IOSound'
  <2>1. PICK r : r = [R(u) EXCEPT !.got = x, !.want = y]
    OBVIOUS
  <2>2. Like(r, R(u))
    BY <1>2, <2>1 DEF Like, IsRecord, IOFields
  <2> QED BY <1>1, <1>2, <1>5, <2>1, <2>2, EndsForms, OpDone
<1> QED BY <1>3, <1>4, <1>5 DEF ReadFileLR

\* The answer of a read.
LEMMA ReadAnsweredSound ==
    ASSUME IOSound, NEW u \in IOUsers, ReadAnswered(u)
    PROVE  IOSound'
<1>1. Answered(u, "reading") /\ R(u).ops # <<>> /\ ~Waits0(R(u)) /\ KeepsIts(R(u))
  BY AtAnswer DEF ReadAnswered, Waiting
<1>2. IsRecord(R(u), IOFields) /\ Like(R(u), R(u)) /\ (Same => FilesOnly /\ net' = net)
  BY UserFacts
<1>3. CASE Send(u, [R(u) EXCEPT !.tries = @ - 1], R(u).call, "reading")
  BY <1>1, <1>3, CallAgain
<1>4. CASE Same /\ SetIO(u, NextOp([R(u) EXCEPT !.want = R(u).pushed[Op(u).off]]))
  <2>1. PICK x : x = R(u).pushed[Op(u).off]
    OBVIOUS
  <2>2. PICK r : r = [R(u) EXCEPT !.want = x]
    OBVIOUS
  <2>3. Like(r, R(u)) /\ SetIO(u, NextOp(r))
    BY <1>2, <1>4, <2>1, <2>2 DEF Like, IsRecord, IOFields
  <2> QED BY <1>1, <1>2, <1>4, <2>3, EndsForms, OpDone
<1>5. CASE Same /\ SetIO(u, ReadElsewhere([R(u) EXCEPT !.remoteFailed = TRUE]))
  <2>1. PICK r : r = [R(u) EXCEPT !.remoteFailed = TRUE]
    OBVIOUS
  <2>2. Like(r, R(u))
    BY <1>2, <2>1 DEF Like, IsRecord, IOFields
  <2>3. EndsOp(ReadElsewhere(r), R(u)) /\ SetIO(u, ReadElsewhere(r))
    BY <1>5, <2>1, <2>2, EndsForms DEF ReadElsewhere
  <2> QED BY <1>1, <1>2, <1>5, <2>3, OpDone
<1> QED BY <1>3, <1>4, <1>5 DEF ReadAnswered

\* A truncation: the instance, and then the file.
LEMMA TruncateSound ==
    ASSUME IOSound, NEW u \in IOUsers, Truncate(u)
    PROVE  IOSound'
<1>1. /\ R(u).pc = "ready" /\ R(u).ops # <<>> /\ ~Waits0(R(u)) /\ KeepsIts(R(u)) /\ Op(u) = Head(R(u).ops)
      /\ Op(u).op = "trunc"
  BY AtReady DEF Truncate
<1>2. IsRecord(R(u), IOFields) /\ Like(R(u), R(u)) /\ R(u).node \in Nodes /\ Local \in Nodes /\ NodesSound
  BY UserFacts DEF IOSound
<1>3. CASE Remotely(u)
  <2>1. PICK b : b = [Call0 EXCEPT !.kind = "truncopen"]
    OBVIOUS
  <2>2. IsRecord(b, CallFields) /\ b.kind = "truncopen"
    BY <2>1, EmptyCall DEF IsRecord, CallFields
  <2>3. PICK c : c = CallOf(u, b)
    OBVIOUS
  <2>4. IsRecord(c, CallFields) /\ c.kind = "truncopen" /\ c.node = R(u).node
    BY <2>2, <2>3, CallForms
  <2>5. GoodCall(R(u), c, "truncating")
    BY <1>1, <1>2, <2>4 DEF GoodCall
  <2>6. Send(u, R(u), c, "truncating") /\ "truncating" \in Waiting
    BY <1>3, <2>1, <2>3 DEF Truncate, Waiting
  <2> QED BY <1>1, <1>2, <2>5, <2>6, CallMade
<1>4. CASE ~Remotely(u)
  <2>1. PICK x : x = [srv[Local].files EXCEPT ![R(u).ino] = [b \in Blocks |-> NoData]]
    OBVIOUS
  <2>2. srv' = [srv EXCEPT ![Local].files[R(u).ino] = [b \in Blocks |-> NoData]] /\ UNCHANGED <<net, nodeMap, faults>>
    BY <1>4 DEF Truncate
  <2>3. srv' = [srv EXCEPT ![Local].files = x]
    BY <2>1, <2>2
  <2>4. FilesOnly
    BY <1>2, <2>2, <2>3, NodeFiles
  <2>5. PICK p : p = [b \in Blocks |-> <<>>]
    OBVIOUS
  <2>6. PICK r : r = [R(u) EXCEPT !.pushed = p]
    OBVIOUS
  <2>7. Like(r, R(u)) /\ SetIO(u, NextOp(r))
    BY <1>2, <1>4, <2>5, <2>6 DEF Like, IsRecord, IOFields, Truncate
  <2> QED BY <1>1, <2>2, <2>4, <2>7, EndsForms, OpDone
<1> QED BY <1>3, <1>4

\* The answer of a truncation.
LEMMA TruncateReturnsSound ==
    ASSUME IOSound, NEW u \in IOUsers, TruncateReturns(u)
    PROVE  IOSound'
<1>1. /\ R(u).pc = "truncating" /\ R(u).ops # <<>> /\ ~Waits0(R(u)) /\ KeepsIts(R(u)) /\ R(u).call.node \in Nodes
      /\ Head(R(u).ops).op # "close"
  BY AtAnswer DEF TruncateReturns, Waiting
<1>2. IsRecord(R(u), IOFields) /\ Like(R(u), R(u)) /\ (Same => FilesOnly /\ net' = net) /\ IsRecord(R(u).call, CallFields)
  BY UserFacts
<1>3. CASE Send(u, R(u), [R(u).call EXCEPT !.kind = "trunc"], "truncating")
  <2>1. PICK c : c = [R(u).call EXCEPT !.kind = "trunc"]
    OBVIOUS
  <2>2. IsRecord(c, CallFields) /\ c.kind = "trunc" /\ c.node = R(u).call.node
    BY <1>2, <2>1 DEF IsRecord, CallFields
  <2>3. GoodCall(R(u), c, "truncating") /\ "truncating" \in Waiting
    BY <1>1, <2>2 DEF GoodCall, Waiting
  <2> QED BY <1>1, <1>2, <1>3, <2>1, <2>3, CallMade
<1>4. CASE Same /\ SetIO(u, Fails(R(u), R(u).reply))
  BY <1>1, <1>2, <1>4, EndsForms, OpDone
<1>5. CASE Same /\ SetIO(u, NextOp([R(u) EXCEPT !.pushed = [b \in Blocks |-> <<>>]]))
  <2>1. PICK p : p = [b \in Blocks |-> <<>>]
    OBVIOUS
  <2>2. PICK r : r = [R(u) EXCEPT !.pushed = p]
    OBVIOUS
  <2>3. Like(r, R(u)) /\ SetIO(u, NextOp(r))
    BY <1>2, <1>5, <2>1, <2>2 DEF Like, IsRecord, IOFields
  <2> QED BY <1>1, <1>2, <1>5, <2>3, EndsForms, OpDone
<1> QED BY <1>3, <1>4, <1>5 DEF TruncateReturns

\* Deleting a file.
LEMMA DeleteSound ==
    ASSUME IOSound, NEW u \in IOUsers, DeleteFiles(u) \/ DeleteReturns(u)
    PROVE  IOSound'
<1>1. IsRecord(R(u), IOFields) /\ Like(R(u), R(u)) /\ R(u).node \in Nodes /\ (Same => FilesOnly /\ net' = net)
  BY UserFacts
<1>2. CASE DeleteFiles(u)
  <2>1. /\ R(u).pc = "ready" /\ R(u).ops # <<>> /\ ~Waits0(R(u)) /\ KeepsIts(R(u)) /\ Op(u) = Head(R(u).ops)
        /\ Op(u).op = "delete"
    BY <1>2, AtReady DEF DeleteFiles
  <2>2. CASE Send(u, R(u), CallOf(u, [Call0 EXCEPT !.kind = "delete"]), "deleting")
    <3>1. PICK b : b = [Call0 EXCEPT !.kind = "delete"]
      OBVIOUS
    <3>2. IsRecord(b, CallFields) /\ b.kind = "delete"
      BY <3>1, EmptyCall DEF IsRecord, CallFields
    <3>3. PICK c : c = CallOf(u, b)
      OBVIOUS
    <3>4. IsRecord(c, CallFields) /\ c.kind = "delete" /\ c.node = R(u).node
      BY <3>2, <3>3, CallForms
    <3>5. GoodCall(R(u), c, "deleting")
      BY <1>1, <2>1, <3>4 DEF GoodCall
    <3>6. Send(u, R(u), c, "deleting") /\ "deleting" \in Waiting
      BY <2>2, <3>1, <3>3 DEF Waiting
    <3> QED BY <1>1, <2>1, <3>5, <3>6, CallMade
  <2>3. CASE Same /\ SetIO(u, Fails(R(u), "EHOSTUNREACH"))
    BY <1>1, <2>1, <2>3, EndsForms, OpDone
  <2> QED BY <1>2, <2>2, <2>3 DEF DeleteFiles
<1>3. CASE DeleteReturns(u)
  <2>1. R(u).ops # <<>> /\ ~Waits0(R(u)) /\ KeepsIts(R(u))
    BY <1>3, AtAnswer DEF DeleteReturns, Waiting
  <2>2. PICK s : SetIO(u, s) /\ (s = NextOp(R(u)) \/ s = Fails(R(u), R(u).reply)) /\ Same
    BY <1>3 DEF DeleteReturns
  <2> QED BY <1>1, <2>1, <2>2, EndsForms, OpDone
<1> QED BY <1>2, <1>3

\* Asking the nodes for their space.
LEMMA StatSound ==
    ASSUME IOSound, NEW u \in IOUsers, StatFS(u) \/ StatNode(u) \/ StatReturns(u)
    PROVE  IOSound'
<1>1. /\ IsRecord(R(u), IOFields) /\ Like(R(u), R(u)) /\ (Same => FilesOnly /\ net' = net) /\ UserAt(R(u), srv)
      /\ nodeMap \subseteq Nodes /\ R(u).todo \subseteq Nodes
  BY UserFacts
<1>2. ASSUME NEW s, SetIO(u, s), Like(s, R(u)), s.pc = "stat", R(u).ops # <<>>, Head(R(u).ops).op # "close", Same,
             ~Waits0(R(u)), KeepsIts(R(u))
      PROVE  IOSound'
  <2>1. UserAt(s, srv)
    BY <1>2 DEF UserAt, Waiting, Opening, Like
  <2>2. Hands(R(u), s)
    BY <1>2 DEF Hands, KeepsIts, Owns, Like
  <2> QED BY <1>1, <1>2, <2>1, <2>2, MovedOn
<1>3. CASE StatFS(u)
  <2>1. /\ R(u).ops # <<>> /\ ~Waits0(R(u)) /\ KeepsIts(R(u)) /\ Op(u) = Head(R(u).ops) /\ Op(u).op = "stat"
    BY <1>3, AtReady DEF StatFS
  <2>2. PICK x : x = nodeMap \ {Local}
    OBVIOUS
  <2>3. PICK s : s = [R(u) EXCEPT !.pc = "stat", !.todo = x]
    OBVIOUS
  <2>4. SetIO(u, s) /\ Same
    BY <1>3, <2>2, <2>3 DEF StatFS
  <2>5. x \subseteq Nodes
    BY <1>1, <2>2
  <2>6. Like(s, R(u)) /\ s.pc = "stat"
    BY <1>1, <2>3, <2>5 DEF Like, IsRecord, IOFields
  <2> QED BY <1>2, <2>1, <2>4, <2>6
<1>4. CASE StatNode(u)
  <2>1. R(u).pc = "stat" /\ R(u).ops # <<>> /\ ~Waits0(R(u)) /\ Head(R(u).ops).op # "close"
    BY <1>1, <1>4 DEF StatNode, IOAt, UserAt, Waits0, Waiting
  <2>2. KeepsIts(R(u))
    BY <2>1 DEF KeepsIts, Owns
  <2>3. CASE SetIO(u, NextOp(R(u))) /\ Same
    BY <1>1, <2>1, <2>2, <2>3, EndsForms, OpDone
  <2>4. ASSUME NEW n \in R(u).todo, NEW r, r = [R(u) EXCEPT !.todo = @ \ {n}],
               \/ Send(u, r, [Call0 EXCEPT !.kind = "stat", !.node = n], "asking")
               \/ SetIO(u, Fails(r, "EHOSTUNREACH")) /\ Same
        PROVE  IOSound'
    <3>1. PICK x : x = R(u).todo \ {n}
      OBVIOUS
    <3>2. x \subseteq Nodes /\ n \in Nodes
      BY <1>1, <2>4, <3>1
    <3>3. r = [R(u) EXCEPT !.todo = x]
      BY <2>4, <3>1
    <3>4. Like(r, R(u)) /\ r.node = R(u).node
      BY <1>1, <3>2, <3>3 DEF Like, IsRecord, IOFields
    <3>5. CASE SetIO(u, Fails(r, "EHOSTUNREACH")) /\ Same
      BY <1>1, <2>1, <2>2, <3>4, <3>5, EndsForms, OpDone
    <3>6. CASE Send(u, r, [Call0 EXCEPT !.kind = "stat", !.node = n], "asking")
      <4>1. PICK c : c = [Call0 EXCEPT !.kind = "stat", !.node = n]
        OBVIOUS
      <4>2. IsRecord(c, CallFields) /\ c.kind = "stat" /\ c.node = n
        BY <4>1, EmptyCall DEF IsRecord, CallFields
      <4>3. GoodCall(R(u), c, "asking") /\ "asking" \in Waiting /\ Send(u, r, c, "asking")
        BY <2>1, <3>2, <3>6, <4>1, <4>2 DEF GoodCall, Waiting
      <4> QED BY <2>1, <3>4, <4>3, CallMade
    <3> QED BY <2>4, <3>5, <3>6
  <2> QED BY <1>4, <2>3, <2>4 DEF StatNode
<1>5. CASE StatReturns(u)
  <2>1. R(u).ops # <<>> /\ ~Waits0(R(u)) /\ KeepsIts(R(u)) /\ Head(R(u).ops).op # "close"
    BY <1>5, AtAnswer DEF StatReturns, Waiting
  <2>2. PICK s : s = [R(u) EXCEPT !.pc = "stat"]
    OBVIOUS
  <2>3. SetIO(u, s) /\ Same
    BY <1>5, <2>2 DEF StatReturns
  <2>4. Like(s, R(u)) /\ s.pc = "stat"
    BY <1>1, <2>2 DEF Like, IsRecord, IOFields
  <2> QED BY <1>2, <2>1, <2>3, <2>4
<1> QED BY <1>3, <1>4, <1>5

\* The user's steps keep the invariant.
LEMMA ClientSound ==
    ASSUME IOSound, NEW u \in IOUsers, ClientStep(u)
    PROVE  IOSound'
BY OpenFileSound, FromRemoteSound, OpenReturnsSound, SwitchNodeSound, RemoteOpenedSound, PushSound, WriteReturnsSound,
   CloseTmpFilesSound, CompleteReturnsSound, CompleteFirstSound, ReadSound, ReadAnsweredSound, TruncateSound,
   TruncateReturnsSound, DeleteSound, StatSound DEF ClientStep

\* At the start every node is up and without instances.
LEMMA IOStart ==
    ASSUME IOInit
    PROVE  IOInv
<1>1. PICK s \in Scripts :
         /\ faults = [left |-> s.faults, timeouts |-> 0, errors |-> 0, crashes |-> 0]
         /\ io = [u \in IOUsers |->
              [pc |-> "ready", ino |-> s.jobs[u].inode, node |-> s.jobs[u].node, create |-> s.jobs[u].create,
               persist |-> s.jobs[u].persist, ops |-> s.jobs[u].ops, fd |-> NoFd, client |-> Local, opened |-> FALSE,
               flushed |-> FALSE, nodeFail |-> FALSE, off |-> 0, data |-> <<>>,
               call |-> Call0, seq |-> 0, reply |-> "none", answer |-> NoFd, got |-> NoData,
               tries |-> 0, loops |-> 0, todo |-> {}, ret |-> "ok", failed |-> FALSE, filled |-> FALSE, remoteFailed |-> FALSE,
               pushed |-> [b \in Blocks |-> <<>>], want |-> <<>>, mark |-> "none"]]
  BY DEF IOInit
<1>2. faults \in [left : Nat, timeouts : Nat, errors : Nat, crashes : Nat]
  BY <1>1, IOAssumptions
<1>3. /\ net = {} /\ nodeMap = Nodes
      /\ srv = [n \in Nodes |-> [up |-> TRUE, insts |-> <<>>, nextFd |-> StartFd,
                                 files |-> [i \in Inos |-> [b \in Blocks |-> NoData]]]]
  BY DEF IOInit
<1>4. \A n \in Nodes : /\ srv[n] = [up |-> TRUE, insts |-> <<>>, nextFd |-> StartFd,
                                    files |-> [i \in Inos |-> [b \in Blocks |-> NoData]]]
                       /\ srv[n].nextFd = StartFd /\ srv[n].insts = <<>> /\ srv[n].up
  BY <1>3
<1>5. DOMAIN << >> = {} /\ StartFd \in Nat
  BY DEF StartFd
<1>6. NodesSound
  <2>1. \A n \in Nodes : IsRecord(srv[n], NodeFields)
    BY <1>4 DEF IsRecord, NodeFields
  <2>2. \A n \in Nodes : srv[n].nextFd \in Nat /\ Fds(n) = {}
    BY <1>4, <1>5 DEF Fds
  <2>3. srv = [n \in Nodes |-> srv[n]]
    BY <1>3
  <2> QED BY <1>3, <1>4, <2>1, <2>2, <2>3 DEF NodesSound
<1>7. NetSound
  BY <1>3 DEF NetSound
<1>8. Owned
  BY <1>4, <1>5 DEF Owned, Fds, Nodes
<1>9. ASSUME NEW u \in IOUsers PROVE UserSound(R(u), srv)
  <2>1. /\ R(u).pc = "ready" /\ R(u).node = s.jobs[u].node /\ R(u).ops = s.jobs[u].ops /\ R(u).client = Local
        /\ R(u).opened = FALSE /\ R(u).call = Call0 /\ R(u).todo = {}
    BY <1>1 DEF R
  <2>2. IsRecord(R(u), IOFields)
    BY <1>1 DEF R, IsRecord, IOFields
  <2>3. s.jobs[u].node \in Nodes /\ s.jobs[u].ops \in Seq(IOOps) /\ (ClosesLast(s.jobs[u].ops) \/ NeverOpens(s.jobs[u].ops))
    BY IOAssumptions
  <2>4. UserBase(R(u), srv)
    BY <2>1, <2>2, <2>3, EmptyCall DEF UserBase, Nodes
  <2>5. UserAt(R(u), srv)
    BY <2>1 DEF UserAt, Waiting, Opening
  <2> QED BY <2>4, <2>5 DEF UserSound
<1>10. io = [u \in IOUsers |-> R(u)]
  BY <1>1 DEF R
<1> QED BY <1>2, <1>6, <1>7, <1>8, <1>9, <1>10 DEF IOInv, IOSound

\* A fault is counted.
LEMMA FaultCounted ==
    ASSUME NEW kind \in {"timeouts", "errors", "crashes"}, Fault(kind),
           faults \in [left : Nat, timeouts : Nat, errors : Nat, crashes : Nat]
    PROVE  faults' \in [left : Nat, timeouts : Nat, errors : Nat, crashes : Nat] /\ ~IOClean'
<1>1. PICK a \in Nat : a = faults.left - 1
  BY DEF Fault
<1>2. PICK k \in Nat : k = faults[kind] + 1
  OBVIOUS
<1>3. faults' = [faults EXCEPT !.left = a, ![kind] = k] /\ k # 0
  BY <1>1, <1>2 DEF Fault
<1> QED BY <1>3 DEF IOClean

\* Every step keeps the invariant.
LEMMA IOStep ==
    ASSUME IOInv, [IONext]_ioVars
    PROVE  IOInv'
<1>1. faults \in [left : Nat, timeouts : Nat, errors : Nat, crashes : Nat] /\ (IOClean => IOSound)
  BY DEF IOInv
<1>2. ASSUME NEW kind \in {"timeouts", "errors", "crashes"}, Fault(kind) PROVE IOInv'
  BY <1>1, <1>2, FaultCounted DEF IOInv
<1>3. ASSUME faults' = faults, IOSound => IOSound' PROVE IOInv'
  BY <1>1, <1>3 DEF IOInv, IOClean
<1>4. CASE \E u \in IOUsers : TimeOut(u)
  BY <1>2, <1>4 DEF TimeOut
<1>5. CASE \E q \in net : ServeFails(q)
  BY <1>2, <1>5 DEF ServeFails
<1>6. CASE \E n \in Remote : Crash(n)
  BY <1>2, <1>6 DEF Crash
<1>7. CASE \E u \in IOUsers : ClientStep(u)
  <2>1. PICK u \in IOUsers : ClientStep(u)
    BY <1>7
  <2>2. faults' = faults
    BY <2>1 DEF ClientStep, OpenFile, OpenFileFromRemote, OpenReturns, SwitchNode, RemoteOpened, Push, WriteReturns,
       CloseTmpFiles, CompleteReturns, CompleteFirst, ReadFileLR, ReadAnswered, Truncate, TruncateReturns,
       DeleteFiles, DeleteReturns, StatFS, StatNode, StatReturns, Complete, Send, Same
  <2> QED BY <1>3, <2>1, <2>2, ClientSound
<1>8. CASE \E q \in net : Serve(q) /\ ~ServeFails(q)
  <2>1. PICK q \in net : Serve(q) /\ ~ServeFails(q)
    BY <1>8
  <2>2. faults' = faults
    BY <2>1 DEF Serve, ServeOpenFile, GetOpenInstanceByFd, IsClosed, ServeWriteFile, ServeCloseFile, ServeReadFile,
       ServeTruncateOpenInstance, ServeTruncateFile, ServeReadSmallFile, ServeDeleteFile, ServeStatFS
  <2> QED BY <1>3, <2>1, <2>2, ServeSound
<1>9. CASE \E u \in IOUsers : Unreachable(u)
  <2>1. PICK u \in IOUsers : Unreachable(u)
    BY <1>9
  <2>2. ~IOSound
    <3> SUFFICES ASSUME IOSound PROVE FALSE
      OBVIOUS
    <3>1. UserAt(R(u), srv) /\ NodesSound /\ R(u).pc \in Waiting
      BY <2>1, UserFacts DEF IOSound, Unreachable, Waits, Waiting
    <3>2. R(u).call.node \in Nodes
      BY <3>1 DEF UserAt
    <3> QED BY <2>1, <3>1, <3>2 DEF Unreachable, NodesSound
  <2> QED BY <1>3, <2>1, <2>2 DEF Unreachable, Same
<1>10. CASE \E n \in Remote : Restart(n)
  <2>1. PICK n \in Remote : Restart(n)
    BY <1>10
  <2>2. ~IOSound
    BY <2>1 DEF IOSound, NodesSound, Nodes, Restart
  <2> QED BY <1>3, <2>1, <2>2 DEF Restart
<1>11. CASE UpdateNodeConfigByValue
  <2>1. io' = io /\ net' = net /\ srv' = srv /\ faults' = faults /\ nodeMap' \subseteq Nodes
    BY <1>11 DEF UpdateNodeConfigByValue, Nodes
  <2>2. IOSound => IOSound'
    BY <2>1 DEF IOSound, NodesSound, NetSound, Owned, Fds, R
  <2> QED BY <1>3, <2>1, <2>2
<1>12. CASE UNCHANGED ioVars
  <2>1. io' = io /\ net' = net /\ srv' = srv /\ faults' = faults /\ nodeMap' = nodeMap
    BY <1>12 DEF ioVars
  <2>2. IOSound => IOSound'
    BY <2>1 DEF IOSound, NodesSound, NetSound, Owned, Fds, R
  <2> QED BY <1>3, <2>1, <2>2
<1> QED BY <1>4, <1>5, <1>6, <1>7, <1>8, <1>9, <1>10, <1>11, <1>12 DEF IONext

\* As long as no call has timed out or failed and no node has crashed, a call that is
\* on its way is the one its caller waits for, and every open instance of a node
\* belongs to a user that has still to close it or to learn its number.
THEOREM IOInvariance == IOSpec => []IOInv
<1>1. IOInit => IOInv
  BY IOStart
<1>2. IOInv /\ [IONext]_ioVars => IOInv'
  BY IOStep
<1> QED BY <1>1, <1>2, PTL DEF IOSpec

\* For any users, nodes and operations: when all have finished and every call was
\* answered, no node keeps an instance.
THEOREM ClosedHolds == IOSpec => []InstancesClosed
<1>1. ASSUME IOInv PROVE InstancesClosed
  <2> SUFFICES ASSUME IOEnded, faults.timeouts + faults.errors + faults.crashes = 0, NEW n \in Remote, NEW f \in Fds(n)
               PROVE  FALSE
    BY DEF InstancesClosed
  <2>1. faults.timeouts \in Nat /\ faults.errors \in Nat /\ faults.crashes \in Nat
    BY <1>1 DEF IOInv
  <2>2. IOClean
    BY <2>1 DEF IOClean
  <2>3. PICK u \in IOUsers : Owns(R(u), n, f)
    BY <1>1, <2>2 DEF IOInv, IOSound, Owned
  <2>4. R(u).pc = "ready" /\ R(u).ops = <<>>
    BY DEF IOEnded, Finished, IOAt
  <2> QED BY <2>3, <2>4 DEF Owns
<1> QED BY <1>1, IOInvariance, PTL

-----------------------------------------------------------------------------
(* Client: the instances that are open are counted.                         *)

\* What a step of process x does to the table of instances and to its own place:
\* r is its new record, and the others keep their places and their numbers.
Moves(x, r) ==
    /\ DOMAIN us' = Procs /\ \A y \in Procs : IsUser(us'[y])
    /\ us'[x] = r /\ \A y \in Procs \ {x} : us'[y].pc = us[y].pc /\ us'[y].fd = us[y].fd
    /\ DOMAIN fdt' = {"insts", "curr", "next"}

\* The processes that are opening a file, when x begins to, ends, or does neither.
LEMMA OpeningChanged ==
    ASSUME TableInv, NEW x \in Procs, NEW r, Moves(x, r)
    PROVE  LET O == {y \in Procs : us[y].pc \in BeingOpened}
               N == {y \in Procs : us'[y].pc \in BeingOpened} IN
           /\ Cardinality(O) \in Nat
           /\ (us[x].pc \in BeingOpened <=> r.pc \in BeingOpened) => Cardinality(N) = Cardinality(O)
           /\ us[x].pc \in BeingOpened /\ r.pc \notin BeingOpened => Cardinality(N) = Cardinality(O) - 1
           /\ us[x].pc \notin BeingOpened /\ r.pc \in BeingOpened => Cardinality(N) = Cardinality(O) + 1
<1> DEFINE O == {y \in Procs : us[y].pc \in BeingOpened}
           N == {y \in Procs : us'[y].pc \in BeingOpened}
<1>1. us'[x] = r /\ \A y \in Procs \ {x} : us'[y].pc = us[y].pc
  BY DEF Moves
<1>2. IsFiniteSet(O) /\ Cardinality(O) \in Nat
  BY ClientAssumptions, FS_Subset, FS_CardinalityType
<1>3. (us[x].pc \in BeingOpened <=> r.pc \in BeingOpened) => N = O
  BY <1>1
<1>4. us[x].pc \in BeingOpened /\ r.pc \notin BeingOpened => N = O \ {x} /\ x \in O
  BY <1>1
<1>5. us[x].pc \notin BeingOpened /\ r.pc \in BeingOpened => N = O \cup {x} /\ x \notin O
  BY <1>1
<1> HIDE DEF O, N
<1>6. Cardinality(O \ {x}) = IF x \in O THEN Cardinality(O) - 1 ELSE Cardinality(O)
  BY <1>2, FS_RemoveElement
<1>7. Cardinality(O \cup {x}) = IF x \in O THEN Cardinality(O) ELSE Cardinality(O) + 1
  BY <1>2, FS_AddElement
<1> QED BY <1>2, <1>3, <1>4, <1>5, <1>6, <1>7 DEF O, N

\* A step that leaves the table's numbers alone, or only counts.
LEMMA CountStep ==
    ASSUME TableInv, NEW x \in Procs, NEW r, Moves(x, r),
           r.fd = us[x].fd, r.pc \in UsesFd => HasFd(x),
           DOMAIN fdt'.insts = DOMAIN fdt.insts, fdt'.next = fdt.next,
           \/ fdt'.curr = fdt.curr /\ (us[x].pc \in BeingOpened <=> r.pc \in BeingOpened)
           \/ fdt'.curr = fdt.curr - 1 /\ us[x].pc \in BeingOpened /\ r.pc \notin BeingOpened
           \/ fdt'.curr = fdt.curr + 1 /\ us[x].pc \notin BeingOpened /\ r.pc \in BeingOpened
    PROVE  TableInv'
<1>1. us'[x] = r /\ \A y \in Procs \ {x} : us'[y].pc = us[y].pc /\ us'[y].fd = us[y].fd
  BY DEF Moves
<1>2. \A y \in Procs : us'[y].fd = us[y].fd
  BY <1>1
<1>3. Cardinality(DOMAIN fdt.insts) \in Nat /\ InstancesCounted
  BY FS_CardinalityType DEF TableInv
<1>4. InstancesCounted'
  BY <1>3, OpeningChanged DEF InstancesCounted
<1>5. TableShape'
  BY DEF Moves, TableShape
<1>6. \A y \in Procs : us'[y].pc \in UsesFd => us'[y].fd \in DOMAIN fdt'.insts
  BY <1>1, <1>2 DEF TableInv, HasFd, U
<1> QED BY <1>2, <1>4, <1>5, <1>6 DEF TableInv, HasFd, U

\* AttachFd gives an instance the next number.
LEMMA AttachStep ==
    ASSUME TableInv, NEW x \in Procs, NEW r, Moves(x, r),
           r.fd = fdt.next, us[x].pc \in BeingOpened, r.pc \notin BeingOpened,
           DOMAIN fdt'.insts = DOMAIN fdt.insts \cup {fdt.next}, fdt'.next = fdt.next + 1, fdt'.curr = fdt.curr
    PROVE  TableInv'
<1>1. us'[x] = r /\ \A y \in Procs \ {x} : us'[y].pc = us[y].pc /\ us'[y].fd = us[y].fd
  BY DEF Moves
<1>2. fdt.next \notin DOMAIN fdt.insts /\ fdt.next \in Nat
  BY DEF TableInv
<1>3. Cardinality(DOMAIN fdt.insts) \in Nat /\ InstancesCounted
  BY FS_CardinalityType DEF TableInv
<1>4. IsFiniteSet(DOMAIN fdt'.insts) /\ Cardinality(DOMAIN fdt'.insts) = Cardinality(DOMAIN fdt.insts) + 1
  <2> DEFINE D == DOMAIN fdt.insts
             n == fdt.next
  <2>1. IsFiniteSet(D) /\ n \notin D /\ DOMAIN fdt'.insts = D \cup {n}
    BY <1>2 DEF TableInv
  <2> HIDE DEF D, n
  <2>2. IsFiniteSet(D \cup {n}) /\ Cardinality(D \cup {n}) = Cardinality(D) + 1
    BY <2>1, FS_AddElement
  <2> QED BY <2>1, <2>2 DEF D
<1>5. InstancesCounted'
  BY <1>3, <1>4, OpeningChanged DEF InstancesCounted
<1>6. TableShape'
  BY DEF Moves, TableShape
<1>7. \A y \in Procs : us'[y].pc \in UsesFd => us'[y].fd \in DOMAIN fdt'.insts
  BY <1>1 DEF TableInv, HasFd, U
<1>8. \A y \in Procs : us'[y].fd \in Nat /\ us'[y].fd < fdt'.next
  BY <1>1, <1>2 DEF TableInv
<1>9. \A y, z \in Procs : us'[y].fd = us'[z].fd => y = z \/ us'[y].fd = 0
  BY <1>1, <1>2 DEF TableInv
<1>10. \A f \in DOMAIN fdt'.insts : f \in Nat /\ FirstFd <= f /\ f < fdt'.next
  BY <1>2 DEF TableInv
<1>11. fdt'.next \in Nat /\ FirstFd <= fdt'.next
  BY <1>2 DEF TableInv, FirstFd
<1> QED BY <1>4, <1>5, <1>6, <1>7, <1>8, <1>9, <1>10, <1>11 DEF TableInv, HasFd, U

\* DeleteOpenInstance takes the number of the process out, and nobody else has it.
LEMMA DeleteStep ==
    ASSUME TableInv, NEW x \in Procs, NEW r, Moves(x, r), HasFd(x),
           r.fd = us[x].fd, us[x].pc \notin BeingOpened, r.pc = "ready",
           DOMAIN fdt'.insts = DOMAIN fdt.insts \ {us[x].fd}, fdt'.next = fdt.next, fdt'.curr = fdt.curr - 1
    PROVE  TableInv'
<1>1. us'[x] = r /\ \A y \in Procs \ {x} : us'[y].pc = us[y].pc /\ us'[y].fd = us[y].fd
  BY DEF Moves
<1>2. \A y \in Procs : us'[y].fd = us[y].fd
  BY <1>1
<1>3. Cardinality(DOMAIN fdt.insts) \in Nat /\ InstancesCounted
  BY FS_CardinalityType DEF TableInv
<1>4. IsFiniteSet(DOMAIN fdt'.insts) /\ Cardinality(DOMAIN fdt'.insts) = Cardinality(DOMAIN fdt.insts) - 1
  <2> DEFINE D == DOMAIN fdt.insts
             n == us[x].fd
  <2>1. IsFiniteSet(D) /\ n \in D /\ DOMAIN fdt'.insts = D \ {n}
    BY DEF TableInv, HasFd, U
  <2> HIDE DEF D, n
  <2>2. IsFiniteSet(D \ {n}) /\ Cardinality(D \ {n}) = Cardinality(D) - 1
    BY <2>1, FS_RemoveElement
  <2> QED BY <2>1, <2>2 DEF D
<1>5. r.pc \notin BeingOpened /\ r.pc \notin UsesFd
  BY DEF BeingOpened, UsesFd
<1>6. InstancesCounted'
  BY <1>3, <1>4, <1>5, OpeningChanged DEF InstancesCounted
<1>7. TableShape'
  BY DEF Moves, TableShape
<1>8. us[x].fd # 0
  BY DEF TableInv, HasFd, U, FirstFd
<1>9. \A y \in Procs : us'[y].pc \in UsesFd => us'[y].fd \in DOMAIN fdt'.insts
  BY <1>1, <1>2, <1>5, <1>8 DEF TableInv, HasFd, U
<1> QED BY <1>2, <1>4, <1>6, <1>7, <1>9 DEF TableInv, HasFd, U

\* What the steps make of a process's record: it goes to another place.
LEMMA UserPc ==
    ASSUME NEW r, IsUser(r), NEW p
    PROVE  LET s == [r EXCEPT !.pc = p] IN IsUser(s) /\ s.pc = p /\ s.fd = r.fd
BY DEF IsUser

\* A request that is answered.
LEMMA UserToldIs ==
    ASSUME NEW r, IsUser(r), NEW ok
    PROVE  IsUser(Told(r, ok)) /\ Told(r, ok).pc = "ready" /\ Told(r, ok).fd = r.fd
BY DEF IsUser, Told

\* An instance less to truncate.
LEMMA UserTodo ==
    ASSUME NEW r, IsUser(r), NEW t
    PROVE  LET s == [r EXCEPT !.todo = t] IN IsUser(s) /\ s.pc = r.pc /\ s.fd = r.fd
BY DEF IsUser

\* A failure that is told later.
LEMMA UserFailed ==
    ASSUME NEW r, IsUser(r), NEW b
    PROVE  LET s == [r EXCEPT !.failed = b] IN IsUser(s) /\ s.pc = r.pc /\ s.fd = r.fd
BY DEF IsUser

\* A path that was renamed.
LEMMA UserPath ==
    ASSUME NEW r, IsUser(r), NEW p
    PROVE  LET s == [r EXCEPT !.path = p] IN IsUser(s) /\ s.pc = r.pc /\ s.fd = r.fd
BY DEF IsUser

\* A step of x alone.
LEMMA StepMoves ==
    ASSUME TableInv, NEW x \in Procs, NEW r, IsUser(r), us' = [us EXCEPT ![x] = r],
           DOMAIN fdt' = {"insts", "curr", "next"}
    PROVE  Moves(x, r)
<1>1. DOMAIN us = Procs /\ \A y \in Procs : IsUser(us[y])
  BY DEF TableInv, TableShape
<1>2. DOMAIN us' = Procs /\ us'[x] = r /\ \A y \in Procs \ {x} : us'[y] = us[y]
  BY <1>1
<1> QED BY <1>1, <1>2 DEF Moves

\* The table has the same instances.
SameNumbers ==
    /\ DOMAIN fdt' = {"insts", "curr", "next"} /\ DOMAIN fdt'.insts = DOMAIN fdt.insts
    /\ fdt'.curr = fdt.curr /\ fdt'.next = fdt.next

\* What changes an instance keeps the table's numbers.
LEMMA SetInstKeeps ==
    ASSUME TableInv
    PROVE  /\ fdt' = fdt => SameNumbers
           /\ \A f, i : SetInst(f, i) => SameNumbers
           /\ \A f, s : fdt' = [fdt EXCEPT !.insts[f].orig = s] => SameNumbers
BY DEF TableInv, TableShape, SameNumbers, SetInst

\* A step that neither opens nor deletes an instance.
LEMMA PlaceStep ==
    ASSUME TableInv, NEW x \in Procs, NEW r, IsUser(r), us' = [us EXCEPT ![x] = r], SameNumbers,
           r.fd = us[x].fd, r.pc \in UsesFd => HasFd(x), us[x].pc \in BeingOpened <=> r.pc \in BeingOpened
    PROVE  TableInv'
<1>1. Moves(x, r)
  BY StepMoves DEF SameNumbers
<1> QED BY <1>1, CountStep DEF SameNumbers

\* A request of x is answered, and nothing was open or is kept.
LEMMA ToldStep ==
    ASSUME TableInv, NEW x \in Procs, NEW ok, SetUs(x, Told(U(x), ok)), SameNumbers, us[x].pc \notin BeingOpened
    PROVE  TableInv'
<1>1. IsUser(us[x])
  BY DEF TableInv, TableShape
<1> DEFINE r == Told(us[x], ok)
<1>2. IsUser(r) /\ r.pc = "ready" /\ r.fd = us[x].fd
  BY <1>1, UserToldIs
<1>3. us' = [us EXCEPT ![x] = r]
  BY DEF SetUs, U
<1> HIDE DEF r
<1>4. r.pc \notin BeingOpened /\ r.pc \notin UsesFd
  BY <1>2 DEF BeingOpened, UsesFd
<1> QED BY <1>2, <1>3, <1>4, PlaceStep

\* x goes on to another place of its request.
LEMMA GoesOn ==
    ASSUME TableInv, NEW x \in Procs, NEW p, SetUs(x, [U(x) EXCEPT !.pc = p]), SameNumbers,
           us[x].pc \in BeingOpened <=> p \in BeingOpened, p \in UsesFd => HasFd(x)
    PROVE  TableInv'
<1>1. IsUser(us[x])
  BY DEF TableInv, TableShape
<1> DEFINE r == [us[x] EXCEPT !.pc = p]
<1>2. IsUser(r) /\ r.pc = p /\ r.fd = us[x].fd
  BY <1>1, UserPc
<1>3. us' = [us EXCEPT ![x] = r]
  BY DEF SetUs, U
<1> HIDE DEF r
<1> QED BY <1>2, <1>3, PlaceStep

\* The same, with the row that a metadata call has returned.
LEMMA GoesOnWithRow ==
    ASSUME TableInv, NEW x \in Procs, NEW p, NEW w, SetUs(x, [U(x) EXCEPT !.pc = p, !.row = w]), SameNumbers,
           us[x].pc \in BeingOpened <=> p \in BeingOpened, p \notin UsesFd
    PROVE  TableInv'
<1>1. IsUser(us[x])
  BY DEF TableInv, TableShape
<1> DEFINE r == [us[x] EXCEPT !.pc = p, !.row = w]
<1>2. IsUser(r) /\ r.pc = p /\ r.fd = us[x].fd
  BY <1>1 DEF IsUser
<1>3. us' = [us EXCEPT ![x] = r]
  BY DEF SetUs, U
<1> HIDE DEF r
<1> QED BY <1>2, <1>3, PlaceStep

\* An open that fails gives its place back.
LEMMA GivesUp ==
    ASSUME TableInv, NEW x \in Procs, us[x].pc \in BeingOpened, SetUs(x, Told(U(x), FALSE)), ReleaseOpenInstance
    PROVE  TableInv'
<1>1. IsUser(us[x]) /\ DOMAIN fdt = {"insts", "curr", "next"}
  BY DEF TableInv, TableShape
<1> DEFINE r == Told(us[x], FALSE)
<1>2. IsUser(r) /\ r.pc = "ready" /\ r.fd = us[x].fd
  BY <1>1, UserToldIs
<1>3. us' = [us EXCEPT ![x] = r]
  BY DEF SetUs, U
<1> HIDE DEF r
<1>4. r.pc \notin BeingOpened /\ r.pc \notin UsesFd
  BY <1>2 DEF BeingOpened, UsesFd
<1>5. /\ DOMAIN fdt' = {"insts", "curr", "next"} /\ DOMAIN fdt'.insts = DOMAIN fdt.insts
      /\ fdt'.curr = fdt.curr - 1 /\ fdt'.next = fdt.next
  BY <1>1 DEF ReleaseOpenInstance
<1>6. Moves(x, r)
  BY <1>2, <1>3, <1>5, StepMoves
<1> QED BY <1>2, <1>4, <1>5, <1>6, CountStep

\* A release that is answered deletes the instance, and a flush or an fsync does not.
LEMMA CloseEnds ==
    ASSUME TableInv, NEW x \in Procs, NEW ok, SetUs(x, Told(U(x), ok)), us[x].pc \in UsesFd,
           \/ fdt' = DeleteOpenInstance(U(x).fd)
           \/ SameNumbers
    PROVE  TableInv'
<1>1. IsUser(us[x]) /\ DOMAIN fdt = {"insts", "curr", "next"} /\ HasFd(x)
  BY DEF TableInv, TableShape
<1>2. us[x].pc \notin BeingOpened
  BY DEF BeingOpened, UsesFd
<1>3. CASE SameNumbers
  BY <1>2, <1>3, ToldStep
<1>4. CASE fdt' = DeleteOpenInstance(U(x).fd)
  <2> DEFINE r == Told(us[x], ok)
  <2>1. IsUser(r) /\ r.pc = "ready" /\ r.fd = us[x].fd
    BY <1>1, UserToldIs
  <2>2. us' = [us EXCEPT ![x] = r]
    BY DEF SetUs, U
  <2> HIDE DEF r
  <2>3. /\ DOMAIN fdt' = {"insts", "curr", "next"} /\ DOMAIN fdt'.insts = DOMAIN fdt.insts \ {us[x].fd}
        /\ fdt'.curr = fdt.curr - 1 /\ fdt'.next = fdt.next
    BY <1>1, <1>4 DEF DeleteOpenInstance, U
  <2>4. Moves(x, r)
    BY <2>1, <2>2, <2>3, StepMoves
  <2> QED BY <1>1, <1>2, <2>1, <2>3, <2>4, DeleteStep
<1> QED BY <1>3, <1>4

\* Opening.
LEMMA OpenSteps ==
    ASSUME TableInv, NEW x \in Procs,
           \/ WaitGetNewOpenInstance(x) \/ NewOpenInstance(x) \/ DoCreate(x) \/ FalconOpen(x) \/ ReadSmallFiles(x)
           \/ AttachFd(x)
    PROVE  TableInv'
<1>1. IsUser(us[x]) /\ DOMAIN fdt = {"insts", "curr", "next"} /\ (fdt' = fdt => SameNumbers)
  BY SetInstKeeps DEF TableInv, TableShape
<1>2. CASE WaitGetNewOpenInstance(x)
  <2>1. us[x].pc \in {"ready", "created"} /\ SameNumbers
    BY <1>1, <1>2 DEF WaitGetNewOpenInstance, AtReq, At, U
  <2>2. us[x].pc \notin BeingOpened
    BY <2>1 DEF BeingOpened
  <2>3. CASE SetUs(x, Told(U(x), FALSE))
    BY <2>1, <2>2, <2>3, ToldStep
  <2>4. ASSUME SetUs(x, [U(x) EXCEPT !.pc = IF @ = "created" THEN "newcreated" ELSE "new"]) PROVE TableInv'
    <3> DEFINE p == IF us[x].pc = "created" THEN "newcreated" ELSE "new"
    <3>1. SetUs(x, [U(x) EXCEPT !.pc = p])
      BY <2>4 DEF U
    <3>2. p \notin BeingOpened /\ p \notin UsesFd
      BY DEF BeingOpened, UsesFd
    <3> HIDE DEF p
    <3> QED BY <2>1, <2>2, <3>1, <3>2, GoesOn
  <2> QED BY <1>2, <2>3, <2>4 DEF WaitGetNewOpenInstance
<1>3. CASE NewOpenInstance(x)
  <2> DEFINE p == IF us[x].pc = "new" THEN "openmeta" ELSE "attach"
             r == [us[x] EXCEPT !.pc = p]
  <2>1. p \in BeingOpened /\ p \notin UsesFd
    BY DEF BeingOpened, UsesFd
  <2> HIDE DEF p
  <2>2. IsUser(r) /\ r.pc = p /\ r.fd = us[x].fd
    BY <1>1, UserPc
  <2>3. us' = [us EXCEPT ![x] = r]
    BY <1>3 DEF NewOpenInstance, SetUs, U, p
  <2> HIDE DEF r
  <2>4. us[x].pc \notin BeingOpened
    BY <1>3 DEF NewOpenInstance, At, U, BeingOpened
  <2>5. /\ DOMAIN fdt' = {"insts", "curr", "next"} /\ DOMAIN fdt'.insts = DOMAIN fdt.insts
        /\ fdt'.curr = fdt.curr + 1 /\ fdt'.next = fdt.next
    BY <1>1, <1>3 DEF NewOpenInstance
  <2>6. Moves(x, r)
    BY <2>2, <2>3, <2>5, StepMoves
  <2> QED BY <2>1, <2>2, <2>4, <2>5, <2>6, CountStep
<1>4. CASE DoCreate(x)
  <2>1. us[x].pc = "ready" /\ SameNumbers
    BY <1>1, <1>4 DEF DoCreate, AtReq, U
  <2>2. us[x].pc \notin BeingOpened /\ "created" \notin BeingOpened /\ "created" \notin UsesFd
    BY <2>1 DEF BeingOpened, UsesFd
  <2>3. \/ SetUs(x, Told(U(x), FALSE))
        \/ \E w : SetUs(x, [U(x) EXCEPT !.pc = "created", !.row = w])
    BY <1>4 DEF DoCreate
  <2> QED BY <2>1, <2>2, <2>3, ToldStep, GoesOnWithRow
<1>5. CASE FalconOpen(x)
  <2>1. us[x].pc \in BeingOpened
    BY <1>5 DEF FalconOpen, At, U, BeingOpened
  <2>2. \/ \E w, p : /\ p \in {"small", "attach"} /\ fdt' = fdt
                     /\ SetUs(x, [U(x) EXCEPT !.pc = p, !.row = w])
        \/ SetUs(x, Told(U(x), FALSE)) /\ ReleaseOpenInstance
    <3>1. PICK c \in Call("open", Req(x)) :
             IF c.answer.ok
             THEN /\ SetUs(x, [U(x) EXCEPT !.pc = IF ReadsSmall(x, c.answer.row) THEN "small" ELSE "attach",
                                           !.row = c.answer.row])
                  /\ UNCHANGED fdt
             ELSE SetUs(x, Told(U(x), FALSE)) /\ ReleaseOpenInstance
      BY <1>5 DEF FalconOpen
    <3> DEFINE p == IF ReadsSmall(x, c.answer.row) THEN "small" ELSE "attach"
    <3>2. p \in {"small", "attach"}
      OBVIOUS
    <3> QED BY <3>1, <3>2
  <2>3. "small" \in BeingOpened /\ "attach" \in BeingOpened /\ "small" \notin UsesFd /\ "attach" \notin UsesFd
    BY DEF BeingOpened, UsesFd
  <2> QED BY <1>1, <2>1, <2>2, <2>3, GivesUp, GoesOnWithRow
<1>6. CASE ReadSmallFiles(x)
  <2>1. us[x].pc \in BeingOpened /\ "attach" \in BeingOpened /\ "attach" \notin UsesFd
    BY <1>6 DEF ReadSmallFiles, At, U, BeingOpened, UsesFd
  <2>2. \/ SetUs(x, [U(x) EXCEPT !.pc = "attach"]) /\ fdt' = fdt
        \/ SetUs(x, Told(U(x), FALSE)) /\ ReleaseOpenInstance
    BY <1>6 DEF ReadSmallFiles
  <2> QED BY <1>1, <2>1, <2>2, GivesUp, GoesOn
<1>7. CASE AttachFd(x)
  <2> DEFINE r == [U(x) EXCEPT !.fd = fdt.next, !.path = Req(x).path]
             todo == SameInode(U(x).row.ino) \cup {fdt.next}
             t == [r EXCEPT !.pc = "truncset", !.todo = todo]
             s == IF Req(x).op # "trunc" THEN Told(r, TRUE) ELSE t
  <2>1. IsUser(r) /\ r.fd = fdt.next
    BY <1>1 DEF IsUser, U
  <2>2. us' = [us EXCEPT ![x] = s]
    BY <1>7 DEF AttachFd, SetUs
  <2>3. /\ DOMAIN fdt' = {"insts", "curr", "next"} /\ DOMAIN fdt'.insts = DOMAIN fdt.insts \cup {fdt.next}
        /\ fdt'.curr = fdt.curr /\ fdt'.next = fdt.next + 1
    BY <1>1, <1>7 DEF AttachFd
  <2>4. us[x].pc \in BeingOpened
    BY <1>7 DEF AttachFd, At, U, BeingOpened
  <2> HIDE DEF r, todo
  <2>5. IsUser(t) /\ t.pc = "truncset" /\ t.fd = fdt.next
    BY <2>1 DEF IsUser
  <2>6. IsUser(Told(r, TRUE)) /\ Told(r, TRUE).pc = "ready" /\ Told(r, TRUE).fd = fdt.next
    BY <2>1, UserToldIs
  <2> HIDE DEF t
  <2>7. IsUser(s) /\ s.pc \in {"truncset", "ready"} /\ s.fd = fdt.next
    BY <2>5, <2>6
  <2> HIDE DEF s
  <2>8. s.pc \notin BeingOpened
    BY <2>7 DEF BeingOpened
  <2>9. Moves(x, s)
    BY <2>2, <2>3, <2>7, StepMoves
  <2> QED BY <2>3, <2>4, <2>7, <2>8, <2>9, AttachStep
<1> QED BY <1>2, <1>3, <1>4, <1>5, <1>6, <1>7

\* Reading, writing and closing.
LEMMA UseSteps ==
    ASSUME TableInv, NEW x \in Procs,
           \/ UnknownFd(x) \/ DoWrite(x) \/ DoRead(x)
           \/ FalconClose(x) \/ TmpClose(x) \/ TellSize(x) \/ CloseMeta(x) \/ Closed(x)
    PROVE  TableInv'
<1>1. /\ IsUser(us[x]) /\ DOMAIN fdt = {"insts", "curr", "next"} /\ (fdt' = fdt => SameNumbers)
      /\ \A f, i : SetInst(f, i) => SameNumbers
      /\ \A f, s : fdt' = [fdt EXCEPT !.insts[f].orig = s] => SameNumbers
  BY SetInstKeeps DEF TableInv, TableShape
<1>2. "ready" \notin BeingOpened /\ UsesFd \cap BeingOpened = {}
  BY DEF BeingOpened, UsesFd
<1>3. CASE UnknownFd(x)
  <2>1. us[x].pc = "ready" /\ SameNumbers /\ SetUs(x, Told(U(x), FALSE))
    BY <1>1, <1>3 DEF UnknownFd, AtReq, U
  <2> QED BY <1>2, <2>1, ToldStep
<1>4. CASE DoWrite(x) \/ DoRead(x)
  <2>1. us[x].pc = "ready" /\ SameNumbers
    BY <1>1, <1>4 DEF DoWrite, DoRead, AtReq, U
  <2>2. \E ok : SetUs(x, Told(U(x), ok))
    BY <1>4 DEF DoWrite, DoRead
  <2> QED BY <1>2, <2>1, <2>2, ToldStep
<1>5. CASE FalconClose(x)
  <2> DEFINE n == Inst(x).cur
             p == IF Inst(x).opened THEN "tmpclose" ELSE "decide"
             r == [us[x] EXCEPT !.size = n, !.pc = p]
  <2>1. p \in UsesFd
    BY DEF UsesFd
  <2>2. us' = [us EXCEPT ![x] = r] /\ SameNumbers /\ HasFd(x) /\ us[x].pc = "ready"
    BY <1>1, <1>5 DEF FalconClose, SetUs, U, AtReq
  <2> HIDE DEF p, n
  <2>3. IsUser(r) /\ r.pc = p /\ r.fd = us[x].fd
    BY <1>1 DEF IsUser
  <2> HIDE DEF r
  <2> QED BY <1>2, <2>1, <2>2, <2>3, PlaceStep
<1>6. CASE TmpClose(x)
  <2>1. us[x].pc \in UsesFd /\ "decide" \in UsesFd
    BY <1>6 DEF TmpClose, At, U, UsesFd
  <2>2. \/ SameNumbers /\ SetUs(x, [U(x) EXCEPT !.pc = "decide"])
        \/ (SameNumbers \/ fdt' = DeleteOpenInstance(U(x).fd)) /\ SetUs(x, Told(U(x), FALSE))
    BY <1>1, <1>6 DEF TmpClose, DoneWith, SetInst
  <2> QED BY <1>2, <2>1, <2>2, GoesOn, CloseEnds DEF TableInv
<1>7. CASE TellSize(x)
  <2>1. us[x].pc \in UsesFd /\ "closemeta" \in UsesFd
    BY <1>7 DEF TellSize, At, U, UsesFd
  <2>2. \/ SameNumbers /\ SetUs(x, [U(x) EXCEPT !.pc = "closemeta"])
        \/ (SameNumbers \/ fdt' = DeleteOpenInstance(U(x).fd)) /\ \E ok : SetUs(x, Told(U(x), ok))
    BY <1>1, <1>7 DEF TellSize, DoneWith
  <2> QED BY <1>2, <2>1, <2>2, GoesOn, CloseEnds DEF TableInv
<1>8. CASE CloseMeta(x)
  <2>1. us[x].pc \in UsesFd /\ SameNumbers
    BY <1>1, <1>8 DEF CloseMeta, At, U, UsesFd
  <2>2. PICK p \in {"closed", "notclosed"} : SetUs(x, [U(x) EXCEPT !.pc = p])
    BY <1>8 DEF CloseMeta
  <2>3. p \in UsesFd
    BY DEF UsesFd
  <2> QED BY <1>2, <2>1, <2>2, <2>3, GoesOn DEF TableInv
<1>9. CASE Closed(x)
  <2>1. us[x].pc \in UsesFd
    BY <1>9 DEF Closed, At, U, UsesFd
  <2>2. (SameNumbers \/ fdt' = DeleteOpenInstance(U(x).fd)) /\ \E ok : SetUs(x, Told(U(x), ok))
    BY <1>1, <1>9 DEF Closed, DoneWith
  <2> QED BY <2>1, <2>2, CloseEnds
<1> QED BY <1>3, <1>4, <1>5, <1>6, <1>7, <1>8, <1>9

\* Truncating, unlinking, renaming and listing.
LEMMA OtherSteps ==
    ASSUME TableInv, NEW x \in Procs,
           \/ TruncateOpenInstance(x) \/ TruncateFile(x) \/ FalconUnlink(x) \/ DeleteData(x)
           \/ DoRename(x) \/ CopyData(x) \/ FalconRename(x) \/ DeleteDataAfterRename(x)
           \/ FalconOpenDir(x) \/ FalconReadDir(x) \/ FalconCloseDir(x)
    PROVE  TableInv'
<1>1. /\ IsUser(us[x]) /\ DOMAIN fdt = {"insts", "curr", "next"} /\ (fdt' = fdt => SameNumbers)
      /\ \A f, i : SetInst(f, i) => SameNumbers
  BY SetInstKeeps DEF TableInv, TableShape
<1>2. /\ BeingOpened \cap {"ready", "truncset", "deldata", "copy", "rename", "renamed", "notrenamed"} = {}
      /\ UsesFd \cap {"ready", "deldata", "copy", "rename", "renamed", "notrenamed"} = {}
  BY DEF BeingOpened, UsesFd
<1>3. CASE TruncateOpenInstance(x)
  <2>1. PICK f \in U(x).todo : SetUs(x, [U(x) EXCEPT !.todo = @ \ {f}])
    BY <1>3 DEF TruncateOpenInstance
  <2> DEFINE t == us[x].todo \ {f}
             r == [us[x] EXCEPT !.todo = t]
  <2>2. us' = [us EXCEPT ![x] = r]
    BY <2>1 DEF SetUs, U
  <2>3. SameNumbers
    <3>1. \/ fdt' = fdt
          \/ \E g \in U(x).todo : fdt' = [fdt EXCEPT !.insts[g].cur = Req(x).size, !.insts[g].orig = Req(x).size]
      BY <1>3 DEF TruncateOpenInstance
    <3>2. ASSUME NEW g, NEW s, fdt' = [fdt EXCEPT !.insts[g].cur = s, !.insts[g].orig = s] PROVE SameNumbers
      BY <1>1, <3>2 DEF SameNumbers
    <3> QED BY <1>1, <3>1, <3>2
  <2> HIDE DEF t
  <2>4. IsUser(r) /\ r.pc = us[x].pc /\ r.fd = us[x].fd
    BY <1>1, UserTodo
  <2> HIDE DEF r
  <2>5. us[x].pc \in UsesFd => HasFd(x)
    BY DEF TableInv
  <2> QED BY <2>2, <2>3, <2>4, <2>5, PlaceStep
<1>4. CASE TruncateFile(x)
  <2>1. us[x].pc = "truncset" /\ SameNumbers
    BY <1>1, <1>4 DEF TruncateFile, At, U
  <2> DEFINE own(op) == [Req(x) EXCEPT !.op = op, !.trunc = TRUE]
             close == <<own("flush"), own("release")>> \o Tail(U(x).reqs)
             r == [us[x] EXCEPT !.pc = "ready", !.reqs = close]
             s == [r EXCEPT !.failed = TRUE]
  <2>2. us' = [us EXCEPT ![x] = r] \/ us' = [us EXCEPT ![x] = s]
    BY <1>4 DEF TruncateFile, SetUs, U
  <2> HIDE DEF close
  <2>3. IsUser(r) /\ r.pc = "ready" /\ r.fd = us[x].fd
    BY <1>1 DEF IsUser
  <2> HIDE DEF r
  <2>4. IsUser(s) /\ s.pc = "ready" /\ s.fd = us[x].fd
    BY <2>3, UserFailed
  <2> HIDE DEF s
  <2> QED BY <1>2, <2>1, <2>2, <2>3, <2>4, PlaceStep
<1>5. CASE FalconUnlink(x)
  <2>1. us[x].pc = "ready" /\ SameNumbers
    BY <1>1, <1>5 DEF FalconUnlink, AtReq, U
  <2>2. \/ SetUs(x, Told(U(x), FALSE))
        \/ \E w : SetUs(x, [U(x) EXCEPT !.pc = "deldata", !.row = w])
    BY <1>5 DEF FalconUnlink
  <2> QED BY <1>2, <2>1, <2>2, ToldStep, GoesOnWithRow
<1>6. CASE DeleteData(x) \/ DeleteDataAfterRename(x)
  <2>1. us[x].pc \in {"deldata", "renamed", "notrenamed"} /\ SameNumbers
    BY <1>1, <1>6 DEF DeleteData, DeleteDataAfterRename, At, U
  <2>2. \E ok : SetUs(x, Told(U(x), ok))
    BY <1>6 DEF DeleteData, DeleteDataAfterRename
  <2> QED BY <1>2, <2>1, <2>2, ToldStep
<1>7. CASE DoRename(x) \/ CopyData(x)
  <2>1. us[x].pc \in {"ready", "copy"} /\ SameNumbers
    BY <1>1, <1>7 DEF DoRename, CopyData, AtReq, At, U
  <2>2. \/ SetUs(x, Told(U(x), FALSE))
        \/ \E p \in {"copy", "rename"} : SetUs(x, [U(x) EXCEPT !.pc = p])
    BY <1>7 DEF DoRename, CopyData
  <2> QED BY <1>2, <2>1, <2>2, ToldStep, GoesOn
<1>8. CASE FalconRename(x)
  <2>1. us[x].pc = "rename" /\ SameNumbers
    BY <1>1, <1>8 DEF FalconRename, At, U
  <2>2. PICK p \in {"renamed", "notrenamed"} :
           us' = [Follow(Req(x)) EXCEPT ![x].pc = p] \/ us' = [us EXCEPT ![x].pc = p]
    BY <1>8 DEF FalconRename
  <2>3. DOMAIN us = Procs /\ \A y \in Procs : IsUser(us[y])
    BY DEF TableInv, TableShape
  <2> DEFINE g == Follow(Req(x))
  <2>4. DOMAIN g = Procs /\ \A y \in Procs : IsUser(g[y]) /\ g[y].pc = us[y].pc /\ g[y].fd = us[y].fd
    BY <2>3, UserPath DEF Follow
  <2>5. /\ DOMAIN us' = Procs /\ \A y \in Procs \ {x} : IsUser(us'[y]) /\ us'[y].pc = us[y].pc /\ us'[y].fd = us[y].fd
        /\ IsUser(us'[x]) /\ us'[x].pc = p /\ us'[x].fd = us[x].fd
    <3>1. ASSUME NEW h, DOMAIN h = Procs, us' = [h EXCEPT ![x].pc = p],
                 \A y \in Procs : IsUser(h[y]) /\ h[y].pc = us[y].pc /\ h[y].fd = us[y].fd
          PROVE  <2>5
      <4> DEFINE r == [h[x] EXCEPT !.pc = p]
      <4>1. IsUser(r) /\ r.pc = p /\ r.fd = h[x].fd
        BY <3>1, UserPc
      <4>2. DOMAIN us' = Procs /\ us'[x] = r /\ \A y \in Procs \ {x} : us'[y] = h[y]
        BY <3>1
      <4> HIDE DEF r
      <4> QED BY <3>1, <4>1, <4>2
    <3> HIDE DEF g
    <3> QED BY <2>2, <2>3, <2>4, <3>1 DEF g
  <2>6. Moves(x, us'[x])
    BY <2>1, <2>5 DEF Moves, SameNumbers
  <2> QED BY <1>2, <2>1, <2>5, <2>6, CountStep DEF SameNumbers
<1>9. CASE FalconOpenDir(x) \/ FalconCloseDir(x)
  <2>1. us[x].pc = "ready" /\ SameNumbers
    BY <1>1, <1>9 DEF FalconOpenDir, FalconCloseDir, AtReq, U
  <2>2. \E ok : SetUs(x, Told(U(x), ok))
    BY <1>9 DEF FalconOpenDir, FalconCloseDir
  <2> QED BY <1>2, <2>1, <2>2, ToldStep
<1>10. CASE FalconReadDir(x)
  <2>1. us[x].pc = "ready" /\ SameNumbers
    BY <1>1, <1>10 DEF FalconReadDir, AtReq, U
  <2>2. us' = us \/ \E ok : SetUs(x, Told(U(x), ok))
    BY <1>10 DEF FalconReadDir
  <2>3. CASE us' = us
    <3>1. fdt' = fdt
      BY <1>10 DEF FalconReadDir
    <3> QED BY <2>3, <3>1 DEF TableInv, TableShape, InstancesCounted, HasFd, U
  <2> QED BY <1>2, <2>1, <2>2, <2>3, ToldStep
<1> QED BY <1>3, <1>4, <1>5, <1>6, <1>7, <1>8, <1>9, <1>10

-----------------------------------------------------------------------------
(* Induction over numbers, and recursion.                                    *)

\* A set of numbers has a least one.
LEMMA LeastNumber ==
    ASSUME NEW Ts \in SUBSET Nat, Ts # {}
    PROVE  \E x \in Ts : \A y \in Ts : x <= y
<1>1. IsWellFoundedOn({ss \in Nat \X Nat : ss[1] < ss[2]}, Nat)
  BY NatLessThanWellFounded DEF OpToRel
<1>2. PICK x \in Ts : \A y \in Ts : ~ (<<y, x>> \in {ss \in Nat \X Nat : ss[1] < ss[2]})
  BY <1>1, WFMin
<1>3. \A y \in Ts : ~ (y < x)
  BY <1>2
<1> QED BY <1>3

\* A set that has 0, and with a number the next one, has all numbers.
LEMMA NumberInduction ==
    ASSUME NEW Ts, 0 \in Ts, \A n \in Nat : n \in Ts => n + 1 \in Ts
    PROVE  Nat \subseteq Ts
<1> SUFFICES ASSUME Nat \ Ts # {} PROVE FALSE
  OBVIOUS
<1>1. PICK x \in Nat \ Ts : \A y \in Nat \ Ts : x <= y
  BY LeastNumber
<1>2. x # 0
  OBVIOUS
<1>3. x - 1 \in Nat /\ x - 1 \in Ts
  BY <1>1, <1>2
<1> QED BY <1>3

\* The same, for the numbers up to N.
LEMMA UpTo ==
    ASSUME NEW N \in Nat, NEW Ts, 0 \in Ts, \A n \in 1 .. N : n - 1 \in Ts => n \in Ts
    PROVE  0 .. N \subseteq Ts
<1> DEFINE Rs == {n \in Nat : n <= N => n \in Ts}
<1>1. 0 \in Rs
  OBVIOUS
<1>2. ASSUME NEW n \in Nat, n \in Rs PROVE n + 1 \in Rs
  <2>1. CASE n + 1 <= N
    <3>1. n + 1 \in 1 .. N /\ (n + 1) - 1 = n
      BY <2>1
    <3>2. n \in Ts
      BY <1>2, <2>1
    <3> QED BY <3>1, <3>2
  <2> QED BY <2>1
<1> HIDE DEF Rs
<1>3. Nat \subseteq Rs
  BY <1>1, <1>2, NumberInduction
<1> QED BY <1>3 DEF Rs

\* f is what a recursion from a with the step G gives, up to N.
Recurses(f, N, V, a, G) ==
    f \in [0 .. N -> V] /\ f[0] = a /\ \A n \in 1 .. N : f[n] = G[<<n, f[n - 1]>>]

\* There is such a function.
LEMMA Recursion ==
    ASSUME NEW V, NEW a \in V, NEW G \in [Nat \X V -> V], NEW N \in Nat
    PROVE  \E f : Recurses(f, N, V, a, G)
<1> DEFINE P(m, f) == f[0] = a /\ \A n \in 1 .. m : f[n] = G[<<n, f[n - 1]>>]
           Ts == {m \in Nat : \E f \in [0 .. m -> V] : P(m, f)}
<1>1. 0 \in Ts
  <2>1. [n \in 0 .. 0 |-> a] \in [0 .. 0 -> V] /\ P(0, [n \in 0 .. 0 |-> a])
    OBVIOUS
  <2> QED BY <2>1
<1>2. ASSUME NEW m \in Nat, m \in Ts PROVE m + 1 \in Ts
  <2>1. PICK f \in [0 .. m -> V] : P(m, f)
    BY <1>2
  <2> DEFINE g == [n \in 0 .. m + 1 |-> IF n <= m THEN f[n] ELSE G[<<m + 1, f[m]>>]]
  <2>2. g \in [0 .. m + 1 -> V]
    OBVIOUS
  <2>3. g[0] = a
    BY <2>1
  <2>4. ASSUME NEW n \in 1 .. m + 1 PROVE g[n] = G[<<n, g[n - 1]>>]
    <3>1. CASE n <= m
      <4>1. g[n] = f[n] /\ g[n - 1] = f[n - 1] /\ n \in 1 .. m
        BY <3>1
      <4> QED BY <4>1, <2>1
    <3>2. CASE n = m + 1
      <4>1. g[n] = G[<<m + 1, f[m]>>] /\ g[n - 1] = f[m]
        BY <3>2
      <4> QED BY <4>1, <3>2
    <3> QED BY <3>1, <3>2
  <2>5. P(m + 1, g)
    BY <2>3, <2>4
  <2> HIDE DEF g, P
  <2>6. \E h \in [0 .. m + 1 -> V] : P(m + 1, h)
    BY <2>2, <2>5
  <2> QED BY <2>6
<1> HIDE DEF Ts
<1>3. Nat \subseteq Ts
  BY <1>1, <1>2, NumberInduction
<1>4. PICK f \in [0 .. N -> V] : P(N, f)
  BY <1>3 DEF Ts
<1> QED BY <1>4 DEF Recurses

-----------------------------------------------------------------------------
(* Client: a listing has every entry once.                                   *)

\* The entries of a worker.
LEMMA ListingFacts ==
    ASSUME NEW w \in DOMAIN Listing
    PROVE  /\ Listing[w] \in Seq(EntryNames) /\ Len(Listing[w]) \in Nat /\ DOMAIN Listing[w] = 1 .. Len(Listing[w])
           /\ \A j \in 1 .. Len(Listing[w]) : Listing[w][j] \in EntryNames
<1> DEFINE L == Listing[w]
<1>1. L \in Seq(ToSet(L))
  BY ClientAssumptions
<1>2. ToSet(L) \subseteq EntryNames
  BY DEF EntryNames
<1> HIDE DEF L
<1>3. Len(L) \in Nat /\ DOMAIN L = 1 .. Len(L)
  BY <1>1
<1>4. \A j \in 1 .. Len(L) : L[j] \in EntryNames
  BY <1>2, <1>3 DEF ToSet
<1>5. L \in Seq(EntryNames)
  BY <1>1, <1>2
<1> QED BY <1>3, <1>4, <1>5 DEF L

\* Entries with one name are one entry.
LEMMA OneEntry ==
    ASSUME NEW v \in DOMAIN Listing, NEW w \in DOMAIN Listing,
           NEW i \in 1 .. Len(Listing[v]), NEW j \in 1 .. Len(Listing[w]), Listing[v][i] = Listing[w][j]
    PROVE  v = w /\ i = j
BY ListingFacts, ClientAssumptions

\* The entries that an epoch takes from worker w.
NewOf(d, w, n) == {Listing[w][j] : j \in d.read[w] + 1 .. LastRead(d, w, n)}

\* How far a worker has been read after an epoch.
LEMMA LastReadIs ==
    ASSUME NEW d, DirTyped(d), NEW w \in DOMAIN Listing, NEW n \in Nat
    PROVE  /\ d.read[w] \in Nat /\ LastRead(d, w, n) \in Nat
           /\ d.read[w] <= LastRead(d, w, n) /\ LastRead(d, w, n) <= Len(Listing[w])
           /\ LastRead(d, w, n) <= d.read[w] + n
           /\ LastRead(d, w, n) = Len(Listing[w]) \/ LastRead(d, w, n) = d.read[w] + n
<1>1. d.read[w] \in Nat /\ d.read[w] <= Len(Listing[w]) /\ Len(Listing[w]) \in Nat
  BY ListingFacts DEF DirTyped
<1> QED BY <1>1 DEF LastRead, Lesser

\* What a worker gives in an epoch: its fresh entries, each once.
LEMMA GotIs ==
    ASSUME NEW d, DirTyped(d), NEW w \in DOMAIN Listing, NEW n \in Nat
    PROVE  /\ Got(d, w, n) \in Seq(EntryNames) /\ Len(Got(d, w, n)) = LastRead(d, w, n) - d.read[w]
           /\ IsInjective(Got(d, w, n)) /\ ToSet(Got(d, w, n)) = NewOf(d, w, n)
<1> DEFINE L == Listing[w]
           a == d.read[w]
           b == LastRead(d, w, n)
           G == SubSeq(L, a + 1, b)
<1>1. L \in Seq(EntryNames) /\ Len(L) \in Nat /\ a \in Nat /\ b \in Nat /\ a <= b /\ b <= Len(L)
  BY ListingFacts, LastReadIs
<1>2. \A i, j \in 1 .. Len(L) : L[i] = L[j] => i = j
  BY OneEntry
<1>3. Got(d, w, n) = G /\ NewOf(d, w, n) = {L[j] : j \in a + 1 .. b}
  BY DEF Got, NewOf
<1> HIDE DEF L, a, b
<1>4. G \in Seq(EntryNames) /\ Len(G) = b - a /\ DOMAIN G = 1 .. b - a /\ \A i \in 1 .. b - a : G[i] = L[a + i]
  BY <1>1
<1> HIDE DEF G
<1>5. IsInjective(G)
  <2> SUFFICES ASSUME NEW i \in 1 .. b - a, NEW j \in 1 .. b - a, G[i] = G[j] PROVE i = j
    BY <1>4 DEF IsInjective
  <2>1. a + i \in 1 .. Len(L) /\ a + j \in 1 .. Len(L) /\ L[a + i] = L[a + j]
    BY <1>1, <1>4
  <2>2. a + i = a + j
    BY <1>2, <2>1
  <2> QED BY <1>1, <2>2
<1>6. ToSet(G) = {L[j] : j \in a + 1 .. b}
  <2>1. ASSUME NEW i \in 1 .. b - a PROVE G[i] \in {L[j] : j \in a + 1 .. b}
    <3>1. a + i \in a + 1 .. b /\ G[i] = L[a + i]
      BY <1>1, <1>4
    <3> QED BY <3>1
  <2>2. ASSUME NEW j \in a + 1 .. b PROVE \E i \in 1 .. b - a : G[i] = L[j]
    <3>1. j - a \in 1 .. b - a /\ a + (j - a) = j
      BY <1>1
    <3> QED BY <1>4, <3>1
  <2> QED BY <1>4, <2>1, <2>2 DEF ToSet
<1> QED BY <1>3, <1>4, <1>5, <1>6 DEF a, b

\* A fresh entry, and where it is.
LEMMA FreshPlace ==
    ASSUME NEW d, DirTyped(d), NEW w \in DOMAIN Listing, NEW n \in Nat, NEW e \in NewOf(d, w, n)
    PROVE  \E j \in 1 .. Len(Listing[w]) : d.read[w] < j /\ j <= LastRead(d, w, n) /\ e = Listing[w][j]
<1> DEFINE a == d.read[w]
           b == LastRead(d, w, n)
           N == Len(Listing[w])
<1>1. a \in Nat /\ b \in Nat /\ N \in Nat /\ b <= N
  BY LastReadIs, ListingFacts
<1>2. PICK j \in a + 1 .. b : e = Listing[w][j]
  BY DEF NewOf
<1> HIDE DEF a, b, N
<1>3. j \in 1 .. N /\ a < j /\ j <= b
  BY <1>1
<1> QED BY <1>2, <1>3 DEF a, b, N

\* Two workers have no entry in common.
LEMMA FreshApart ==
    ASSUME NEW d, DirTyped(d), NEW n \in Nat, NEW v \in DOMAIN Listing, NEW w \in DOMAIN Listing, v # w
    PROVE  NewOf(d, v, n) \cap NewOf(d, w, n) = {}
<1> SUFFICES ASSUME NEW e \in NewOf(d, v, n), e \in NewOf(d, w, n) PROVE FALSE
  OBVIOUS
<1>1. PICK i \in 1 .. Len(Listing[v]) : e = Listing[v][i]
  BY FreshPlace
<1>2. PICK j \in 1 .. Len(Listing[w]) : e = Listing[w][j]
  BY FreshPlace
<1> QED BY <1>1, <1>2, OneEntry

\* What is fresh was not read before.
LEMMA FreshNew ==
    ASSUME NEW d, DirTyped(d), NEW n \in Nat, NEW w \in DOMAIN Listing
    PROVE  NewOf(d, w, n) \cap HasRead(d) = {}
<1> SUFFICES ASSUME NEW e \in NewOf(d, w, n), e \in HasRead(d) PROVE FALSE
  OBVIOUS
<1>1. PICK i \in 1 .. Len(Listing[w]) : d.read[w] < i /\ e = Listing[w][i]
  BY FreshPlace
<1>2. PICK v \in DOMAIN Listing : e \in {Listing[v][j] : j \in 1 .. d.read[v]}
  BY DEF HasRead
<1>3. PICK j \in 1 .. d.read[v] : e = Listing[v][j]
  BY <1>2
<1>4. d.read[v] \in Nat /\ d.read[v] <= Len(Listing[v]) /\ Len(Listing[v]) \in Nat
  BY ListingFacts DEF DirTyped
<1>5. j \in 1 .. Len(Listing[v])
  BY <1>3, <1>4
<1>6. Listing[v][j] = Listing[w][i]
  BY <1>1, <1>3
<1>7. v = w /\ j = i
  BY <1>5, <1>6, OneEntry
<1> QED BY <1>1, <1>3, <1>4, <1>7

\* Two lists that have nothing in common, one after the other.
LEMMA AppendOnce ==
    ASSUME NEW E, NEW a \in Seq(E), NEW b \in Seq(E), IsInjective(a), IsInjective(b), ToSet(a) \cap ToSet(b) = {}
    PROVE  a \o b \in Seq(E) /\ IsInjective(a \o b) /\ ToSet(a \o b) = ToSet(a) \cup ToSet(b)
<1> DEFINE M == Len(a)
           N == Len(b)
           c == a \o b
<1>1. M \in Nat /\ N \in Nat /\ DOMAIN a = 1 .. M /\ DOMAIN b = 1 .. N
  OBVIOUS
<1>2. c \in Seq(E) /\ Len(c) = M + N /\ DOMAIN c = 1 .. M + N
  OBVIOUS
<1>3. \A i \in 1 .. M : c[i] = a[i]
  BY <1>1
<1>4. \A i \in 1 .. N : c[M + i] = b[i]
  BY <1>1
<1> HIDE DEF c, M, N
<1>5. ASSUME NEW i \in 1 .. M + N PROVE i \in 1 .. M \/ \E k \in 1 .. N : i = M + k
  <2>1. CASE i > M
    <3>1. i - M \in 1 .. N /\ i = M + (i - M)
      BY <1>1, <2>1
    <3> QED BY <3>1
  <2>2. CASE i <= M
    BY <1>1, <2>2
  <2> QED BY <1>1, <2>1, <2>2
<1>6. \A i \in 1 .. M : \A k \in 1 .. N : a[i] # b[k]
  BY <1>1 DEF ToSet
<1>7. IsInjective(c)
  <2> SUFFICES ASSUME NEW i \in 1 .. M + N, NEW j \in 1 .. M + N, c[i] = c[j] PROVE i = j
    BY <1>2 DEF IsInjective
  <2>1. CASE i \in 1 .. M /\ j \in 1 .. M
    BY <1>1, <1>3, <2>1 DEF IsInjective
  <2>2. CASE i \in 1 .. M /\ \E k \in 1 .. N : j = M + k
    BY <1>3, <1>4, <1>6, <2>2
  <2>3. CASE j \in 1 .. M /\ \E k \in 1 .. N : i = M + k
    BY <1>3, <1>4, <1>6, <2>3
  <2>4. CASE (\E k \in 1 .. N : i = M + k) /\ \E m \in 1 .. N : j = M + m
    <3>1. PICK k \in 1 .. N : i = M + k
      BY <2>4
    <3>2. PICK m \in 1 .. N : j = M + m
      BY <2>4
    <3>3. b[k] = b[m]
      BY <1>4, <3>1, <3>2
    <3> QED BY <1>1, <3>1, <3>2, <3>3 DEF IsInjective
  <2> QED BY <1>5, <2>1, <2>2, <2>3, <2>4
<1>8. ToSet(c) = ToSet(a) \cup ToSet(b)
  <2>1. \A i \in 1 .. M + N : c[i] \in ToSet(a) \cup ToSet(b)
    BY <1>1, <1>3, <1>4, <1>5 DEF ToSet
  <2>2. \A i \in 1 .. M : i \in 1 .. M + N
    BY <1>1
  <2>3. \A i \in 1 .. N : M + i \in 1 .. M + N
    BY <1>1
  <2>4. ToSet(a) \cup ToSet(b) \subseteq ToSet(c)
    BY <1>1, <1>2, <1>3, <1>4, <2>2, <2>3 DEF ToSet
  <2> QED BY <1>2, <2>1, <2>4 DEF ToSet
<1> QED BY <1>2, <1>7, <1>8 DEF c

\* A gathers the entries of the workers ws one after the other.
Gathers(d, ws, n, A) ==
    A = [k \in 0 .. Len(ws) |-> IF k = 0 THEN <<>> ELSE A[k - 1] \o Got(d, ws[k], n)]

\* There is one such function, whose last value is Gathered.
LEMMA GatheredIs ==
    ASSUME NEW d, DirTyped(d), NEW n \in Nat, NEW ws \in Seq(DOMAIN Listing)
    PROVE  \E A \in [0 .. Len(ws) -> Seq(EntryNames)] :
              /\ A[0] = <<>> /\ \A k \in 1 .. Len(ws) : A[k] = A[k - 1] \o Got(d, ws[k], n)
              /\ Gathered(d, ws, n) = A[Len(ws)]
<1> DEFINE N == Len(ws)
           V == Seq(EntryNames)
           G == [x \in Nat \X V |-> IF x[1] \in 1 .. N THEN x[2] \o Got(d, ws[x[1]], n) ELSE <<>>]
<1>1. N \in Nat /\ \A k \in 1 .. N : ws[k] \in DOMAIN Listing /\ Got(d, ws[k], n) \in V
  <2>1. N \in Nat /\ \A k \in 1 .. N : ws[k] \in DOMAIN Listing
    OBVIOUS
  <2>2. \A w \in DOMAIN Listing : Got(d, w, n) \in V
    BY GotIs
  <2> QED BY <2>1, <2>2
<1>2. <<>> \in V /\ \A a, b \in V : a \o b \in V
  OBVIOUS
<1> HIDE DEF V
<1>3. G \in [Nat \X V -> V]
  BY <1>1, <1>2
<1>4. ASSUME NEW k \in 1 .. N, NEW v \in V PROVE G[<<k, v>>] = v \o Got(d, ws[k], n)
  <2>1. <<k, v>> \in Nat \X V /\ <<k, v>>[1] = k /\ <<k, v>>[2] = v
    BY <1>1
  <2> QED BY <2>1
<1> HIDE DEF G
<1>5. PICK f : Recurses(f, N, V, <<>>, G)
  BY <1>1, <1>2, <1>3, Recursion
<1>6. f \in [0 .. N -> V] /\ f[0] = <<>> /\ \A k \in 1 .. N : f[k] = f[k - 1] \o Got(d, ws[k], n)
  <2>1. f \in [0 .. N -> V] /\ f[0] = <<>> /\ \A k \in 1 .. N : f[k] = G[<<k, f[k - 1]>>]
    BY <1>5 DEF Recurses
  <2>2. ASSUME NEW k \in 1 .. N PROVE f[k] = f[k - 1] \o Got(d, ws[k], n)
    <3>1. k - 1 \in 0 .. N
      BY <1>1
    <3>2. f[k - 1] \in V
      BY <2>1, <3>1
    <3> QED BY <2>1, <3>2, <1>4
  <2> QED BY <2>1, <2>2
<1>7. Gathers(d, ws, n, f)
  <2>1. \A k \in 0 .. N : f[k] = IF k = 0 THEN <<>> ELSE f[k - 1] \o Got(d, ws[k], n)
    BY <1>6, <1>1
  <2>2. f = [k \in 0 .. N |-> f[k]]
    BY <1>6
  <2> QED BY <2>1, <2>2 DEF Gathers
<1> DEFINE A == CHOOSE A : Gathers(d, ws, n, A)
<1>8. Gathers(d, ws, n, A)
  BY <1>7
<1>9. Gathered(d, ws, n) = A[Len(ws)]
  BY DEF Gathered, Gathers
<1> HIDE DEF A
<1>10. A[0] = <<>> /\ \A k \in 1 .. N : A[k] = A[k - 1] \o Got(d, ws[k], n)
  <2>1. \A k \in 0 .. N : A[k] = IF k = 0 THEN <<>> ELSE A[k - 1] \o Got(d, ws[k], n)
    BY <1>8 DEF Gathers
  <2>2. A[0] = <<>>
    BY <1>1, <2>1
  <2>3. ASSUME NEW k \in 1 .. N PROVE A[k] = A[k - 1] \o Got(d, ws[k], n)
    <3>1. k \in 0 .. N /\ k # 0
      BY <1>1
    <3> QED BY <2>1, <3>1
  <2> QED BY <2>2, <2>3
<1>11. A \in [0 .. N -> V]
  <2> DEFINE Ts == {k \in 0 .. N : A[k] \in V}
  <2>1. 0 \in Ts
    BY <1>1, <1>2, <1>10
  <2>2. ASSUME NEW k \in 1 .. N, k - 1 \in Ts PROVE k \in Ts
    <3>1. A[k - 1] \in V /\ k \in 0 .. N
      BY <1>1, <2>2
    <3>2. A[k] = A[k - 1] \o Got(d, ws[k], n) /\ Got(d, ws[k], n) \in V
      BY <1>1, <1>10
    <3> QED BY <1>2, <3>1, <3>2
  <2> HIDE DEF Ts
  <2>3. 0 .. N \subseteq Ts
    BY <1>1, <2>1, <2>2, UpTo
  <2>4. DOMAIN A = 0 .. N /\ A = [k \in 0 .. N |-> A[k]]
    BY <1>8 DEF Gathers
  <2>5. \A k \in 0 .. N : A[k] \in V
    BY <2>3 DEF Ts
  <2> QED BY <2>4, <2>5
<1> QED BY <1>9, <1>10, <1>11 DEF V

\* The entries that an epoch gathers: those that are fresh, of each worker once.
LEMMA GatheredOnce ==
    ASSUME NEW d, DirTyped(d), NEW n \in Nat, NEW ws \in Seq(DOMAIN Listing), IsInjective(ws)
    PROVE  /\ Gathered(d, ws, n) \in Seq(EntryNames) /\ IsInjective(Gathered(d, ws, n))
           /\ ToSet(Gathered(d, ws, n)) = UNION {NewOf(d, w, n) : w \in ToSet(ws)}
<1>1. PICK A \in [0 .. Len(ws) -> Seq(EntryNames)] :
         /\ A[0] = <<>> /\ \A k \in 1 .. Len(ws) : A[k] = A[k - 1] \o Got(d, ws[k], n)
         /\ Gathered(d, ws, n) = A[Len(ws)]
  BY GatheredIs
<1> DEFINE N == Len(ws)
           F(k) == UNION {NewOf(d, ws[m], n) : m \in 1 .. k}
           Ts == {k \in 0 .. N : IsInjective(A[k]) /\ ToSet(A[k]) = F(k)}
<1>2. N \in Nat /\ DOMAIN ws = 1 .. N /\ \A k \in 1 .. N : ws[k] \in DOMAIN Listing
  OBVIOUS
<1>3. 0 \in Ts
  <2>1. DOMAIN A[0] = {}
    BY <1>1
  <2>2. IsInjective(A[0]) /\ ToSet(A[0]) = {}
    BY <2>1 DEF IsInjective, ToSet
  <2>3. F(0) = {}
    OBVIOUS
  <2> QED BY <1>2, <2>2, <2>3
<1>4. ASSUME NEW k \in 1 .. N, k - 1 \in Ts PROVE k \in Ts
  <2> DEFINE a == A[k - 1]
             b == Got(d, ws[k], n)
  <2>1. k - 1 \in 0 .. N /\ k \in 0 .. N
    BY <1>2
  <2>2. a \in Seq(EntryNames) /\ A[k] = a \o b
    BY <1>1, <2>1
  <2>3. IsInjective(a) /\ ToSet(a) = F(k - 1)
    BY <1>4
  <2>4. b \in Seq(EntryNames) /\ IsInjective(b) /\ ToSet(b) = NewOf(d, ws[k], n)
    BY <1>2, GotIs
  <2>5. F(k - 1) \cap NewOf(d, ws[k], n) = {}
    <3> SUFFICES ASSUME NEW m \in 1 .. k - 1, NEW e, e \in NewOf(d, ws[m], n), e \in NewOf(d, ws[k], n) PROVE FALSE
      OBVIOUS
    <3>1. m \in 1 .. N /\ m # k
      BY <1>2
    <3>2. ws[m] # ws[k]
      BY <1>2, <3>1 DEF IsInjective
    <3> QED BY <1>2, <3>1, <3>2, FreshApart
  <2>6. F(k) = F(k - 1) \cup NewOf(d, ws[k], n)
    <3>1. 1 .. k = (1 .. k - 1) \cup {k}
      BY <1>2
    <3> QED BY <3>1
  <2> HIDE DEF F, a, b
  <2>7. IsInjective(a \o b) /\ ToSet(a \o b) = ToSet(a) \cup ToSet(b)
    BY <2>2, <2>3, <2>4, <2>5, AppendOnce
  <2>8. IsInjective(A[k]) /\ ToSet(A[k]) = F(k)
    BY <2>2, <2>3, <2>4, <2>6, <2>7
  <2> QED BY <2>1, <2>8
<1> HIDE DEF Ts
<1>5. 0 .. N \subseteq Ts
  BY <1>2, <1>3, <1>4, UpTo
<1>6. N \in Ts /\ N \in 0 .. N
  BY <1>2, <1>5
<1>7. IsInjective(A[N]) /\ ToSet(A[N]) = F(N) /\ A[N] \in Seq(EntryNames)
  BY <1>6 DEF Ts
<1>8. F(N) = UNION {NewOf(d, w, n) : w \in ToSet(ws)}
  BY <1>2 DEF ToSet
<1> QED BY <1>1, <1>7, <1>8

\* What a listing has, place by place.
LEMMA EntriesAre ==
    ASSUME NEW d, DirTyped(d)
    PROVE  LET L == Len(d.listed)
               Rs == Len(d.vec) - d.offset IN
           /\ L \in Nat /\ Rs \in Nat /\ DOMAIN d.listed = 1 .. L
           /\ Entries(d) \in Seq(EntryNames) /\ Len(Entries(d)) = L + Rs
           /\ \A k \in 1 .. L : Entries(d)[k] = d.listed[k].name
           /\ \A k \in 1 .. Rs : Entries(d)[L + k] = d.vec[d.offset + k]
<1> DEFINE L == Len(d.listed)
           V == Len(d.vec)
           o == d.offset
           Rs == V - o
           s == NamesListed(d)
           t == SubSeq(d.vec, o + 1, V)
<1>1. /\ L \in Nat /\ DOMAIN d.listed = 1 .. L /\ V \in Nat /\ o \in Nat /\ o <= V
      /\ d.vec \in Seq(EntryNames) /\ \A k \in 1 .. L : d.listed[k].name \in EntryNames
  <2> DEFINE I == [name : EntryNames, mode : EntryNames]
             l == d.listed
  <2>1. l \in Seq(I) /\ d.vec \in Seq(EntryNames) /\ o \in 0 .. V
    BY DEF DirTyped
  <2>2. \A i \in I : i.name \in EntryNames
    OBVIOUS
  <2> HIDE DEF I, l
  <2>3. Len(l) \in Nat /\ DOMAIN l = 1 .. Len(l) /\ \A k \in 1 .. Len(l) : l[k] \in I
    BY <2>1
  <2>4. V \in Nat
    BY <2>1
  <2>5. o \in Nat /\ o <= V
    BY <2>1, <2>4
  <2> QED BY <2>1, <2>2, <2>3, <2>4, <2>5 DEF l
<1>2. s \in Seq(EntryNames) /\ Len(s) = L /\ \A k \in 1 .. L : s[k] = d.listed[k].name
  <2>1. s = [k \in 1 .. L |-> d.listed[k].name]
    BY <1>1 DEF NamesListed
  <2>2. \A k \in 1 .. L : d.listed[k].name \in EntryNames
    BY <1>1
  <2> HIDE DEF s, L
  <2>3. s \in [1 .. L -> EntryNames]
    BY <2>1, <2>2
  <2> QED BY <1>1, <2>1, <2>3
<1> HIDE DEF L, V, o
<1>3. t \in Seq(EntryNames) /\ Len(t) = Rs /\ \A k \in 1 .. Rs : t[k] = d.vec[o + k]
  <2>1. Len(d.vec) = V
    BY DEF V
  <2> QED BY <1>1, <2>1
<1>4. Entries(d) = s \o t
  BY DEF Entries, o, V
<1> HIDE DEF s, t
<1>5. Rs \in Nat
  BY <1>1
<1> HIDE DEF Rs
<1>6. s \o t \in Seq(EntryNames) /\ Len(s \o t) = L + Rs
  BY <1>2, <1>3
<1>7. \A k \in 1 .. L : (s \o t)[k] = s[k]
  BY <1>2, <1>3, <1>5, <1>1
<1>8. \A k \in 1 .. Rs : (s \o t)[L + k] = t[k]
  BY <1>2, <1>3, <1>5, <1>1
<1> QED BY <1>1, <1>2, <1>3, <1>4, <1>5, <1>6, <1>7, <1>8 DEF L, Rs, V, o

\* Fill moves entries from partialEntryVec to the kernel's buffer.
LEMMA FillIs ==
    ASSUME NEW d, IsDir(d), DirTyped(d), NEW room \in Nat
    PROVE  LET f == Fill(d, room)
               n == Lesser(Len(d.vec) - d.offset, room) IN
           /\ IsDir(f) /\ n \in Nat /\ n <= Len(d.vec) - d.offset /\ n <= room
           /\ n = room \/ n = Len(d.vec) - d.offset
           /\ f.offset = d.offset + n /\ f.vec = d.vec /\ f.modes = d.modes /\ f.read = d.read
           /\ f.working = d.working /\ f.begun = d.begun /\ f.err = d.err
           /\ f.listed \in Seq([name : EntryNames, mode : EntryNames]) /\ Len(f.listed) = Len(d.listed) + n
           /\ \A k \in 1 .. Len(d.listed) : f.listed[k] = d.listed[k]
           /\ \A k \in 1 .. n : f.listed[Len(d.listed) + k].name = d.vec[d.offset + k]
<1> DEFINE n == Lesser(Len(d.vec) - d.offset, room)
           I == [name : EntryNames, mode : EntryNames]
           X == [k \in 1 .. n |-> [name |-> d.vec[d.offset + k], mode |-> d.modes[d.offset + k]]]
           l == d.listed \o X
           o == d.offset + n
           f == [d EXCEPT !.offset = o, !.listed = l]
<1>1. /\ Len(d.vec) \in Nat /\ Len(d.modes) \in Nat /\ d.offset \in Nat /\ d.offset <= Len(d.vec) /\ Len(d.vec) <= Len(d.modes)
      /\ d.vec \in Seq(EntryNames) /\ d.modes \in Seq(EntryNames) /\ d.listed \in Seq(I)
  BY DEF DirTyped
<1>2. n \in Nat /\ n <= Len(d.vec) - d.offset /\ n <= room /\ (n = room \/ n = Len(d.vec) - d.offset)
  BY <1>1 DEF Lesser
<1>3. Fill(d, room) = f
  BY DEF Fill
<1> HIDE DEF n
<1>4. \A k \in 1 .. n : d.offset + k \in 1 .. Len(d.vec) /\ d.offset + k \in 1 .. Len(d.modes)
  BY <1>1, <1>2
<1>5. \A k \in 1 .. n : d.vec[d.offset + k] \in EntryNames /\ d.modes[d.offset + k] \in EntryNames
  BY <1>1, <1>4
<1>6. X \in [1 .. n -> I] /\ \A k \in 1 .. n : X[k].name = d.vec[d.offset + k]
  BY <1>5
<1> HIDE DEF X, I
<1>7. X \in Seq(I) /\ Len(X) = n
  BY <1>2, <1>6
<1>8. l \in Seq(I) /\ Len(l) = Len(d.listed) + n
  <2> DEFINE c == d.listed
  <2>1. c \in Seq(I)
    BY <1>1
  <2> HIDE DEF c
  <2>2. c \o X \in Seq(I) /\ Len(c \o X) = Len(c) + Len(X)
    BY <1>7, <2>1
  <2> QED BY <1>7, <2>2 DEF c
<1>9. \A k \in 1 .. Len(d.listed) : l[k] = d.listed[k]
  BY <1>1, <1>2, <1>7
<1>10. \A k \in 1 .. n : l[Len(d.listed) + k] = X[k]
  BY <1>1, <1>2, <1>7
<1> HIDE DEF l, o
<1>11. /\ IsDir(f) /\ f.offset = o /\ f.vec = d.vec /\ f.modes = d.modes /\ f.read = d.read
       /\ f.working = d.working /\ f.begun = d.begun /\ f.err = d.err /\ f.listed = l
  BY DEF IsDir
<1> HIDE DEF f
<1>12. \A k \in 1 .. n : l[Len(d.listed) + k].name = d.vec[d.offset + k]
  BY <1>6, <1>10
<1>13. f.offset = d.offset + n
  BY <1>11 DEF o
<1> QED BY <1>2, <1>3, <1>8, <1>9, <1>11, <1>12, <1>13 DEF n, I

\* The entries of the listing stay what they were.
LEMMA FillKeeps ==
    ASSUME NEW d, IsDir(d), DirKept(d), NEW room \in Nat
    PROVE  LET f == Fill(d, room) IN
           /\ IsDir(f) /\ DirKept(f) /\ f.err = d.err
           /\ f.vec = d.vec /\ f.read = d.read /\ f.working = d.working /\ f.begun = d.begun
           /\ f.listed = d.listed /\ room > 0 => d.offset = Len(d.vec) /\ f.offset = Len(f.vec)
<1> DEFINE f == Fill(d, room)
           n == Lesser(Len(d.vec) - d.offset, room)
           L == Len(d.listed)
           Rs == Len(d.vec) - d.offset
<1>1. DirTyped(d) /\ ReadOnce(d)
  BY DEF DirKept
<1>2. /\ IsDir(f) /\ n \in Nat /\ n <= Rs /\ n <= room /\ (n = room \/ n = Rs)
      /\ f.offset = d.offset + n /\ f.vec = d.vec /\ f.modes = d.modes /\ f.read = d.read
      /\ f.working = d.working /\ f.begun = d.begun /\ f.err = d.err
      /\ f.listed \in Seq([name : EntryNames, mode : EntryNames]) /\ Len(f.listed) = L + n
      /\ \A k \in 1 .. L : f.listed[k] = d.listed[k]
      /\ \A k \in 1 .. n : f.listed[L + k].name = d.vec[d.offset + k]
  BY <1>1, FillIs
<1> HIDE DEF f, n
<1>3. Len(d.vec) \in Nat /\ d.offset \in Nat /\ d.offset <= Len(d.vec) /\ L \in Nat
  BY <1>1 DEF DirTyped
<1>4. f.offset \in 0 .. Len(f.vec)
  BY <1>2, <1>3
<1>5. DirTyped(f)
  BY <1>1, <1>2, <1>4 DEF DirTyped
<1>6. /\ Rs \in Nat /\ Entries(d) \in Seq(EntryNames) /\ Len(Entries(d)) = L + Rs
      /\ \A k \in 1 .. L : Entries(d)[k] = d.listed[k].name
      /\ \A k \in 1 .. Rs : Entries(d)[L + k] = d.vec[d.offset + k]
  BY <1>1, EntriesAre
<1>7. /\ Entries(f) \in Seq(EntryNames) /\ Len(Entries(f)) = (L + n) + (Len(d.vec) - (d.offset + n))
      /\ \A k \in 1 .. L + n : Entries(f)[k] = f.listed[k].name
      /\ \A k \in 1 .. Len(d.vec) - (d.offset + n) : Entries(f)[(L + n) + k] = d.vec[(d.offset + n) + k]
  <2>1. /\ Entries(f) \in Seq(EntryNames) /\ Len(Entries(f)) = Len(f.listed) + (Len(f.vec) - f.offset)
        /\ \A k \in 1 .. Len(f.listed) : Entries(f)[k] = f.listed[k].name
        /\ \A k \in 1 .. Len(f.vec) - f.offset : Entries(f)[Len(f.listed) + k] = f.vec[f.offset + k]
    BY <1>5, EntriesAre
  <2>2. Len(f.listed) = L + n /\ f.vec = d.vec /\ f.offset = d.offset + n
    BY <1>2
  <2> HIDE DEF L
  <2> QED BY <2>1, <2>2
<1>8. ASSUME NEW k \in 1 .. L + Rs PROVE Entries(f)[k] = Entries(d)[k]
  <2>1. CASE k <= L
    <3>1. k \in 1 .. L /\ k \in 1 .. L + n
      BY <1>2, <1>3, <1>6, <2>1
    <3> QED BY <1>2, <1>6, <1>7, <3>1
  <2>2. CASE k > L /\ k <= L + n
    <3>1. k - L \in 1 .. n /\ k - L \in 1 .. Rs /\ k \in 1 .. L + n /\ L + (k - L) = k
      BY <1>2, <1>3, <1>6, <2>2
    <3>2. f.listed[k].name = d.vec[d.offset + (k - L)]
      BY <1>2, <3>1
    <3>3. Entries(d)[k] = d.vec[d.offset + (k - L)]
      BY <1>6, <3>1
    <3> QED BY <1>7, <3>1, <3>2, <3>3
  <2>3. CASE k > L + n
    <3> DEFINE j == k - (L + n)
    <3> DEFINE V == Len(d.vec)
               o == d.offset
    <3>1. V \in Nat /\ o \in Nat /\ L \in Nat /\ n \in Nat /\ Rs = V - o /\ k \in 1 .. L + Rs /\ k > L + n
      BY <1>2, <1>3, <2>3
    <3> HIDE DEF V, o, L, Rs
    <3>2. j \in 1 .. V - (o + n) /\ (L + n) + j = k /\ k - L \in 1 .. Rs /\ L + (k - L) = k
      BY <3>1
    <3>3. (o + n) + j = o + (k - L)
      BY <3>1
    <3>4. j \in 1 .. Len(d.vec) - (d.offset + n) /\ (d.offset + n) + j = d.offset + (k - L)
      BY <3>2, <3>3 DEF V, o
    <3> HIDE DEF j
    <3>5. Entries(f)[k] = d.vec[d.offset + (k - L)]
      BY <1>7, <3>2, <3>4
    <3>6. Entries(d)[k] = d.vec[d.offset + (k - L)]
      BY <1>6, <3>2
    <3> QED BY <3>5, <3>6
  <2> QED BY <1>2, <1>3, <1>6, <2>1, <2>2, <2>3
<1>9. Entries(f) = Entries(d)
  <2>1. Len(Entries(f)) = L + Rs
    BY <1>2, <1>3, <1>7
  <2>2. ASSUME NEW s \in Seq(EntryNames), NEW t \in Seq(EntryNames), NEW m \in Nat, Len(s) = m, Len(t) = m,
               \A k \in 1 .. m : s[k] = t[k]
        PROVE  s = t
    BY <2>2
  <2>3. L + Rs \in Nat
    BY <1>3, <1>6
  <2> QED BY <1>6, <1>7, <1>8, <2>1, <2>2, <2>3
<1>10. HasRead(f) = HasRead(d)
  BY <1>2 DEF HasRead
<1>11. DirKept(f)
  BY <1>1, <1>2, <1>5, <1>9, <1>10 DEF DirKept, ReadOnce
<1>12. ASSUME f.listed = d.listed, room > 0 PROVE d.offset = Len(d.vec) /\ f.offset = Len(f.vec)
  <2>1. n = 0
    BY <1>2, <1>3, <1>12
  <2>2. Rs = 0
    BY <1>2, <1>12, <2>1
  <2> QED BY <1>2, <1>3, <2>1, <2>2
<1> QED BY <1>2, <1>11, <1>12 DEF f

\* The orders of the workers that are asked.
LEMMA OrdersAre ==
    ASSUME NEW d, DirTyped(d), NEW ws \in WorkerOrders(d)
    PROVE  /\ ws \in Seq(DOMAIN Listing) /\ IsInjective(ws) /\ Len(ws) \in Nat /\ Len(ws) <= PerEpoch
           /\ ToSet(ws) = IF d.begun THEN d.working ELSE DOMAIN Listing
<1> DEFINE S == IF d.begun THEN d.working ELSE DOMAIN Listing
           Cs == Cardinality(S)
<1>1. S \subseteq DOMAIN Listing
  BY DEF DirTyped
<1>2. ws \in SetToSeqs(S)
  BY DEF WorkerOrders
<1> HIDE DEF S
<1>3. IsFiniteSet(S) /\ Cs \in Nat /\ Cs <= PerEpoch
  <2>1. IsFiniteSet(S) /\ Cs <= Cardinality(DOMAIN Listing)
    BY <1>1, ClientAssumptions, FS_Subset
  <2>2. Cs \in Nat /\ Cardinality(DOMAIN Listing) \in Nat
    BY <2>1, ClientAssumptions, FS_CardinalityType
  <2> QED BY <2>1, <2>2, ClientAssumptions
<1>4. ws \in [1 .. Cs -> S] /\ \A i, j \in 1 .. Cs : i # j => ws[i] # ws[j]
  BY <1>2 DEF SetToSeqs
<1> HIDE DEF Cs
<1>5. ws \in Seq(S) /\ Len(ws) = Cs /\ DOMAIN ws = 1 .. Cs
  BY <1>3, <1>4
<1>6. IsInjective(ws)
  BY <1>4, <1>5 DEF IsInjective
<1>7. ws \in Injection(1 .. Cs, S)
  BY <1>4, <1>6 DEF Injection
<1>8. Cardinality(1 .. Cs) = Cs
  <2>1. 1 \in Int /\ Cs \in Int
    BY <1>3
  <2>2. Cardinality(1 .. Cs) = IF 1 > Cs THEN 0 ELSE Cs - 1 + 1
    BY <2>1, FS_Interval
  <2> QED BY <1>3, <2>2
<1>9. ws \in Surjection(1 .. Cs, S)
  BY <1>3, <1>7, <1>8, FS_Injection DEF Cs
<1>10. ToSet(ws) = S
  BY <1>4, <1>5, <1>9 DEF ToSet, Surjection
<1>11. ws \in Seq(DOMAIN Listing)
  BY <1>1, <1>5
<1> QED BY <1>3, <1>5, <1>6, <1>10, <1>11 DEF S

\* An epoch asks for entries.
LEMMA EpochSize ==
    ASSUME NEW m \in Nat, m > 0, m <= PerEpoch
    PROVE  Lesser(PerEpoch \div m, PerWorker) \in Nat /\ Lesser(PerEpoch \div m, PerWorker) > 0
<1> DEFINE q == PerEpoch \div m
           r == PerEpoch % m
<1>1. PerEpoch \in Nat /\ PerWorker \in Nat /\ PerWorker > 0
  BY ClientAssumptions
<1>2. q \in Int /\ r \in 0 .. m - 1 /\ PerEpoch = m * q + r
  BY <1>1
<1> HIDE DEF q, r
<1>3. q > 0
  <2> SUFFICES ASSUME q <= 0 PROVE FALSE
    BY <1>2
  <2>1. m * q <= 0
    BY <1>2
  <2>2. m * q \in Int
    BY <1>2
  <2> HIDE DEF q
  <2> QED BY <1>1, <1>2, <2>1, <2>2
<1> QED BY <1>1, <1>2, <1>3 DEF Lesser, q

\* The record after an epoch.
LEMMA EpochIs ==
    ASSUME NEW d, IsDir(d), NEW ws, NEW n
    PROVE  LET e == Epoch(d, ws, n) IN
           /\ IsDir(e) /\ e.vec = Gathered(d, ws, n) /\ e.modes = d.modes \o Gathered(d, ws, n)
           /\ e.offset = 0 /\ e.begun = TRUE /\ e.err = d.err /\ e.listed = d.listed
           /\ e.read = [w \in DOMAIN d.read |-> e.read[w]]
           /\ \A w \in DOMAIN d.read : e.read[w] = IF w \in ToSet(ws) THEN LastRead(d, w, n) ELSE d.read[w]
           /\ \A w : w \in e.working <=> w \in ToSet(ws) /\ Len(Got(d, w, n)) = n
<1> DEFINE G == Gathered(d, ws, n)
           M == d.modes \o Gathered(d, ws, n)
           Rs == [w \in DOMAIN d.read |-> IF w \in ToSet(ws) THEN LastRead(d, w, n) ELSE d.read[w]]
           W == {w \in ToSet(ws) : Len(Got(d, w, n)) = n}
           e == [d EXCEPT !.vec = G, !.modes = M, !.offset = 0, !.begun = TRUE, !.read = Rs, !.working = W]
<1>1. Epoch(d, ws, n) = e
  BY DEF Epoch
<1> HIDE DEF G, M, Rs, W
<1>2. /\ IsDir(e) /\ e.vec = G /\ e.modes = M /\ e.offset = 0 /\ e.begun = TRUE /\ e.err = d.err
      /\ e.listed = d.listed /\ e.read = Rs /\ e.working = W
  BY DEF IsDir
<1> HIDE DEF e
<1>3. /\ Rs = [w \in DOMAIN d.read |-> Rs[w]]
      /\ \A w \in DOMAIN d.read : Rs[w] = IF w \in ToSet(ws) THEN LastRead(d, w, n) ELSE d.read[w]
  BY DEF Rs
<1>4. \A w : w \in W <=> w \in ToSet(ws) /\ Len(Got(d, w, n)) = n
  BY DEF W
<1> QED BY <1>1, <1>2, <1>3, <1>4 DEF G, M

\* An epoch, failed or not, leaves a record of the same shape.
LEMMA EpochShape ==
    ASSUME NEW d, IsDir(d), NEW ws, NEW n
    PROVE  IsDir(Epoch(d, ws, n)) /\ Epoch(d, ws, n).err = d.err
<1> DEFINE G == Gathered(d, ws, n)
           M == d.modes \o Gathered(d, ws, n)
           Rs == [w \in DOMAIN d.read |-> IF w \in ToSet(ws) THEN LastRead(d, w, n) ELSE d.read[w]]
           W == {w \in ToSet(ws) : Len(Got(d, w, n)) = n}
           e == [d EXCEPT !.vec = G, !.modes = M, !.offset = 0, !.begun = TRUE, !.read = Rs, !.working = W]
<1>1. Epoch(d, ws, n) = e
  BY DEF Epoch
<1> HIDE DEF G, M, Rs, W
<1>2. IsDir(e) /\ e.err = d.err
  BY DEF IsDir
<1> QED BY <1>1, <1>2

\* An epoch adds what is fresh, and a worker that is left out has given everything.
LEMMA EpochKeeps ==
    ASSUME NEW d, IsDir(d), DirKept(d), d.offset >= Len(d.vec), NEW ws \in WorkerOrders(d), NEW n \in Nat, n > 0
    PROVE  LET e == Epoch(d, ws, n) IN
           /\ IsDir(e) /\ DirKept(e) /\ e.err = d.err /\ e.listed = d.listed
           /\ e.offset = Len(e.vec) => AllRead(e)
<1> DEFINE e == Epoch(d, ws, n)
           G == Gathered(d, ws, n)
           S == ToSet(ws)
<1>1. DirTyped(d) /\ IsInjective(Entries(d)) /\ ToSet(Entries(d)) = HasRead(d)
  BY DEF DirKept, ReadOnce
<1>2. /\ IsDir(e) /\ e.vec = G /\ e.modes = d.modes \o G
      /\ e.offset = 0 /\ e.begun = TRUE /\ e.err = d.err /\ e.listed = d.listed
      /\ e.read = [w \in DOMAIN d.read |-> e.read[w]]
      /\ \A w \in DOMAIN d.read : e.read[w] = IF w \in S THEN LastRead(d, w, n) ELSE d.read[w]
      /\ \A w : w \in e.working <=> w \in S /\ Len(Got(d, w, n)) = n
  BY EpochIs
<1>3. ws \in Seq(DOMAIN Listing) /\ IsInjective(ws) /\ S = IF d.begun THEN d.working ELSE DOMAIN Listing
  BY <1>1, OrdersAre
<1>4. S \subseteq DOMAIN Listing
  BY <1>1, <1>3 DEF DirTyped
<1>5. G \in Seq(EntryNames) /\ IsInjective(G) /\ ToSet(G) = UNION {NewOf(d, w, n) : w \in S}
  BY <1>1, <1>3, GatheredOnce
<1> HIDE DEF e, G, S
<1>6. \A w \in DOMAIN Listing : e.read[w] = IF w \in S THEN LastRead(d, w, n) ELSE d.read[w]
  BY <1>1, <1>2 DEF DirTyped
<1>7. ASSUME NEW w \in DOMAIN Listing
      PROVE  /\ d.read[w] \in Nat /\ e.read[w] \in Nat /\ d.read[w] <= e.read[w] /\ e.read[w] <= Len(Listing[w])
             /\ Len(Listing[w]) \in Nat
  <2>1. d.read[w] \in Nat /\ d.read[w] <= Len(Listing[w]) /\ Len(Listing[w]) \in Nat
    BY <1>1, ListingFacts DEF DirTyped
  <2>2. LastRead(d, w, n) \in Nat /\ d.read[w] <= LastRead(d, w, n) /\ LastRead(d, w, n) <= Len(Listing[w])
    BY <1>1, LastReadIs
  <2> QED BY <1>6, <2>1, <2>2
<1>8. DirTyped(e)
  <2>1. e.read \in [DOMAIN Listing -> Nat]
    <3>1. DOMAIN d.read = DOMAIN Listing
      BY <1>1 DEF DirTyped
    <3>2. e.read = [w \in DOMAIN Listing |-> e.read[w]]
      BY <1>2, <3>1
    <3> QED BY <1>7, <3>2
  <2>2. e.modes \in Seq(EntryNames) /\ Len(e.vec) <= Len(e.modes) /\ Len(e.vec) \in Nat
    <3> DEFINE m == d.modes
    <3>1. m \in Seq(EntryNames)
      BY <1>1 DEF DirTyped
    <3> HIDE DEF m
    <3>2. m \o G \in Seq(EntryNames) /\ Len(m \o G) = Len(m) + Len(G) /\ Len(m) \in Nat /\ Len(G) \in Nat
      BY <1>5, <3>1
    <3>3. e.modes = m \o G /\ e.vec = G
      BY <1>2 DEF m
    <3> QED BY <3>2, <3>3
  <2>3. e.offset \in 0 .. Len(e.vec)
    BY <1>2, <2>2
  <2>4. e.listed \in Seq([name : EntryNames, mode : EntryNames])
    BY <1>1, <1>2 DEF DirTyped
  <2>5. e.working \subseteq DOMAIN Listing /\ e.begun \in BOOLEAN /\ e.vec \in Seq(EntryNames)
    BY <1>2, <1>4, <1>5
  <2> QED BY <1>7, <2>1, <2>2, <2>3, <2>4, <2>5 DEF DirTyped
<1>9. Entries(e) = Entries(d) \o G
  <2> DEFINE s == NamesListed(d)
             v == d.vec
             V == Len(d.vec)
             t == SubSeq(v, V + 1, V)
  <2>1. s \in Seq(EntryNames)
    <3>1. NamesListed(d) = [k \in 1 .. Len(d.listed) |-> Entries(d)[k]] /\ Len(d.listed) \in Nat
      BY <1>1, EntriesAre DEF NamesListed
    <3>2. \A k \in 1 .. Len(d.listed) : Entries(d)[k] \in EntryNames
      <4>1. Entries(d) \in Seq(EntryNames) /\ \A k \in 1 .. Len(d.listed) : k \in 1 .. Len(Entries(d))
        BY <1>1, EntriesAre
      <4> QED BY <4>1
    <3> QED BY <3>1, <3>2
  <2>2. d.offset = V /\ V \in Nat /\ v \in Seq(EntryNames)
    BY <1>1 DEF DirTyped
  <2>3. Entries(d) = s \o t
    BY <2>2 DEF Entries
  <2>4. Entries(e) = s \o SubSeq(G, 0 + 1, Len(G))
    BY <1>2 DEF Entries, NamesListed
  <2> HIDE DEF s, v
  <2>5. t = <<>>
    <3> HIDE DEF V
    <3>1. t \in Seq(EntryNames) /\ Len(t) = 0
      BY <2>2 DEF V, v
    <3> HIDE DEF t
    <3> QED BY <3>1
  <2>6. SubSeq(G, 0 + 1, Len(G)) = G
    BY <1>5
  <2>7. s \o <<>> = s
    BY <2>1
  <2> QED BY <2>3, <2>4, <2>5, <2>6, <2>7
<1>10. HasRead(e) = HasRead(d) \cup UNION {NewOf(d, w, n) : w \in S}
  <2> DEFINE H(w) == {Listing[w][j] : j \in 1 .. d.read[w]}
             K(w) == {Listing[w][j] : j \in 1 .. e.read[w]}
  <2>1. ASSUME NEW w \in S PROVE K(w) = H(w) \cup NewOf(d, w, n)
    <3>1. w \in DOMAIN Listing /\ e.read[w] = LastRead(d, w, n)
      BY <1>4, <1>6
    <3>2. 1 .. e.read[w] = (1 .. d.read[w]) \cup (d.read[w] + 1 .. LastRead(d, w, n))
      BY <1>7, <3>1
    <3> QED BY <3>2 DEF NewOf
  <2>2. ASSUME NEW w \in DOMAIN Listing, w \notin S PROVE K(w) = H(w)
    BY <1>6, <2>2
  <2>3. HasRead(e) = UNION {K(w) : w \in DOMAIN Listing} /\ HasRead(d) = UNION {H(w) : w \in DOMAIN Listing}
    BY DEF HasRead
  <2> HIDE DEF H, K
  <2> QED BY <1>4, <2>1, <2>2, <2>3
<1>11. ReadOnce(e)
  <2>1. ToSet(Entries(d)) \cap ToSet(G) = {}
    BY <1>1, <1>4, <1>5, FreshNew
  <2>2. Entries(d) \in Seq(EntryNames)
    BY <1>1, EntriesAre
  <2>3. IsInjective(Entries(d) \o G) /\ ToSet(Entries(d) \o G) = ToSet(Entries(d)) \cup ToSet(G)
    BY <1>1, <1>5, <2>1, <2>2, AppendOnce
  <2> QED BY <1>1, <1>5, <1>9, <1>10, <2>3 DEF ReadOnce
<1>12. ASSUME NEW w \in DOMAIN Listing \ e.working PROVE e.read[w] = Len(Listing[w])
  <2>1. CASE w \in S
    <3>1. Len(Got(d, w, n)) # n /\ e.read[w] = LastRead(d, w, n)
      BY <1>2, <1>6, <2>1
    <3>2. /\ LastRead(d, w, n) = Len(Listing[w]) \/ LastRead(d, w, n) = d.read[w] + n
          /\ Len(Got(d, w, n)) = LastRead(d, w, n) - d.read[w]
      BY <1>1, LastReadIs, GotIs
    <3> QED BY <1>7, <3>1, <3>2
  <2>2. CASE w \notin S
    <3>1. d.begun /\ w \notin d.working
      BY <1>3, <2>2
    <3> QED BY <1>6, <2>2, <3>1 DEF DirKept
  <2> QED BY <2>1, <2>2
<1>13. DirKept(e)
  BY <1>8, <1>11, <1>12 DEF DirKept
<1>14. ASSUME e.offset = Len(e.vec) PROVE AllRead(e)
  <2>1. Len(G) = 0
    BY <1>2, <1>14
  <2>2. ToSet(G) = {}
    <3>1. DOMAIN G = {}
      BY <1>5, <2>1
    <3> QED BY <3>1 DEF ToSet
  <2> SUFFICES ASSUME NEW w \in DOMAIN Listing PROVE e.read[w] = Len(Listing[w])
    BY DEF AllRead
  <2>3. CASE w \in S
    <3> DEFINE a == d.read[w]
               b == LastRead(d, w, n)
    <3>1. a \in Nat /\ b \in Nat /\ a <= b /\ (b = Len(Listing[w]) \/ b = a + n)
      BY <1>1, LastReadIs
    <3>2. NewOf(d, w, n) = {}
      BY <1>5, <2>2, <2>3
    <3>3. a + 1 \notin a + 1 .. b
      BY <3>2 DEF NewOf
    <3> HIDE DEF a, b
    <3>4. b = a
      BY <3>1, <3>3
    <3>5. b = Len(Listing[w])
      BY <3>1, <3>4
    <3> QED BY <1>6, <2>3, <3>5 DEF b
  <2>4. CASE w \notin S
    BY <1>2, <1>12, <2>4
  <2> QED BY <2>3, <2>4
<1> QED BY <1>2, <1>13, <1>14 DEF e

\* DirKept looks at these fields.
LEMMA SameDir ==
    ASSUME NEW d, NEW e, DirKept(d), e.begun = d.begun, e.working = d.working, e.read = d.read, e.vec = d.vec,
           e.modes = d.modes, e.offset = d.offset, e.listed = d.listed
    PROVE  DirKept(e) /\ (AtItsEnd(d) => AtItsEnd(e))
<1>1. Entries(e) = Entries(d) /\ HasRead(e) = HasRead(d)
  BY DEF Entries, NamesListed, HasRead
<1>2. DirTyped(e)
  BY DEF DirKept, DirTyped
<1> QED BY <1>1, <1>2 DEF DirKept, ReadOnce, AtItsEnd, AllRead

\* The shape of the records.
LEMMA DirShapes ==
    ASSUME NEW d, IsDir(d)
    PROVE  /\ \A room : IsDir(Fill(d, room)) /\ Fill(d, room).err = d.err
           /\ \A b : LET e == [d EXCEPT !.ended = b] IN
                 /\ IsDir(e) /\ e.ended = b /\ e.err = d.err /\ e.begun = d.begun /\ e.working = d.working
                 /\ e.read = d.read /\ e.vec = d.vec /\ e.modes = d.modes /\ e.offset = d.offset /\ e.listed = d.listed
           /\ \A b : LET e == [d EXCEPT !.open = b] IN
                 /\ IsDir(e) /\ e.ended = d.ended /\ e.err = d.err /\ e.begun = d.begun /\ e.working = d.working
                 /\ e.read = d.read /\ e.vec = d.vec /\ e.modes = d.modes /\ e.offset = d.offset /\ e.listed = d.listed
           /\ LET e == [d EXCEPT !.err = TRUE] IN IsDir(e) /\ e.err
<1>1. ASSUME NEW room PROVE IsDir(Fill(d, room)) /\ Fill(d, room).err = d.err
  <2> DEFINE n == Lesser(Len(d.vec) - d.offset, room)
             o == d.offset + n
             l == d.listed \o [k \in 1 .. n |-> [name |-> d.vec[d.offset + k], mode |-> d.modes[d.offset + k]]]
  <2>1. Fill(d, room) = [d EXCEPT !.offset = o, !.listed = l]
    BY DEF Fill
  <2> HIDE DEF n, o, l
  <2> QED BY <2>1 DEF IsDir
<1> QED BY <1>1 DEF IsDir

\* A listing that begins.
LEMMA NoDirKept ==
    LET e == [NoDir EXCEPT !.open = TRUE] IN
    /\ IsDir(NoDir) /\ ~NoDir.err /\ ~NoDir.ended /\ DirKept(NoDir)
    /\ IsDir(e) /\ ~e.err /\ ~e.ended /\ DirKept(e)
<1>1. /\ IsDir(NoDir) /\ ~NoDir.err /\ ~NoDir.ended /\ NoDir.begun = FALSE /\ NoDir.working = {}
      /\ NoDir.vec = <<>> /\ NoDir.modes = <<>> /\ NoDir.listed = <<>> /\ NoDir.offset = 0
      /\ NoDir.read = [w \in DOMAIN Listing |-> 0]
  BY DEF NoDir, IsDir
<1>2. NoDir.read \in [DOMAIN Listing -> Nat] /\ \A w \in DOMAIN Listing : NoDir.read[w] = 0 /\ Len(Listing[w]) \in Nat
  BY <1>1, ListingFacts
<1> HIDE DEF NoDir
<1>3. DirTyped(NoDir)
  <2>1. \A w \in DOMAIN Listing : NoDir.read[w] <= Len(Listing[w])
    BY <1>2
  <2>2. <<>> \in Seq(EntryNames) /\ <<>> \in Seq([name : EntryNames, mode : EntryNames]) /\ Len(<<>>) = 0
    OBVIOUS
  <2>3. NoDir.vec \in Seq(EntryNames) /\ NoDir.modes \in Seq(EntryNames)
    BY <1>1, <2>2
  <2>4. NoDir.listed \in Seq([name : EntryNames, mode : EntryNames])
    BY <1>1, <2>2
  <2>5. Len(NoDir.vec) = 0 /\ Len(NoDir.modes) = 0
    BY <1>1, <2>2
  <2>6. Len(NoDir.vec) <= Len(NoDir.modes) /\ NoDir.offset \in 0 .. Len(NoDir.vec)
    BY <1>1, <2>5
  <2>7. NoDir.working \subseteq DOMAIN Listing /\ NoDir.begun \in BOOLEAN
    BY <1>1
  <2> QED BY <1>2, <2>1, <2>3, <2>4, <2>6, <2>7 DEF DirTyped
<1>4. Entries(NoDir) \in Seq(EntryNames) /\ Len(Entries(NoDir)) = 0
  <2>1. Len(NoDir.listed) = 0 /\ Len(NoDir.vec) - NoDir.offset = 0
    BY <1>1
  <2> QED BY <1>3, <2>1, EntriesAre
<1>5. DOMAIN Entries(NoDir) = {}
  BY <1>4
<1>6. HasRead(NoDir) = {}
  BY <1>2 DEF HasRead
<1>7. DirKept(NoDir)
  BY <1>1, <1>3, <1>5, <1>6 DEF DirKept, ReadOnce, IsInjective, ToSet
<1> DEFINE e == [NoDir EXCEPT !.open = TRUE]
<1>8. /\ IsDir(e) /\ e.ended = NoDir.ended /\ e.err = NoDir.err /\ e.begun = NoDir.begun /\ e.working = NoDir.working
      /\ e.read = NoDir.read /\ e.vec = NoDir.vec /\ e.modes = NoDir.modes /\ e.offset = NoDir.offset
      /\ e.listed = NoDir.listed
  BY <1>1 DEF IsDir
<1> HIDE DEF e
<1>9. DirKept(e)
  BY <1>7, <1>8, SameDir
<1> QED BY <1>1, <1>7, <1>8, <1>9 DEF e

\* What a call of x leaves.
DirFits(d) == IsDir(d) /\ (~d.err => DirKept(d) /\ (d.ended => AtItsEnd(d)))

\* A call of x leaves the other listings alone.
LEMMA DirStep ==
    ASSUME ListingInv, NEW x \in Procs, NEW e, DirFits(e), dir' = [dir EXCEPT ![x] = e]
    PROVE  ListingInv'
<1>1. DOMAIN dir' = Procs /\ dir'[x] = e /\ \A y \in Procs \ {x} : dir'[y] = dir[y]
  BY DEF ListingInv
<1>2. \A y \in Procs : DirFits(dir'[y])
  BY <1>1 DEF ListingInv, DirFits
<1> QED BY <1>1, <1>2 DEF ListingInv, DirFits

\* A call that succeeds: the entries of an epoch, if one is due, and what the buffer takes.
LEMMA ReadDirFits ==
    ASSUME NEW d, DirFits(d), NEW ws \in WorkerOrders(d)
    PROVE  LET fetches == d.offset >= Len(d.vec) /\ ws # <<>>
               n == Lesser(PerEpoch \div Len(ws), PerWorker)
               e == Fill(IF fetches THEN Epoch(d, ws, n) ELSE d, IF d.begun THEN FillMax ELSE FillMax - 2)
               ends == d.begun /\ e.listed = d.listed IN
           DirFits([e EXCEPT !.ended = ends])
<1> DEFINE fetches == d.offset >= Len(d.vec) /\ ws # <<>>
           n == Lesser(PerEpoch \div Len(ws), PerWorker)
           D == IF fetches THEN Epoch(d, ws, n) ELSE d
           room == IF d.begun THEN FillMax ELSE FillMax - 2
           e == Fill(D, room)
           ends == d.begun /\ e.listed = d.listed
           g == [e EXCEPT !.ended = ends]
<1>1. IsDir(D) /\ D.err = d.err
  <2>1. IsDir(d)
    BY DEF DirFits
  <2>2. ASSUME NEW m PROVE IsDir(Epoch(d, ws, m)) /\ Epoch(d, ws, m).err = d.err
    BY <2>1, EpochShape
  <2> HIDE DEF n
  <2> QED BY <2>1, <2>2
<1>2. room \in Nat /\ room > 0
  BY ClientAssumptions
<1> HIDE DEF D, room
<1>3. IsDir(e) /\ e.err = d.err
  BY <1>1, DirShapes
<1> HIDE DEF e
<1>4. /\ IsDir(g) /\ g.ended = ends /\ g.err = e.err /\ g.begun = e.begun /\ g.working = e.working
      /\ g.read = e.read /\ g.vec = e.vec /\ g.modes = e.modes /\ g.offset = e.offset /\ g.listed = e.listed
  BY <1>3, DirShapes
<1> HIDE DEF g
<1>5. ASSUME ~d.err PROVE DirKept(g) /\ (g.ended => AtItsEnd(g))
  <2>1. DirKept(d)
    BY <1>5 DEF DirFits
  <2>2. /\ ws \in Seq(DOMAIN Listing) /\ Len(ws) \in Nat /\ Len(ws) <= PerEpoch
        /\ ToSet(ws) = IF d.begun THEN d.working ELSE DOMAIN Listing
    BY <2>1, OrdersAre DEF DirKept
  <2>3. ASSUME fetches PROVE DirKept(D) /\ D.listed = d.listed /\ (D.offset = Len(D.vec) => AllRead(D))
    <3>1. Len(ws) > 0
      BY <2>2, <2>3
    <3>2. n \in Nat /\ n > 0
      BY <2>2, <3>1, EpochSize
    <3> HIDE DEF n
    <3>3. D = Epoch(d, ws, n)
      BY <2>3 DEF D
    <3> QED BY <2>1, <2>3, <3>2, <3>3, EpochKeeps DEF DirFits
  <2>4. ~fetches => D = d
    BY DEF D
  <2> HIDE DEF n
  <2>5. DirKept(D) /\ D.listed = d.listed
    BY <2>1, <2>3, <2>4
  <2>6. /\ DirKept(e) /\ e.vec = D.vec /\ e.read = D.read
        /\ e.listed = D.listed => D.offset = Len(D.vec) /\ e.offset = Len(e.vec)
    BY <1>1, <1>2, <2>5, FillKeeps DEF e
  <2>7. DirKept(g)
    BY <1>4, <2>6, SameDir
  <2>8. ASSUME g.ended PROVE AtItsEnd(g)
    <3>1. d.begun /\ D.offset = Len(D.vec) /\ e.offset = Len(e.vec)
      BY <1>4, <2>5, <2>6, <2>8
    <3>2. AllRead(D)
      <4>1. CASE fetches
        BY <2>3, <3>1, <4>1
      <4>2. CASE ~fetches
        <5>1. D = d /\ d.offset >= Len(d.vec)
          BY <2>1, <2>4, <3>1, <4>2 DEF DirKept, DirTyped
        <5>2. ws = <<>>
          BY <4>2, <5>1
        <5>3. ToSet(ws) = {}
          BY <5>2 DEF ToSet
        <5>4. d.working = {}
          BY <2>2, <3>1, <5>3
        <5> QED BY <2>1, <3>1, <5>1, <5>4 DEF DirKept, AllRead
      <4> QED BY <4>1, <4>2
    <3>3. AtItsEnd(e)
      BY <2>6, <3>1, <3>2 DEF AtItsEnd, AllRead
    <3> QED BY <1>4, <2>6, <3>3, SameDir
  <2> QED BY <2>7, <2>8
<1>6. DirFits(g)
  BY <1>3, <1>4, <1>5 DEF DirFits
<1> QED BY <1>6 DEF g, e, D, room

\* The steps of a listing keep what is known of it; the others leave it alone.
LEMMA ListingSteps ==
    ASSUME ListingInv, NEW x \in Procs, ProcStep(x)
    PROVE  ListingInv'
<1>1. DirFits(dir[x])
  BY DEF ListingInv, DirFits
<1>2. CASE dir' = dir
  BY <1>2 DEF ListingInv
<1>3. CASE FalconOpenDir(x)
  <2>1. dir' = dir \/ dir' = [dir EXCEPT ![x] = [NoDir EXCEPT !.open = TRUE]]
    BY <1>3 DEF FalconOpenDir
  <2>2. DirFits([NoDir EXCEPT !.open = TRUE])
    BY NoDirKept DEF DirFits
  <2> QED BY <1>2, <2>1, <2>2, DirStep
<1>4. CASE FalconCloseDir(x)
  <2> DEFINE d == dir[x]
             e == [d EXCEPT !.open = FALSE]
  <2>1. dir' = [dir EXCEPT ![x] = e]
    BY <1>4 DEF FalconCloseDir
  <2>2. IsDir(d)
    BY <1>1 DEF DirFits
  <2> HIDE DEF d
  <2>3. /\ IsDir(e) /\ e.ended = d.ended /\ e.err = d.err /\ e.begun = d.begun /\ e.working = d.working
        /\ e.read = d.read /\ e.vec = d.vec /\ e.modes = d.modes /\ e.offset = d.offset /\ e.listed = d.listed
    BY <2>2, DirShapes
  <2> HIDE DEF e
  <2>4. DirFits(e)
    BY <1>1, <2>3, SameDir DEF DirFits, d
  <2> QED BY <2>1, <2>4, DirStep
<1>5. CASE FalconReadDir(x)
  <2> DEFINE d == dir[x]
             fetches(ws) == d.offset >= Len(d.vec) /\ ws # <<>>
             n(ws) == Lesser(PerEpoch \div Len(ws), PerWorker)
             e(ws) == Fill(IF fetches(ws) THEN Epoch(d, ws, n(ws)) ELSE d, IF d.begun THEN FillMax ELSE FillMax - 2)
             ends(ws) == d.begun /\ e(ws).listed = d.listed
             g(ws) == [e(ws) EXCEPT !.ended = ends(ws)]
  <2>1. PICK ws \in WorkerOrders(d) :
           \/ dir' = [dir EXCEPT ![x] = g(ws)]
           \/ \E k \in 0 .. Len(ws) - 1 :
                 dir' = [dir EXCEPT ![x] = [Epoch(d, SubSeq(ws, 1, k), n(ws)) EXCEPT !.err = TRUE]]
           \/ dir' = dir
    BY <1>5 DEF FalconReadDir
  <2>2. DirFits(g(ws))
    <3> HIDE DEF d
    <3>1. DirFits(d) /\ ws \in WorkerOrders(d)
      BY <1>1, <2>1 DEF d
    <3> QED BY <3>1, ReadDirFits
  <2>3. ASSUME NEW vs, NEW m PROVE DirFits([Epoch(d, vs, m) EXCEPT !.err = TRUE])
    <3>1. IsDir(Epoch(d, vs, m))
      BY <1>1, EpochShape DEF DirFits
    <3> DEFINE h == Epoch(d, vs, m)
    <3> HIDE DEF h
    <3>2. IsDir([h EXCEPT !.err = TRUE]) /\ [h EXCEPT !.err = TRUE].err
      BY <3>1, DirShapes DEF h
    <3>3. DirFits([h EXCEPT !.err = TRUE])
      BY <3>2 DEF DirFits
    <3> QED BY <3>3 DEF h
  <2> HIDE DEF g, n, d
  <2> QED BY <1>2, <2>1, <2>2, <2>3, DirStep
<1>6. CASE ~(FalconOpenDir(x) \/ FalconCloseDir(x) \/ FalconReadDir(x))
  <2>1. dir' = dir
    BY <1>6 DEF ProcStep, WaitGetNewOpenInstance, NewOpenInstance, DoCreate, FalconOpen, ReadSmallFiles, AttachFd, UnknownFd,
       DoWrite, DoRead, FalconClose, TmpClose, TellSize, CloseMeta, Closed, TruncateOpenInstance, TruncateFile, FalconUnlink,
       DeleteData, DoRename, CopyData, FalconRename, DeleteDataAfterRename, Known
  <2> QED BY <1>2, <2>1
<1> QED BY <1>3, <1>4, <1>5, <1>6

\* A listing at its end has every entry once.
LEMMA ListedOnce ==
    ASSUME ListingInv
    PROVE  ListsOnce
<1> SUFFICES ASSUME NEW x \in Procs, dir[x].ended, ~dir[x].err, NEW w \in DOMAIN Listing, NEW n \in ToSet(Listing[w])
             PROVE  Cardinality({k \in DOMAIN dir[x].listed : dir[x].listed[k].name = n}) = 1
  BY DEF ListsOnce
<1> DEFINE d == dir[x]
           K == {k \in DOMAIN d.listed : d.listed[k].name = n}
<1>1. DirTyped(d) /\ ReadOnce(d) /\ d.offset = Len(d.vec) /\ d.read[w] = Len(Listing[w])
  BY DEF ListingInv, DirKept, AtItsEnd, AllRead
<1> DEFINE L == Len(d.listed)
<1>2. /\ L \in Nat /\ DOMAIN d.listed = 1 .. L /\ Entries(d) \in Seq(EntryNames) /\ Len(Entries(d)) = L
      /\ \A k \in 1 .. L : Entries(d)[k] = d.listed[k].name
  <2>1. Len(d.vec) \in Nat /\ Len(d.vec) - d.offset = 0
    BY <1>1 DEF DirTyped
  <2> QED BY <1>1, <2>1, EntriesAre
<1>3. n \in HasRead(d)
  <2>1. PICK j \in 1 .. Len(Listing[w]) : n = Listing[w][j]
    BY ListingFacts DEF ToSet
  <2> QED BY <1>1, <2>1 DEF HasRead
<1>4. DOMAIN Entries(d) = 1 .. L
  BY <1>2
<1> HIDE DEF d
<1>5. PICK k \in 1 .. L : Entries(d)[k] = n
  BY <1>1, <1>3, <1>4 DEF ReadOnce, ToSet
<1>6. K = {k}
  BY <1>1, <1>2, <1>4, <1>5 DEF ReadOnce, IsInjective
<1> HIDE DEF K
<1>7. Cardinality(K) = 1
  BY <1>6, FS_Singleton
<1> QED BY <1>7 DEF K, d

-----------------------------------------------------------------------------
\* Neither the table nor a listing is disturbed by any step.
ClientKept == TableInv /\ ListingInv

\* It holds at first: nothing is open.
LEMMA ClientStarts ==
    ASSUME ClientInit
    PROVE  ClientKept
<1>1. fdt = [insts |-> <<>>, curr |-> 0, next |-> FirstFd]
  BY DEF ClientInit
<1>2. us = [x \in Procs |-> [pc |-> "ready", reqs |-> uses.reqs[x], fd |-> 0, path |-> "none", row |-> NoRow,
                             size |-> 0, todo |-> {}, failed |-> FALSE]]
  BY DEF ClientInit
<1>3. dir = [x \in Procs |-> NoDir]
  BY DEF ClientInit
<1>4. \A x \in Procs : IsUser(us[x]) /\ us[x].pc = "ready" /\ us[x].fd = 0
  BY <1>2 DEF IsUser
<1>5. DOMAIN fdt = {"insts", "curr", "next"} /\ DOMAIN fdt.insts = {} /\ fdt.curr = 0 /\ fdt.next = 3
  BY <1>1 DEF FirstFd
<1>6. InstancesCounted
  <2>1. {x \in Procs : us[x].pc \in BeingOpened} = {}
    BY <1>4 DEF BeingOpened
  <2> QED BY <1>5, <2>1, FS_EmptySet DEF InstancesCounted
<1>7. TableShape
  BY <1>2, <1>4, <1>5 DEF TableShape
<1>8. TableInv
  BY <1>4, <1>5, <1>6, <1>7, FS_EmptySet DEF TableInv, UsesFd, FirstFd
<1>9. ListingInv
  BY <1>3, NoDirKept DEF ListingInv
<1> QED BY <1>8, <1>9 DEF ClientKept

\* The table of instances and the listings of a mount keep their invariants through
\* every open, close, truncate, rename and listing, failures included.
THEOREM ClientInvariance == ClientSpec => []ClientKept
<1>1. ClientKept /\ [ClientNext]_clientVars => ClientKept'
  <2> SUFFICES ASSUME ClientKept, [ClientNext]_clientVars PROVE ClientKept'
    OBVIOUS
  <2>1. CASE UNCHANGED clientVars
    BY <2>1 DEF ClientKept, clientVars, TableInv, TableShape, InstancesCounted, HasFd, U, ListingInv
  <2>2. CASE ClientNext
    <3>1. PICK x \in Procs : ProcStep(x)
      BY <2>2 DEF ClientNext
    <3>2. TableInv'
      BY <3>1, OpenSteps, UseSteps, OtherSteps DEF ProcStep, ClientKept
    <3>3. ListingInv'
      BY <3>1, ListingSteps DEF ClientKept
    <3> QED BY <3>2, <3>3 DEF ClientKept
  <2> QED BY <2>1, <2>2
<1> QED BY <1>1, ClientStarts, PTL DEF ClientSpec

\* currOpenInstance is the number of instances that are attached or being opened, and
\* a listing that ends without an error has every entry of every worker once: for any
\* number of processes, paths, workers and entries, and any sizes of the epochs and of
\* the kernel's buffer.
THEOREM ClientHolds == ClientSpec => []ClientInv
<1>1. ClientKept => ClientInv
  BY ListedOnce DEF ClientKept, TableInv, ClientInv
<1> QED BY <1>1, ClientInvariance, PTL

-----------------------------------------------------------------------------
(* MetaPool: the requests of a task.                                        *)

\* One sequence after another.
LEMMA JoinFacts ==
    ASSUME NEW E, NEW a \in Seq(E), NEW b \in Seq(E)
    PROVE  /\ a \o b \in Seq(E) /\ Len(a) \in Nat /\ Len(b) \in Nat /\ Len(a \o b) = Len(a) + Len(b)
           /\ \A i \in 1 .. Len(a) : (a \o b)[i] = a[i]
           /\ \A i \in 1 .. Len(b) : (a \o b)[Len(a) + i] = b[i]
  OBVIOUS

\* Sequences are equal when their elements are.
LEMMA SameElements ==
    ASSUME NEW E, NEW a \in Seq(E), NEW b \in Seq(E), Len(a) = Len(b), \A i \in 1 .. Len(a) : a[i] = b[i]
    PROVE  a = b
  OBVIOUS

\* The calls of a workload.
LEMMA CallFacts ==
    ASSUME load \in Workloads
    PROVE  /\ Calls = 1 .. Len(load.calls) /\ Calls \subseteq Nat
           /\ \A j \in Calls : Types(j) \in Seq(STRING) /\ Own(j) \in Seq(Nat \X Nat) /\ Len(Own(j)) = Len(Types(j))
<1> DEFINE Rec == [types : Seq(STRING), batch : BOOLEAN]
<1>1. load.calls \in Seq(Rec)
  BY PoolAssumption
<1> HIDE DEF Rec
<1>2. Calls = 1 .. Len(load.calls) /\ Len(load.calls) \in Nat
  BY <1>1 DEF Calls
<1>3. ASSUME NEW j \in Calls PROVE Types(j) \in Seq(STRING) /\ Own(j) \in Seq(Nat \X Nat) /\ Len(Own(j)) = Len(Types(j))
  <2>1. Types(j) \in Seq(STRING)
    <3>1. j \in 1 .. Len(load.calls)
      BY <1>2
    <3>2. load.calls[j] \in Rec
      BY <1>1, <3>1
    <3> QED BY <3>2 DEF Types, Rec
  <2>2. DOMAIN Types(j) = 1 .. Len(Types(j)) /\ Len(Types(j)) \in Nat
    BY <2>1
  <2>3. j \in Nat
    BY <1>2
  <2>4. Own(j) = [i \in 1 .. Len(Types(j)) |-> <<j, i>>]
    BY <2>2 DEF Own
  <2>5. \A i \in 1 .. Len(Types(j)) : <<j, i>> \in Nat \X Nat
    BY <2>2, <2>3
  <2>6. Own(j) \in [1 .. Len(Types(j)) -> Nat \X Nat]
    BY <2>4, <2>5
  <2> QED BY <2>1, <2>2, <2>6
<1> QED BY <1>2, <1>3

\* A collects the requests of the calls of a task one after the other.
Collects(task, A) == A = [k \in 0 .. Len(task) |-> IF k = 0 THEN <<>> ELSE A[k - 1] \o Own(task[k])]

\* There is one such function, whose last value is Requests.
LEMMA RequestsAre ==
    ASSUME load \in Workloads, NEW task \in Seq(Calls)
    PROVE  \E A \in [0 .. Len(task) -> Seq(Nat \X Nat)] :
              /\ A[0] = <<>> /\ \A k \in 1 .. Len(task) : A[k] = A[k - 1] \o Own(task[k])
              /\ Requests(task) = A[Len(task)]
<1> DEFINE N == Len(task)
           V == Seq(Nat \X Nat)
           G == [x \in Nat \X V |-> IF x[1] \in 1 .. N THEN x[2] \o Own(task[x[1]]) ELSE <<>>]
<1>1. N \in Nat /\ \A k \in 1 .. N : task[k] \in Calls /\ Own(task[k]) \in V
  BY CallFacts
<1>2. <<>> \in V /\ \A a, b \in V : a \o b \in V
  OBVIOUS
<1> HIDE DEF V
<1>3. G \in [Nat \X V -> V]
  BY <1>1, <1>2
<1>4. ASSUME NEW k \in 1 .. N, NEW v \in V PROVE G[<<k, v>>] = v \o Own(task[k])
  <2>1. <<k, v>> \in Nat \X V /\ <<k, v>>[1] = k /\ <<k, v>>[2] = v
    BY <1>1
  <2> QED BY <2>1
<1> HIDE DEF G
<1>5. PICK f : Recurses(f, N, V, <<>>, G)
  BY <1>1, <1>2, <1>3, Recursion
<1>6. f \in [0 .. N -> V] /\ f[0] = <<>> /\ \A k \in 1 .. N : f[k] = f[k - 1] \o Own(task[k])
  <2>1. f \in [0 .. N -> V] /\ f[0] = <<>> /\ \A k \in 1 .. N : f[k] = G[<<k, f[k - 1]>>]
    BY <1>5 DEF Recurses
  <2>2. ASSUME NEW k \in 1 .. N PROVE f[k] = f[k - 1] \o Own(task[k])
    <3>1. k - 1 \in 0 .. N
      BY <1>1
    <3>2. f[k - 1] \in V
      BY <2>1, <3>1
    <3> QED BY <2>1, <3>2, <1>4
  <2> QED BY <2>1, <2>2
<1>7. Collects(task, f)
  <2>1. \A k \in 0 .. N : f[k] = IF k = 0 THEN <<>> ELSE f[k - 1] \o Own(task[k])
    BY <1>6, <1>1
  <2>2. f = [k \in 0 .. N |-> f[k]]
    BY <1>6
  <2> QED BY <2>1, <2>2 DEF Collects
<1> DEFINE A == CHOOSE A : Collects(task, A)
<1>8. Collects(task, A)
  BY <1>7
<1>9. Requests(task) = A[Len(task)]
  BY DEF Requests, Collects
<1> HIDE DEF A
<1>10. A[0] = <<>> /\ \A k \in 1 .. N : A[k] = A[k - 1] \o Own(task[k])
  <2>1. \A k \in 0 .. N : A[k] = IF k = 0 THEN <<>> ELSE A[k - 1] \o Own(task[k])
    BY <1>8 DEF Collects
  <2>2. A[0] = <<>>
    BY <1>1, <2>1
  <2>3. ASSUME NEW k \in 1 .. N PROVE A[k] = A[k - 1] \o Own(task[k])
    <3>1. k \in 0 .. N /\ k # 0
      BY <1>1
    <3> QED BY <2>1, <3>1
  <2> QED BY <2>2, <2>3
<1>11. A \in [0 .. N -> V]
  <2> DEFINE Ts == {k \in 0 .. N : A[k] \in V}
  <2>1. 0 \in Ts
    BY <1>1, <1>2, <1>10
  <2>2. ASSUME NEW k \in 1 .. N, k - 1 \in Ts PROVE k \in Ts
    <3>1. A[k - 1] \in V /\ k \in 0 .. N
      BY <1>1, <2>2
    <3>2. A[k] = A[k - 1] \o Own(task[k]) /\ Own(task[k]) \in V
      BY <1>1, <1>10
    <3> QED BY <1>2, <3>1, <3>2
  <2> HIDE DEF Ts
  <2>3. 0 .. N \subseteq Ts
    BY <1>1, <2>1, <2>2, UpTo
  <2>4. DOMAIN A = 0 .. N /\ A = [k \in 0 .. N |-> A[k]]
    BY <1>8 DEF Collects
  <2>5. \A k \in 0 .. N : A[k] \in V
    BY <2>3 DEF Ts
  <2> QED BY <2>4, <2>5
<1> QED BY <1>9, <1>10, <1>11 DEF V

\* The requests of the first calls of a task are a prefix of its requests.
LEMMA RequestsPrefix ==
    ASSUME load \in Workloads, NEW task \in Seq(Calls), NEW k \in 1 .. Len(task)
    PROVE  LET before == Requests(SubSeq(task, 1, k - 1)) IN
           /\ before \in Seq(Nat \X Nat) /\ Requests(task) \in Seq(Nat \X Nat)
           /\ Len(before) + Len(Own(task[k])) <= Len(Requests(task))
           /\ \A i \in 1 .. Len(Own(task[k])) : Requests(task)[Len(before) + i] = Own(task[k])[i]
<1> DEFINE N == Len(task)
           V == Seq(Nat \X Nat)
           first == SubSeq(task, 1, k - 1)
<1>1. N \in Nat /\ k \in Nat /\ k >= 1 /\ k <= N /\ \A m \in 1 .. N : task[m] \in Calls /\ Own(task[m]) \in V
  BY CallFacts
<1>2. first \in Seq(Calls) /\ Len(first) = k - 1 /\ \A m \in 1 .. k - 1 : first[m] = task[m]
  BY <1>1
<1>3. PICK A \in [0 .. N -> V] :
         A[0] = <<>> /\ (\A m \in 1 .. N : A[m] = A[m - 1] \o Own(task[m])) /\ Requests(task) = A[N]
  BY RequestsAre
<1> HIDE DEF first
<1>4. PICK B \in [0 .. Len(first) -> V] :
         B[0] = <<>> /\ (\A m \in 1 .. Len(first) : B[m] = B[m - 1] \o Own(first[m])) /\ Requests(first) = B[Len(first)]
  BY <1>2, RequestsAre
<1>5. B[k - 1] = A[k - 1]
  <2> DEFINE Ts == {m \in 0 .. k - 1 : A[m] = B[m]}
  <2>1. 0 \in Ts
    BY <1>1, <1>3, <1>4
  <2>2. ASSUME NEW m \in 1 .. k - 1, m - 1 \in Ts PROVE m \in Ts
    <3>1. m \in 0 .. k - 1 /\ m \in 1 .. N /\ m \in 1 .. Len(first)
      BY <1>1, <1>2
    <3>2. A[m - 1] = B[m - 1] /\ first[m] = task[m]
      BY <2>2, <1>2
    <3>3. A[m] = B[m]
      BY <1>3, <1>4, <3>1, <3>2
    <3> QED BY <3>1, <3>3
  <2> HIDE DEF Ts
  <2>3. 0 .. k - 1 \subseteq Ts
    <3>1. k - 1 \in Nat
      BY <1>1
    <3> QED BY <2>1, <2>2, <3>1, UpTo
  <2>4. k - 1 \in 0 .. k - 1
    BY <1>1
  <2> QED BY <2>3, <2>4 DEF Ts
<1> DEFINE M == Len(A[k])
<1>6. k \in 0 .. N /\ k - 1 \in 0 .. N /\ N \in 0 .. N
  BY <1>1
<1>7. A[k] \in V /\ A[k - 1] \in V /\ M \in Nat
  <2>1. A[k] \in V /\ A[k - 1] \in V
    BY <1>6
  <2> QED BY <2>1
<1>8. M <= Len(A[N]) /\ \A i \in 1 .. M : A[N][i] = A[k][i]
  <2> DEFINE Ts == {m \in 0 .. N : m >= k => M <= Len(A[m]) /\ \A i \in 1 .. M : A[m][i] = A[k][i]}
  <2>1. 0 \in Ts
    BY <1>1
  <2>2. ASSUME NEW m \in 1 .. N, m - 1 \in Ts PROVE m \in Ts
    <3>1. CASE m < k
      BY <1>1, <3>1
    <3>2. CASE m = k
      BY <1>1, <1>7, <3>2
    <3>3. CASE m > k
      <4>1. m - 1 >= k /\ m - 1 \in 0 .. N /\ m \in 0 .. N
        BY <1>1, <3>3
      <4>2. M <= Len(A[m - 1]) /\ \A i \in 1 .. M : A[m - 1][i] = A[k][i]
        BY <2>2, <4>1
      <4> DEFINE a == A[m - 1]
                 b == Own(task[m])
      <4>3. A[m] = a \o b /\ a \in V /\ b \in V
        BY <1>1, <1>3, <4>1
      <4>4. M <= Len(a) /\ \A i \in 1 .. M : a[i] = A[k][i]
        BY <4>2
      <4> HIDE DEF a, b, M
      <4>5. Len(a) \in Nat /\ Len(b) \in Nat /\ Len(a \o b) = Len(a) + Len(b) /\ \A i \in 1 .. Len(a) : (a \o b)[i] = a[i]
        BY <4>3, JoinFacts
      <4>6. M <= Len(A[m])
        <5>1. M <= Len(a) + Len(b)
          BY <1>7, <4>4, <4>5
        <5> QED BY <5>1, <4>3, <4>5
      <4>7. \A i \in 1 .. M : i \in 1 .. Len(a)
        BY <1>7, <4>4, <4>5
      <4>8. \A i \in 1 .. M : A[m][i] = A[k][i]
        BY <4>3, <4>4, <4>5, <4>7
      <4> QED BY <4>1, <4>6, <4>8
    <3> QED BY <1>1, <3>1, <3>2, <3>3
  <2> HIDE DEF Ts
  <2>3. 0 .. N \subseteq Ts
    BY <1>1, <2>1, <2>2, UpTo
  <2>4. N \in Ts
    BY <1>6, <2>3
  <2> QED BY <1>1, <2>4 DEF Ts
<1> DEFINE a == A[k - 1]
           b == Own(task[k])
<1>9. A[k] = a \o b /\ a \in V /\ b \in V
  BY <1>1, <1>3, <1>7
<1> HIDE DEF a, b
<1>10. /\ M = Len(a) + Len(b) /\ Len(a) \in Nat /\ Len(b) \in Nat
       /\ \A i \in 1 .. Len(b) : A[k][Len(a) + i] = b[i]
  <2>1. /\ Len(a \o b) = Len(a) + Len(b) /\ Len(a) \in Nat /\ Len(b) \in Nat
        /\ \A i \in 1 .. Len(b) : (a \o b)[Len(a) + i] = b[i]
    BY <1>9, JoinFacts
  <2> QED BY <1>9, <2>1
<1>11. Requests(first) = a
  BY <1>2, <1>4, <1>5 DEF a
<1>12. A[N] \in V
  BY <1>6
<1> HIDE DEF M, V
<1>13. \A i \in 1 .. Len(b) : A[N][Len(a) + i] = b[i]
  <2> SUFFICES ASSUME NEW i \in 1 .. Len(b) PROVE A[N][Len(a) + i] = b[i]
    OBVIOUS
  <2>1. Len(a) + i \in 1 .. M
    BY <1>7, <1>10
  <2> QED BY <1>8, <1>10, <2>1
<1>14. Len(a) + Len(b) <= Len(A[N])
  BY <1>8, <1>10
<1> QED BY <1>3, <1>9, <1>11, <1>12, <1>13, <1>14 DEF first, V, b

\* What a job of a task gets of the replies is its own.
LEMMA ShareIsOwn ==
    ASSUME load \in Workloads, NEW task \in Seq(Calls), NEW k \in 1 .. Len(task)
    PROVE  Share(task, k, Requests(task)) = Own(task[k])
<1> DEFINE first == Len(Requests(SubSeq(task, 1, k - 1)))
           n == Len(Own(task[k]))
           all == Requests(task)
<1>1. /\ Requests(SubSeq(task, 1, k - 1)) \in Seq(Nat \X Nat) /\ all \in Seq(Nat \X Nat)
      /\ first + n <= Len(all) /\ \A i \in 1 .. n : all[first + i] = Own(task[k])[i]
  BY RequestsPrefix
<1>2. task[k] \in Calls /\ Own(task[k]) \in Seq(Nat \X Nat) /\ n = Len(Types(task[k]))
  BY CallFacts
<1>3. first \in Nat /\ n \in Nat /\ Len(all) \in Nat
  BY <1>1, <1>2
<1>4. Share(task, k, all) = SubSeq(all, first + 1, first + n)
  BY <1>2 DEF Share
<1> HIDE DEF first, n, all
<1>5. /\ SubSeq(all, first + 1, first + n) \in Seq(Nat \X Nat) /\ Len(SubSeq(all, first + 1, first + n)) = n
      /\ \A i \in 1 .. n : SubSeq(all, first + 1, first + n)[i] = all[first + i]
  BY <1>1, <1>3
<1>6. \A i \in 1 .. n : SubSeq(all, first + 1, first + n)[i] = Own(task[k])[i]
  BY <1>1, <1>5
<1>7. Len(Own(task[k])) = n
  BY DEF n
<1>8. SubSeq(all, first + 1, first + n) = Own(task[k])
  BY <1>2, <1>5, <1>6, <1>7, SameElements
<1> QED BY <1>4, <1>8 DEF all

\* A step leaves the calls alone.
LEMMA LoadStays ==
    ASSUME load' = load
    PROVE  /\ Calls' = Calls /\ Pages' = Pages
           /\ \A j : Types(j)' = Types(j) /\ Own(j)' = Own(j)
           /\ \A t : Requests(t)' = Requests(t)
<1>1. Calls' = Calls /\ Pages' = Pages
  BY DEF Calls, Pages
<1>2. \A j : Types(j)' = Types(j) /\ Own(j)' = Own(j)
  BY DEF Types, Own
<1>3. \A t : Requests(t)' = Requests(t)
  BY DEF Requests, Own, Types
<1> QED BY <1>1, <1>2, <1>3


-----------------------------------------------------------------------------
(* MetaPool: a job waits in one place.                                      *)

\* A step in which jobs only leave worker c, and only those get an answer.
LEMMA JobsLeave ==
    ASSUME JobsKept, load' = load, queues' = queues, manager' = manager, NEW c \in PoolConns,
           \A d \in PoolConns : IsInjective(conn'[d].task),
           \A d \in PoolConns, j \in Calls : InConn(d, j)' => InConn(d, j),
           \A j \in Calls : jobs'[j] = jobs[j] \/ (InConn(c, j) /\ ~InConn(c, j)' /\ jobs'[j].sent)
    PROVE  JobsKept'
<1>1. Calls' = Calls
  BY LoadStays
<1>2. \A q, j : InQueue(q, j)' = InQueue(q, j)
  BY DEF InQueue
<1>3. \A i, j : InTask(i, j)' = InTask(i, j)
  BY DEF InTask
<1>4. ASSUME NEW j \in Calls PROVE JobPlace(j)'
  <2>1. JobPlace(j)
    BY DEF JobsKept
  <2>2. CASE jobs'[j] = jobs[j]
    <3>1. JobWaits(j)' = JobWaits(j)
      BY <2>2 DEF JobWaits
    <3> QED BY <1>2, <1>3, <2>1, <2>2, <3>1 DEF JobPlace
  <2>3. CASE InConn(c, j) /\ ~InConn(c, j)' /\ jobs'[j].sent
    <3>1. \A d \in PoolConns : ~InConn(d, j)'
      BY <2>1, <2>3 DEF JobPlace
    <3>2. \A q \in DOMAIN QueueNames : ~InQueue(q, j)
      BY <2>1, <2>3 DEF JobPlace
    <3>3. \A i \in DOMAIN manager.tasks : ~InTask(i, j)
      BY <2>1, <2>3 DEF JobPlace
    <3> QED BY <1>2, <1>3, <2>3, <3>1, <3>2, <3>3 DEF JobPlace
  <2> QED BY <2>2, <2>3
<1>5. \A d \in PoolConns : IsInjective(C(d).task)'
  BY DEF C
<1> QED BY <1>1, <1>4, <1>5 DEF JobsKept

\* A new element at the end.
LEMMA AppendNew ==
    ASSUME NEW E, NEW s \in Seq(E), NEW x \in E, IsInjective(s), x \notin ToSet(s)
    PROVE  IsInjective(Append(s, x)) /\ ToSet(Append(s, x)) = ToSet(s) \cup {x}
<1> DEFINE n == Len(s)
           t == Append(s, x)
<1>1. n \in Nat /\ DOMAIN s = 1 .. n /\ DOMAIN t = 1 .. n + 1 /\ t[n + 1] = x /\ \A i \in 1 .. n : t[i] = s[i]
  OBVIOUS
<1>2. \A i \in 1 .. n : s[i] # x
  BY <1>1 DEF ToSet
<1> HIDE DEF n, t
<1>3. \A i \in 1 .. n + 1 : i \in 1 .. n \/ i = n + 1
  BY <1>1
<1>4. IsInjective(t)
  BY <1>1, <1>2, <1>3 DEF IsInjective
<1>5. \A i \in 1 .. n : i \in 1 .. n + 1
  BY <1>1
<1>6. n + 1 \in 1 .. n + 1
  BY <1>1
<1>7. ToSet(t) = ToSet(s) \cup {x}
  BY <1>1, <1>3, <1>5, <1>6 DEF ToSet
<1> QED BY <1>4, <1>7 DEF t

\* The first k elements and the others.
LEMMA SplitOnce ==
    ASSUME NEW E, NEW s \in Seq(E), IsInjective(s), NEW k \in 1 .. Len(s)
    PROVE  LET a == SubSeq(s, 1, k)
               b == SubSeq(s, k + 1, Len(s)) IN
           /\ a \in Seq(E) /\ Len(a) = k /\ b \in Seq(E) /\ IsInjective(a) /\ IsInjective(b)
           /\ ToSet(a) \subseteq ToSet(s) /\ ToSet(b) \subseteq ToSet(s) /\ ToSet(a) \cap ToSet(b) = {}
<1> DEFINE n == Len(s)
           a == SubSeq(s, 1, k)
           b == SubSeq(s, k + 1, n)
<1>1. n \in Nat /\ k \in Nat /\ k >= 1 /\ k <= n /\ DOMAIN s = 1 .. n
  OBVIOUS
<1>2. a \in Seq(E) /\ Len(a) = k /\ DOMAIN a = 1 .. k /\ \A i \in 1 .. k : a[i] = s[i]
  BY <1>1
<1>3. b \in Seq(E) /\ Len(b) = n - k /\ DOMAIN b = 1 .. n - k /\ \A i \in 1 .. n - k : b[i] = s[k + i]
  <2>1. b \in Seq(E) /\ Len(b) = n - k
    <3>1. \A i \in k + 1 .. n : s[i] \in E
      BY <1>1
    <3>2. k + 1 \in 1 .. n + 1 /\ n \in k .. n
      BY <1>1
    <3>3. Len(b) = n - k
      <4> DEFINE m == k + 1
      <4>1. Len(SubSeq(s, m, n)) = IF m <= n THEN n - m + 1 ELSE 0
        BY <1>1
      <4>2. b = SubSeq(s, m, n) /\ m = k + 1
        OBVIOUS
      <4>3. (IF m <= n THEN n - m + 1 ELSE 0) = n - k
        <5>1. \A x, y \in Nat : y <= x => (IF y + 1 <= x THEN x - (y + 1) + 1 ELSE 0) = x - y
          OBVIOUS
        <5> HIDE DEF n
        <5> QED BY <1>1, <5>1
      <4> HIDE DEF b, m, n
      <4> QED BY <4>1, <4>2, <4>3
    <3>4. b \in Seq(E)
      BY <3>1, <3>2
    <3> QED BY <3>3, <3>4
  <2>2. \A i \in 1 .. n - k : b[i] = s[k + i]
    BY <1>1
  <2> QED BY <2>1, <2>2
<1> HIDE DEF a, b, n
<1>4. (\A i \in 1 .. k : i \in 1 .. n) /\ \A i \in 1 .. n - k : k + i \in 1 .. n /\ k + i > k
  BY <1>1
<1>5. IsInjective(a)
  BY <1>1, <1>2, <1>4 DEF IsInjective
<1>6. IsInjective(b)
  <2> SUFFICES ASSUME NEW i \in 1 .. n - k, NEW m \in 1 .. n - k, b[i] = b[m] PROVE i = m
    BY <1>3 DEF IsInjective
  <2>1. s[k + i] = s[k + m]
    BY <1>3
  <2>2. k + i = k + m
    BY <1>1, <1>4, <2>1 DEF IsInjective
  <2> QED BY <1>1, <2>2
<1>7. ToSet(a) \subseteq ToSet(s) /\ ToSet(b) \subseteq ToSet(s)
  <2>1. \A i \in 1 .. k : a[i] \in ToSet(s)
    BY <1>1, <1>2, <1>4 DEF ToSet
  <2>2. \A i \in 1 .. n - k : b[i] \in ToSet(s)
    BY <1>1, <1>3, <1>4 DEF ToSet
  <2> QED BY <1>2, <1>3, <2>1, <2>2 DEF ToSet
<1>8. ASSUME NEW x, x \in ToSet(a), x \in ToSet(b) PROVE FALSE
  <2>1. PICK i \in 1 .. k : x = s[i]
    BY <1>2, <1>8 DEF ToSet
  <2>2. PICK m \in 1 .. n - k : x = s[k + m]
    BY <1>3, <1>8 DEF ToSet
  <2>3. i = k + m
    BY <1>1, <1>4, <2>1, <2>2 DEF IsInjective
  <2> QED BY <1>1, <1>4, <2>3
<1> QED BY <1>2, <1>3, <1>5, <1>6, <1>7, <1>8 DEF a, b, n

\* The queue that a call comes into.
LEMMA QueueExists ==
    ASSUME NEW j
    PROVE  QueueOf(j) \in DOMAIN QueueNames
<1> DEFINE name == IF load.calls[j].batch /\ Types(j)[1] \in ToSet(QueueNames) THEN Types(j)[1] ELSE "single"
<1>1. "single" \in ToSet(QueueNames)
  <2>1. 7 \in DOMAIN QueueNames /\ QueueNames[7] = "single"
    BY DEF QueueNames
  <2> QED BY <2>1 DEF ToSet
<1>2. name \in ToSet(QueueNames)
  BY <1>1
<1>3. \E q \in DOMAIN QueueNames : QueueNames[q] = name
  BY <1>2 DEF ToSet
<1> QED BY <1>3 DEF QueueOf

\* DispatchMetaServiceJob: the call was nowhere.
LEMMA DispatchJobs ==
    ASSUME PoolTyped, JobsKept, NEW j \in Calls, DispatchMetaServiceJob(j)
    PROVE  JobsKept' /\ queues' \in [DOMAIN QueueNames -> Seq(Calls)]
<1>1. load' = load /\ manager' = manager /\ conn' = conn /\ ~jobs[j].sent /\ jobs' = [jobs EXCEPT ![j].sent = TRUE]
  BY DEF DispatchMetaServiceJob
<1>2. Calls' = Calls /\ queues \in [DOMAIN QueueNames -> Seq(Calls)] /\ DOMAIN jobs = Calls /\ DOMAIN jobs[j] = {"sent", "answers"}
  BY <1>1, LoadStays DEF PoolTyped
<1>3. /\ \A i \in Calls : i # j => jobs'[i] = jobs[i]
      /\ jobs'[j].answers = jobs[j].answers /\ jobs'[j].sent
  BY <1>1, <1>2
<1>4. (\A i, k : InTask(i, k)' = InTask(i, k)) /\ \A c, k : InConn(c, k)' = InConn(c, k)
  BY <1>1 DEF InTask, InConn, GaveAnswers, C
<1>5. JobPlace(j) /\ ~JobWaits(j)
  BY <1>1 DEF JobsKept, JobWaits
<1>6. /\ \A q \in DOMAIN QueueNames : ~InQueue(q, j)
      /\ \A i \in DOMAIN manager.tasks : ~InTask(i, j)
      /\ \A c \in PoolConns : ~InConn(c, j)
  BY <1>5 DEF JobPlace
<1>7. \A i \in Calls : i # j => (JobWaits(i)' = JobWaits(i))
  BY <1>3 DEF JobWaits
<1>8. CASE Types(j) = <<>>
  <2>1. queues' = queues
    BY <1>8 DEF DispatchMetaServiceJob
  <2>2. \A q, i : InQueue(q, i)' = InQueue(q, i)
    BY <2>1 DEF InQueue
  <2>3. ASSUME NEW i \in Calls PROVE JobPlace(i)'
    <3>1. CASE i = j
      BY <1>1, <1>3, <1>4, <1>6, <2>2, <3>1 DEF JobPlace
    <3>2. CASE i # j
      <4>1. JobPlace(i)
        BY DEF JobsKept
      <4> QED BY <1>1, <1>3, <1>4, <1>7, <2>2, <3>2, <4>1 DEF JobPlace
    <3> QED BY <3>1, <3>2
  <2> QED BY <1>1, <1>2, <2>1, <2>3 DEF JobsKept, C
<1>9. CASE Types(j) # <<>>
  <2> DEFINE q0 == QueueOf(j)
  <2>1. q0 \in DOMAIN QueueNames
    BY QueueExists
  <2>2. queues' = [queues EXCEPT ![q0] = Append(@, j)]
    BY <1>9 DEF DispatchMetaServiceJob
  <2> HIDE DEF q0
  <2>3. queues[q0] \in Seq(Calls) /\ IsInjective(queues[q0]) /\ j \notin ToSet(queues[q0])
    BY <1>2, <1>6, <2>1 DEF JobsKept, InQueue
  <2>4. IsInjective(Append(queues[q0], j)) /\ ToSet(Append(queues[q0], j)) = ToSet(queues[q0]) \cup {j}
    BY <2>3, AppendNew
  <2>5. queues'[q0] = Append(queues[q0], j) /\ \A q \in DOMAIN QueueNames : q # q0 => queues'[q] = queues[q]
    BY <1>2, <2>1, <2>2
  <2>6. \A q \in DOMAIN QueueNames, i \in Calls : i # j => (InQueue(q, i)' = InQueue(q, i))
    <3> SUFFICES ASSUME NEW q \in DOMAIN QueueNames, NEW i \in Calls, i # j PROVE InQueue(q, i)' = InQueue(q, i)
      OBVIOUS
    <3>1. CASE q = q0
      <4>1. ToSet(queues'[q0]) = ToSet(queues[q0]) \cup {j}
        BY <2>4, <2>5
      <4> QED BY <3>1, <4>1 DEF InQueue
    <3>2. CASE q # q0
      BY <2>5, <3>2 DEF InQueue
    <3> QED BY <3>1, <3>2
  <2>7. \A q \in DOMAIN QueueNames : InQueue(q, j)' = (q = q0)
    <3> SUFFICES ASSUME NEW q \in DOMAIN QueueNames PROVE InQueue(q, j)' = (q = q0)
      OBVIOUS
    <3>1. CASE q = q0
      <4>1. ToSet(queues'[q0]) = ToSet(queues[q0]) \cup {j}
        BY <2>4, <2>5
      <4> QED BY <3>1, <4>1 DEF InQueue
    <3>2. CASE q # q0
      BY <1>6, <2>5, <3>2 DEF InQueue
    <3> QED BY <3>1, <3>2
  <2>8. jobs[j].answers = <<>>
    BY <1>1, <1>5 DEF JobPlace
  <2>9. JobWaits(j)'
    BY <1>3, <2>8 DEF JobWaits
  <2>10. ASSUME NEW i \in Calls PROVE JobPlace(i)'
    <3>1. CASE i = j
      BY <1>1, <1>3, <1>4, <1>6, <2>7, <2>9, <3>1 DEF JobPlace
    <3>2. CASE i # j
      <4>1. JobPlace(i)
        BY DEF JobsKept
      <4> QED BY <1>1, <1>3, <1>4, <1>7, <2>6, <3>2, <4>1 DEF JobPlace
    <3> QED BY <3>1, <3>2
  <2>11. \A q \in DOMAIN QueueNames : IsInjective(queues[q])'
    BY <2>4, <2>5 DEF JobsKept
  <2>12. queues' \in [DOMAIN QueueNames -> Seq(Calls)]
    BY <1>2, <2>1, <2>2, <2>3
  <2> QED BY <1>1, <1>2, <2>10, <2>11, <2>12 DEF JobsKept, C
<1> QED BY <1>8, <1>9

\* The manager finds a queue that is not empty.
LEMMA NextQueueReady ==
    ASSUME manager.at \in Nat, NEW q0 \in DOMAIN QueueNames, queues[q0] # <<>>
    PROVE  NextQueue \in DOMAIN QueueNames /\ queues[NextQueue] # <<>>
<1> DEFINE turn(q) == (q - manager.at + Len(QueueNames)) % Len(QueueNames)
           ready == {q \in DOMAIN QueueNames : queues[q] # <<>>}
           Ts == {turn(q) : q \in ready}
<1>1. Len(QueueNames) = 7 /\ DOMAIN QueueNames = 1 .. 7
  BY DEF QueueNames
<1>2. \A q \in 1 .. 7 : turn(q) \in Nat
  BY <1>1
<1>3. Ts \subseteq Nat /\ turn(q0) \in Ts
  BY <1>1, <1>2
<1>4. PICK x \in Ts : \A y \in Ts : x <= y
  BY <1>3, LeastNumber
<1>5. PICK q \in ready : x = turn(q)
  BY <1>4
<1> HIDE DEF turn
<1>6. \A r \in ready : turn(q) <= turn(r)
  BY <1>4, <1>5
<1>7. \E p \in ready : \A r \in ready : turn(p) <= turn(r)
  BY <1>6
<1>8. NextQueue = CHOOSE p \in ready : \A r \in ready : turn(p) <= turn(r)
  BY DEF NextQueue, turn
<1>9. NextQueue \in ready
  BY <1>7, <1>8
<1> QED BY <1>9

\* DequeueExec: the jobs taken are in the tasks now, each in one.
LEMMA DequeueJobs ==
    ASSUME PoolTyped, JobsKept, DequeueExec
    PROVE  /\ JobsKept' /\ queues' \in [DOMAIN QueueNames -> Seq(Calls)]
           /\ manager' \in [at : Nat, tasks : Seq([jobs : Seq(Calls) \ {<<>>}, single : BOOLEAN])]
<1>1. load' = load /\ conn' = conn /\ jobs' = jobs /\ manager.tasks = <<>> /\ DOMAIN manager.tasks = {}
  BY DEF DequeueExec
<1>2. /\ Calls' = Calls /\ queues \in [DOMAIN QueueNames -> Seq(Calls)] /\ manager.at \in Nat
  BY <1>1, LoadStays DEF PoolTyped
<1>3. PICK q0 \in DOMAIN QueueNames : q0 = NextQueue
  <2>1. DOMAIN queues = DOMAIN QueueNames
    BY <1>2
  <2> QED BY <1>2, <2>1, NextQueueReady DEF DequeueExec
<1>4. queues[q0] \in Seq(Calls) /\ Len(queues[q0]) \in Nat /\ IsInjective(queues[q0])
  BY <1>2, <1>3 DEF JobsKept
<1>5. PICK k \in 1 .. Least(Len(queues[q0]), BatchSize) :
        LET taken == SubSeq(queues[q0], 1, k)
            single == QueueNames[q0] = "single" IN
        /\ manager' = [at |-> (q0 % Len(QueueNames)) + 1,
                       tasks |-> IF single THEN [i \in 1..k |-> [jobs |-> <<taken[i]>>, single |-> TRUE]]
                                 ELSE <<[jobs |-> taken, single |-> FALSE]>>]
        /\ queues' = [queues EXCEPT ![q0] = SubSeq(@, k + 1, Len(@))]
  BY <1>3 DEF DequeueExec
<1>6. k \in 1 .. Len(queues[q0])
  BY <1>4, PoolAssumption DEF Least
<1> DEFINE a == SubSeq(queues[q0], 1, k)
           b == SubSeq(queues[q0], k + 1, Len(queues[q0]))
<1>7. /\ a \in Seq(Calls) /\ Len(a) = k /\ b \in Seq(Calls) /\ IsInjective(a) /\ IsInjective(b)
      /\ ToSet(a) \subseteq ToSet(queues[q0]) /\ ToSet(b) \subseteq ToSet(queues[q0]) /\ ToSet(a) \cap ToSet(b) = {}
  BY <1>4, <1>6, SplitOnce
<1>8. /\ queues'[q0] = b /\ \A q \in DOMAIN QueueNames : q # q0 => queues'[q] = queues[q]
      /\ queues' \in [DOMAIN QueueNames -> Seq(Calls)]
  BY <1>2, <1>3, <1>5, <1>7
<1>9. /\ manager'.tasks \in Seq([jobs : Seq(Calls) \ {<<>>}, single : BOOLEAN]) /\ manager'.at \in Nat
      /\ manager' \in [at : Nat, tasks : Seq([jobs : Seq(Calls) \ {<<>>}, single : BOOLEAN])]
      /\ \A i \in DOMAIN manager'.tasks : IsInjective(manager'.tasks[i].jobs)
      /\ \A i \in DOMAIN manager'.tasks : ToSet(manager'.tasks[i].jobs) \subseteq ToSet(a)
      /\ \A i, m \in DOMAIN manager'.tasks : \A j \in Calls :
            j \in ToSet(manager'.tasks[i].jobs) /\ j \in ToSet(manager'.tasks[m].jobs) => i = m
  <2>1. Len(QueueNames) = 7 /\ DOMAIN QueueNames = 1 .. 7
    BY DEF QueueNames
  <2>2. (q0 % Len(QueueNames)) + 1 \in Nat
    BY <1>3, <2>1
  <2> HIDE DEF a
  <2>3. CASE QueueNames[q0] = "single"
    <3> DEFINE ts == [i \in 1 .. k |-> [jobs |-> <<a[i]>>, single |-> TRUE]]
    <3>1. manager' = [at |-> (q0 % Len(QueueNames)) + 1, tasks |-> ts]
      BY <1>5, <2>3 DEF a
    <3>2. k \in Nat /\ \A i \in 1 .. k : a[i] \in Calls
      BY <1>6, <1>7
    <3>3. \A i \in 1 .. k : <<a[i]>> \in Seq(Calls) /\ DOMAIN <<a[i]>> = {1} /\ <<a[i]>>[1] = a[i]
      BY <3>2
    <3>4. \A i \in 1 .. k : IsInjective(<<a[i]>>) /\ ToSet(<<a[i]>>) = {a[i]}
      BY <3>3 DEF IsInjective, ToSet
    <3>5. \A i \in 1 .. k : ts[i] \in [jobs : Seq(Calls) \ {<<>>}, single : BOOLEAN] /\ ts[i].jobs = <<a[i]>>
      BY <3>3
    <3>6. ts \in Seq([jobs : Seq(Calls) \ {<<>>}, single : BOOLEAN]) /\ DOMAIN ts = 1 .. k
      BY <3>2, <3>5
    <3>7. \A i \in 1 .. k : a[i] \in ToSet(a)
      BY <1>7 DEF ToSet
    <3>8. \A i, m \in 1 .. k : a[i] = a[m] => i = m
      BY <1>7 DEF IsInjective
    <3> HIDE DEF ts
    <3>9. manager'.tasks = ts /\ manager'.at = (q0 % Len(QueueNames)) + 1
      BY <3>1
    <3>10. \A i \in 1 .. k : IsInjective(ts[i].jobs) /\ ToSet(ts[i].jobs) = {a[i]}
      BY <3>4, <3>5
    <3> DEFINE Rec == [jobs : Seq(Calls) \ {<<>>}, single : BOOLEAN]
    <3>11. manager' \in [at : Nat, tasks : Seq(Rec)]
      <4> HIDE DEF Rec
      <4> QED BY <2>2, <3>1, <3>6 DEF Rec
    <3>12. \A i \in 1 .. k : ToSet(ts[i].jobs) \subseteq ToSet(a)
      BY <3>7, <3>10
    <3>13. \A i, m \in 1 .. k : \A j \in Calls : j \in ToSet(ts[i].jobs) /\ j \in ToSet(ts[m].jobs) => i = m
      BY <3>8, <3>10
    <3> QED BY <2>2, <3>6, <3>9, <3>10, <3>11, <3>12, <3>13
  <2>4. CASE QueueNames[q0] # "single"
    <3> DEFINE ts == <<[jobs |-> a, single |-> FALSE]>>
    <3>1. manager' = [at |-> (q0 % Len(QueueNames)) + 1, tasks |-> ts]
      BY <1>5, <2>4 DEF a
    <3>2. DOMAIN ts = {1} /\ ts[1].jobs = a /\ ts \in Seq([jobs : Seq(Calls) \ {<<>>}, single : BOOLEAN])
      BY <1>7
    <3> HIDE DEF ts
    <3>3. manager'.tasks = ts /\ manager'.at = (q0 % Len(QueueNames)) + 1
      BY <3>1
    <3> QED BY <1>7, <2>2, <3>1, <3>2, <3>3
  <2> QED BY <2>3, <2>4
<1> HIDE DEF a, b
<1>10. \A c, j : InConn(c, j)' = InConn(c, j)
  BY <1>1 DEF InConn, GaveAnswers, C
<1>11. \A j : JobWaits(j)' = JobWaits(j)
  BY <1>1 DEF JobWaits
<1>12. \A q \in DOMAIN QueueNames, j \in Calls : InQueue(q, j)' => InQueue(q, j)
  BY <1>7, <1>8 DEF InQueue
<1>13. \A i \in DOMAIN manager'.tasks, j \in Calls : InTask(i, j)' => InQueue(q0, j) /\ ~InQueue(q0, j)'
  <2> SUFFICES ASSUME NEW i \in DOMAIN manager'.tasks, NEW j \in Calls, InTask(i, j)'
               PROVE  InQueue(q0, j) /\ ~InQueue(q0, j)'
    OBVIOUS
  <2>1. j \in ToSet(a)
    BY <1>9 DEF InTask
  <2>2. j \in ToSet(queues[q0]) /\ j \notin ToSet(b)
    BY <1>7, <2>1
  <2> QED BY <1>8, <2>2 DEF InQueue
<1>14. ASSUME NEW j \in Calls PROVE JobPlace(j)'
  <2>1. JobPlace(j)
    BY DEF JobsKept
  <2>2. /\ (\E q \in DOMAIN QueueNames : InQueue(q, j)') => JobWaits(j)'
        /\ (\E i \in DOMAIN manager'.tasks : InTask(i, j)') => JobWaits(j)'
        /\ (\E c \in PoolConns : InConn(c, j)') => JobWaits(j)'
    BY <1>3, <1>10, <1>11, <1>12, <1>13, <2>1 DEF JobPlace
  <2>3. /\ \A p, q \in DOMAIN QueueNames : InQueue(p, j)' /\ InQueue(q, j)' => p = q
        /\ \A c, d \in PoolConns : InConn(c, j)' /\ InConn(d, j)' => c = d
        /\ \A q \in DOMAIN QueueNames, c \in PoolConns : ~(InQueue(q, j)' /\ InConn(c, j)')
    BY <1>10, <1>12, <2>1 DEF JobPlace
  <2>4. /\ \A q \in DOMAIN QueueNames, i \in DOMAIN manager'.tasks : ~(InQueue(q, j)' /\ InTask(i, j)')
        /\ \A i \in DOMAIN manager'.tasks, c \in PoolConns : ~(InTask(i, j)' /\ InConn(c, j)')
    BY <1>3, <1>10, <1>12, <1>13, <2>1 DEF JobPlace
  <2>5. \A i, m \in DOMAIN manager'.tasks : InTask(i, j)' /\ InTask(m, j)' => i = m
    BY <1>9 DEF InTask
  <2>6. (jobs[j].sent \/ jobs[j].answers = <<>>)'
    BY <1>1, <2>1 DEF JobPlace
  <2> QED BY <2>2, <2>3, <2>4, <2>5, <2>6 DEF JobPlace
<1>15. \A q \in DOMAIN QueueNames : IsInjective(queues'[q])
  BY <1>7, <1>8 DEF JobsKept
<1> QED BY <1>1, <1>2, <1>8, <1>9, <1>14, <1>15 DEF JobsKept, C

\* GetPGConnection: the jobs of the first task are with the worker, or nowhere.
LEMMA GetConnJobs ==
    ASSUME PoolTyped, JobsKept, GetPGConnection
    PROVE  /\ JobsKept' /\ manager' \in [at : Nat, tasks : Seq([jobs : Seq(Calls) \ {<<>>}, single : BOOLEAN])]
           /\ connPool' \in Seq(PoolConns)
           /\ \E c \in PoolConns : \/ conn' = conn
                                   \/ \E t \in [jobs : Seq(Calls) \ {<<>>}, single : BOOLEAN] :
                                         /\ C(c).pc = "idle"
                                         /\ conn' = [conn EXCEPT ![c] = [NoConn EXCEPT !.pc = "start", !.task = t.jobs, !.single = t.single]]
<1> DEFINE Task == [jobs : Seq(Calls) \ {<<>>}, single : BOOLEAN]
           ts == manager.tasks
           c == Head(connPool)
           t == Head(ts)
<1>1. load' = load /\ queues' = queues /\ jobs' = jobs /\ ts # <<>> /\ connPool # <<>>
  BY DEF GetPGConnection
<1>2. Calls' = Calls /\ ts \in Seq(Task) /\ connPool \in Seq(PoolConns) /\ manager \in [at : Nat, tasks : Seq(Task)] /\ DOMAIN conn = PoolConns
  BY <1>1, LoadStays DEF PoolTyped
<1>3. c \in PoolConns /\ Tail(connPool) \in Seq(PoolConns)
  BY <1>1, <1>2
<1> HIDE DEF c, Task
<1>4. /\ t \in Task /\ Tail(ts) \in Seq(Task) /\ t = ts[1] /\ 1 \in DOMAIN ts
      /\ \A i \in DOMAIN Tail(ts) : Tail(ts)[i] = ts[i + 1] /\ i + 1 \in DOMAIN ts /\ i + 1 # 1 /\ i \in Nat
  BY <1>1, <1>2
<1>5. manager'.tasks = Tail(ts) /\ manager' \in [at : Nat, tasks : Seq(Task)] /\ connPool' = Tail(connPool)
  <2>1. manager' = [manager EXCEPT !.tasks = Tail(ts)] /\ connPool' = Tail(connPool)
    BY DEF GetPGConnection
  <2> QED BY <1>2, <1>4, <2>1
<1>6. conn' = IF C(c).pc # "idle" THEN conn
              ELSE [conn EXCEPT ![c] = [NoConn EXCEPT !.pc = "start", !.task = t.jobs, !.single = t.single]]
  BY DEF GetPGConnection, c
<1> HIDE DEF t
<1>7. t.jobs \in Seq(Calls) /\ t.single \in BOOLEAN
  BY <1>4 DEF Task
<1>8. \A q, j : InQueue(q, j)' = InQueue(q, j)
  BY <1>1 DEF InQueue
<1>9. \A j : JobWaits(j)' = JobWaits(j)
  BY <1>1 DEF JobWaits
<1> DEFINE n(i) == i + 1
<1>10. \A i \in DOMAIN manager'.tasks : \A j : n(i) \in DOMAIN ts /\ n(i) # 1 /\ i \in Nat /\ (InTask(i, j)' = InTask(n(i), j))
  BY <1>4, <1>5 DEF InTask
<1>11. \A i \in DOMAIN manager'.tasks : IsInjective(manager'.tasks[i].jobs)
  BY <1>4, <1>5 DEF JobsKept
<1>12. IsInjective(t.jobs) /\ \A j : InTask(1, j) = (j \in ToSet(t.jobs))
  BY <1>4 DEF JobsKept, InTask
<1>13. \A d \in PoolConns, j \in Calls : InConn(d, j)' => InConn(d, j) \/ (d = c /\ InTask(1, j))
  <2>1. CASE C(c).pc # "idle"
    BY <1>6, <2>1 DEF InConn, C, GaveAnswers
  <2>2. CASE C(c).pc = "idle"
    <3>1. \A d \in PoolConns : d # c => conn'[d] = conn[d]
      BY <1>2, <1>6, <2>2
    <3>2. conn'[c].task = t.jobs
      BY <1>2, <1>3, <1>6, <2>2 DEF NoConn
    <3> QED BY <1>12, <3>1, <3>2 DEF InConn, C, GaveAnswers
  <2> QED BY <2>1, <2>2
<1>14. \A d \in PoolConns : IsInjective(conn'[d].task)
  <2>1. CASE C(c).pc # "idle"
    BY <1>6, <2>1 DEF JobsKept, C
  <2>2. CASE C(c).pc = "idle"
    <3>1. \A d \in PoolConns : d # c => conn'[d] = conn[d]
      BY <1>2, <1>6, <2>2
    <3>2. conn'[c].task = t.jobs
      BY <1>2, <1>3, <1>6, <2>2 DEF NoConn
    <3> QED BY <1>12, <3>1, <3>2 DEF JobsKept, C
  <2> QED BY <2>1, <2>2
<1> HIDE DEF ts, n
<1>15. ASSUME NEW j \in Calls PROVE JobPlace(j)'
  <2>1. JobPlace(j)
    BY DEF JobsKept
  <2>2. /\ (\E q \in DOMAIN QueueNames : InQueue(q, j)') => JobWaits(j)'
        /\ (\E i \in DOMAIN manager'.tasks : InTask(i, j)') => JobWaits(j)'
        /\ (\E d \in PoolConns : InConn(d, j)') => JobWaits(j)'
    BY <1>4, <1>8, <1>9, <1>10, <1>13, <2>1 DEF JobPlace, ts
  <2>3. /\ \A p, q \in DOMAIN QueueNames : InQueue(p, j)' /\ InQueue(q, j)' => p = q
        /\ \A q \in DOMAIN QueueNames, i \in DOMAIN manager'.tasks : ~(InQueue(q, j)' /\ InTask(i, j)')
        /\ \A q \in DOMAIN QueueNames, d \in PoolConns : ~(InQueue(q, j)' /\ InConn(d, j)')
    BY <1>4, <1>8, <1>10, <1>13, <2>1 DEF JobPlace, ts
  <2>4. \A d, e \in PoolConns : InConn(d, j)' /\ InConn(e, j)' => d = e
    BY <1>4, <1>13, <2>1 DEF JobPlace, ts
  <2>5. \A i \in DOMAIN manager'.tasks, d \in PoolConns : ~(InTask(i, j)' /\ InConn(d, j)')
    BY <1>4, <1>10, <1>13, <2>1 DEF JobPlace, ts
  <2>6. \A i, m \in DOMAIN manager'.tasks : InTask(i, j)' /\ InTask(m, j)' => i = m
    <3> SUFFICES ASSUME NEW i \in DOMAIN manager'.tasks, NEW m \in DOMAIN manager'.tasks, InTask(i, j)', InTask(m, j)'
                 PROVE  i = m
      OBVIOUS
    <3>1. n(i) = n(m)
      BY <1>10, <2>1 DEF JobPlace, ts
    <3> QED BY <1>10, <3>1 DEF n
  <2>7. (jobs[j].sent \/ jobs[j].answers = <<>>)'
    BY <1>1, <2>1 DEF JobPlace
  <2> QED BY <2>2, <2>3, <2>4, <2>5, <2>6, <2>7 DEF JobPlace
<1>16. JobsKept'
  BY <1>1, <1>2, <1>11, <1>14, <1>15 DEF JobsKept, C
<1>17. conn' = conn \/ (C(c).pc = "idle" /\ conn' = [conn EXCEPT ![c] = [NoConn EXCEPT !.pc = "start", !.task = t.jobs, !.single = t.single]])
  BY <1>6
<1> QED BY <1>3, <1>4, <1>5, <1>16, <1>17 DEF Task

-----------------------------------------------------------------------------
(* MetaPool: a block is of one worker, which finds what it wrote.           *)

BlockSet == 0 .. PageBlocks - 1

\* What is claimed of a worker and of what is in the memory does not depend on the step.
LEMMA SameClaim ==
    ASSUME load' = load, NEW r, NEW m
    PROVE  WorkerKept(r, m)' <=> WorkerKept(r, m)
<1>1. Pages' = Pages /\ \A t : Requests(t)' = Requests(t)
  BY LoadStays
<1>2. Requests(r.task)' = Requests(r.task)
  BY <1>1
<1>3. \A a : Addr(a)' <=> Addr(a)
  BY <1>1 DEF Addr
<1>4. \A a, e : Apart(a, e)' <=> Apart(a, e)
  BY <1>1 DEF Apart
<1>5. ToWrite(r)' = ToWrite(r)
  BY <1>2 DEF ToWrite
<1> QED BY <1>2, <1>3, <1>4, <1>5 DEF WorkerKept

\* The memories m and n have the same in the blocks of a worker.
SameBlocks(r, m, n) == \A p \in Pages, b \in BlockSet : Has(r, p, b) => n[p][b] = m[p][b]

\* A worker finds what it has to find, when no other one writes into its blocks.
LEMMA ClaimStays ==
    ASSUME load \in Workloads, NEW r \in ConnRec, NEW m, NEW n, WorkerKept(r, m), SameBlocks(r, m, n)
    PROVE  WorkerKept(r, n)
<1>1. r.param \in AddrRec /\ r.reply \in AddrRec /\ r.task \in Seq(Calls) /\ r.items \in Seq(Nat \X Nat)
  BY DEF ConnRec
<1>2. Requests(r.task) \in Seq(Nat \X Nat)
  <2>1. PICK A \in [0 .. Len(r.task) -> Seq(Nat \X Nat)] : Requests(r.task) = A[Len(r.task)]
    BY <1>1, RequestsAre
  <2>2. Len(r.task) \in 0 .. Len(r.task)
    BY <1>1
  <2> QED BY <2>1, <2>2
<1>3. ASSUME NEW a \in AddrRec, Addr(a), NEW items \in Seq(Nat \X Nat), Stored(m, a, items),
             \A p \in Pages, b \in BlockSet : InAddr(a, p, b) => Has(r, p, b)
      PROVE  Stored(n, a, items)
  <2> SUFFICES ASSUME NEW i \in DOMAIN items PROVE n[a.page][a.block + i - 1].of = items[i]
    BY <1>3 DEF Stored
  <2>1. Len(items) \in Nat /\ DOMAIN items = 1 .. Len(items) /\ Len(items) <= a.size
    BY <1>3 DEF Stored
  <2>2. a.page \in Pages /\ a.block \in Nat /\ a.size \in Nat /\ a.block + a.size <= PageBlocks
    BY <1>3 DEF Addr, AddrRec
  <2>3. i \in Nat /\ i >= 1 /\ i <= a.size
    BY <2>1, <2>2
  <2>4. a.block + i - 1 \in BlockSet /\ a.block <= a.block + i - 1 /\ a.block + i - 1 < a.block + a.size
    BY <2>2, <2>3, PoolAssumption DEF BlockSet
  <2>5. InAddr(a, a.page, a.block + i - 1)
    BY <2>4 DEF InAddr
  <2>6. n[a.page][a.block + i - 1] = m[a.page][a.block + i - 1]
    BY <1>3, <2>2, <2>4, <2>5 DEF SameBlocks
  <2> QED BY <1>3, <2>6 DEF Stored
<1>4. r.pc = "send" => Stored(n, r.param, Requests(r.task))
  <2> SUFFICES ASSUME r.pc = "send" PROVE Stored(n, r.param, Requests(r.task))
    OBVIOUS
  <2>1. HasParam(r)
    BY DEF HasParam
  <2>2. Addr(r.param) /\ Stored(m, r.param, Requests(r.task))
    BY <2>1 DEF WorkerKept
  <2>3. \A p \in Pages, b \in BlockSet : InAddr(r.param, p, b) => Has(r, p, b)
    BY <2>1 DEF Has
  <2> QED BY <1>1, <1>2, <1>3, <2>2, <2>3
<1>5. r.pc \in {"freeparam", "hintparam", "answer"} /\ r.reply # NoAddr => Stored(n, r.reply, r.items)
  <2> SUFFICES ASSUME r.pc \in {"freeparam", "hintparam", "answer"}, r.reply # NoAddr PROVE Stored(n, r.reply, r.items)
    OBVIOUS
  <2>1. HasReply(r)
    BY DEF HasReply
  <2>2. Addr(r.reply) /\ Stored(m, r.reply, r.items)
    BY DEF WorkerKept
  <2>3. \A p \in Pages, b \in BlockSet : InAddr(r.reply, p, b) => Has(r, p, b)
    BY <2>1 DEF Has
  <2> QED BY <1>1, <1>3, <2>2, <2>3
<1> QED BY <1>4, <1>5 DEF WorkerKept

\* A step of worker c that makes its record r: it may take blocks that are free, give
\* back its own, write into its own, and answer the jobs that it has.
LEMMA WorkerMoves ==
    ASSUME PoolIInv, load' = load, queues' = queues, manager' = manager, connPool' \in Seq(PoolConns),
           NEW c \in PoolConns, NEW r \in ConnRec, conn' = [conn EXCEPT ![c] = r],
           r.pc \in Mallocs => r.want \in Sizes, r.pc \in {"cas", "got"} => r.page \in Pages,
           shm' \in ShmRec,
           \A p \in Pages, b \in BlockSet : b \in shm'.bits[p] <=> (b \in shm.bits[p] /\ ~Has(conn[c], p, b)) \/ Has(r, p, b),
           \A p \in Pages, b \in BlockSet : Has(r, p, b) /\ b \in shm.bits[p] => Has(conn[c], p, b),
           \A p \in Pages, b \in BlockSet : shm'.mem[p][b] = shm.mem[p][b] \/ Has(conn[c], p, b),
           WorkerKept(r, shm'.mem),
           DOMAIN jobs' = Calls, \A j \in Calls : DOMAIN jobs'[j] = {"sent", "answers"},
           IsInjective(r.task), GaveAnswers(r) \/ (~GaveAnswers(conn[c]) /\ r.task = conn[c].task),
           \A j \in Calls : jobs'[j] = jobs[j] \/ (InConn(c, j) /\ GaveAnswers(r) /\ jobs'[j].sent),
           \A j \in Calls : jobs'[j].answers \in {<<>>, <<Failed>>, <<Own(j)>>}
    PROVE  PoolIInv'
<1>1. Calls' = Calls /\ Pages' = Pages /\ \A j : Own(j)' = Own(j)
  BY LoadStays
<1>2. ConnRec' = ConnRec /\ ShmRec' = ShmRec
  BY <1>1 DEF ConnRec, ShmRec, AddrRec
<1>3. conn \in [PoolConns -> ConnRec] /\ load \in Workloads
  BY DEF PoolIInv, PoolTyped
<1>4. conn' \in [PoolConns -> ConnRec] /\ conn'[c] = r /\ \A d \in PoolConns : d # c => conn'[d] = conn[d]
  BY <1>3
<1>5. PoolTyped'
  <2>1. \A d \in PoolConns : conn[d].pc \in Mallocs => conn[d].want \in Sizes
    BY DEF PoolIInv, PoolTyped, C
  <2>2. \A d \in PoolConns : conn[d].pc \in {"cas", "got"} => conn[d].page \in Pages
    BY DEF PoolIInv, PoolTyped, C
  <2>3. \A d \in PoolConns : conn'[d].pc \in Mallocs => conn'[d].want \in Sizes
    BY <1>4, <2>1
  <2>4. \A d \in PoolConns : conn'[d].pc \in {"cas", "got"} => conn'[d].page \in Pages
    BY <1>4, <2>2
  <2>5. /\ queues \in [DOMAIN QueueNames -> Seq(Calls)]
        /\ manager \in [at : Nat, tasks : Seq([jobs : Seq(Calls) \ {<<>>}, single : BOOLEAN])]
    BY DEF PoolIInv, PoolTyped
  <2> QED BY <1>1, <1>2, <1>3, <1>4, <2>3, <2>4, <2>5 DEF PoolTyped, C
<1>6. JobsKept'
  <2>1. \A d \in PoolConns : IsInjective(conn'[d].task)
    BY <1>4 DEF PoolIInv, JobsKept, C
  <2>2. \A d \in PoolConns, j \in Calls : InConn(d, j)' => InConn(d, j)
    BY <1>4 DEF InConn, C, GaveAnswers
  <2>3. \A j \in Calls : jobs'[j] = jobs[j] \/ (InConn(c, j) /\ ~InConn(c, j)' /\ jobs'[j].sent)
    BY <1>4 DEF InConn, C, GaveAnswers
  <2>4. JobsKept
    BY DEF PoolIInv
  <2> QED BY <2>1, <2>2, <2>3, <2>4, JobsLeave
<1>7. /\ \A p \in Pages, b \in BlockSet : b \in shm.bits[p] <=> \E d \in PoolConns : Has(conn[d], p, b)
      /\ \A d, e \in PoolConns : \A p \in Pages, b \in BlockSet : Has(conn[d], p, b) /\ Has(conn[e], p, b) => d = e
  BY DEF PoolIInv, BlocksKept, C, BlockSet
<1>8. \A d \in PoolConns : \A p \in Pages, b \in BlockSet : Has(conn'[d], p, b) <=> (IF d = c THEN Has(r, p, b) ELSE Has(conn[d], p, b))
  BY <1>4
<1>9. \A d, e \in PoolConns : \A p \in Pages, b \in BlockSet : Has(conn'[d], p, b) /\ Has(conn'[e], p, b) => d = e
  <2> SUFFICES ASSUME NEW d \in PoolConns, NEW e \in PoolConns, NEW p \in Pages, NEW b \in BlockSet,
                      Has(conn'[d], p, b), Has(conn'[e], p, b)
               PROVE  d = e
    OBVIOUS
  <2>1. CASE d # c /\ e # c
    BY <1>7, <1>8, <2>1
  <2>2. CASE d = c /\ e # c
    <3>1. Has(r, p, b) /\ Has(conn[e], p, b)
      BY <1>8, <2>2
    <3>2. b \in shm.bits[p]
      BY <1>7, <3>1
    <3>3. Has(conn[c], p, b)
      BY <3>1, <3>2
    <3> QED BY <1>7, <2>2, <3>1, <3>3
  <2>3. CASE d # c /\ e = c
    <3>1. Has(r, p, b) /\ Has(conn[d], p, b)
      BY <1>8, <2>3
    <3>2. b \in shm.bits[p]
      BY <1>7, <3>1
    <3>3. Has(conn[c], p, b)
      BY <3>1, <3>2
    <3> QED BY <1>7, <2>3, <3>1, <3>3
  <2> QED BY <2>1, <2>2, <2>3
<1>10. \A p \in Pages, b \in BlockSet : b \in shm'.bits[p] <=> \E d \in PoolConns : Has(conn'[d], p, b)
  <2> SUFFICES ASSUME NEW p \in Pages, NEW b \in BlockSet
               PROVE  b \in shm'.bits[p] <=> \E d \in PoolConns : Has(conn'[d], p, b)
    OBVIOUS
  <2>1. ASSUME b \in shm.bits[p], ~Has(conn[c], p, b) PROVE \E d \in PoolConns : Has(conn'[d], p, b)
    BY <1>7, <1>8, <2>1
  <2>2. ASSUME NEW d \in PoolConns, d # c, Has(conn[d], p, b) PROVE b \in shm.bits[p] /\ ~Has(conn[c], p, b)
    BY <1>7, <2>2
  <2> QED BY <1>8, <2>1, <2>2
<1>11. BlocksKept'
  BY <1>1, <1>9, <1>10 DEF BlocksKept, C, BlockSet, Has, HasParam, HasReply, InAddr, Mallocs, NoAddr
<1>12. ASSUME NEW d \in PoolConns PROVE WorkerKept(conn'[d], shm'.mem)
  <2>1. CASE d = c
    BY <1>4, <2>1
  <2>2. CASE d # c
    <3>1. WorkerKept(conn[d], shm.mem) /\ conn[d] \in ConnRec
      BY <1>3 DEF PoolIInv, C
    <3>2. \A p \in Pages, b \in BlockSet : Has(conn[d], p, b) => shm'.mem[p][b] = shm.mem[p][b]
      BY <1>7, <2>2
    <3>3. WorkerKept(conn[d], shm'.mem)
      <4>1. PICK x, m, n : x = conn[d] /\ m = shm.mem /\ n = shm'.mem
        OBVIOUS
      <4>2. x \in ConnRec /\ WorkerKept(x, m) /\ SameBlocks(x, m, n)
        BY <3>1, <3>2, <4>1 DEF SameBlocks
      <4>3. WorkerKept(x, n)
        BY <1>3, <4>2, ClaimStays, Zenon
      <4> QED BY <4>1, <4>3
    <3> QED BY <1>4, <2>2, <3>3
  <2> QED BY <2>1, <2>2
<1>13. \A d \in PoolConns : WorkerKept(C(d), shm.mem)'
  <2> SUFFICES ASSUME NEW d \in PoolConns PROVE WorkerKept(C(d), shm.mem)'
    OBVIOUS
  <2>1. PICK x, m : x = conn'[d] /\ m = shm'.mem
    OBVIOUS
  <2>2. WorkerKept(x, m)
    BY <1>12, <2>1
  <2>3. WorkerKept(x, m)'
    BY <2>2, SameClaim
  <2> QED BY <2>1, <2>3 DEF C, WorkerKept, ToWrite, HasParam, HasReply, Addr, Apart, Stored, InAddr
<1>14. AnswersAreOwn'
  BY <1>1 DEF AnswersAreOwn, Failed
<1> QED BY <1>5, <1>6, <1>11, <1>13, <1>14 DEF PoolIInv

\* What is known of a worker before its step.
LEMMA WorkerFacts ==
    ASSUME PoolIInv, NEW c \in PoolConns
    PROVE  /\ conn[c] \in ConnRec /\ WorkerKept(conn[c], shm.mem) /\ load \in Workloads /\ shm \in ShmRec
           /\ conn[c].pc \in Mallocs => conn[c].want \in Sizes
           /\ conn[c].pc \in {"cas", "got"} => conn[c].page \in Pages
           /\ Requests(conn[c].task) \in Seq(Nat \X Nat) /\ IsInjective(conn[c].task)
           /\ DOMAIN jobs = Calls /\ \A j \in Calls : DOMAIN jobs[j] = {"sent", "answers"}
           /\ \A j \in Calls : jobs[j].answers \in {<<>>, <<Failed>>, <<Own(j)>>}
           /\ connPool \in Seq(PoolConns)
<1>1. conn[c] \in ConnRec /\ load \in Workloads /\ shm \in ShmRec /\ WorkerKept(conn[c], shm.mem) /\ connPool \in Seq(PoolConns)
  BY DEF PoolIInv, PoolTyped, C
<1>2. conn[c].task \in Seq(Calls)
  BY <1>1 DEF ConnRec
<1>3. Requests(conn[c].task) \in Seq(Nat \X Nat)
  <2>1. PICK t : t = conn[c].task
    OBVIOUS
  <2>2. PICK A \in [0 .. Len(t) -> Seq(Nat \X Nat)] : Requests(t) = A[Len(t)]
    BY <1>1, <1>2, <2>1, RequestsAre
  <2>3. Len(t) \in 0 .. Len(t)
    BY <1>2, <2>1
  <2>4. Requests(t) \in Seq(Nat \X Nat)
    BY <2>2, <2>3
  <2> QED BY <2>1, <2>4
<1>4. /\ conn[c].pc \in Mallocs => conn[c].want \in Sizes
      /\ conn[c].pc \in {"cas", "got"} => conn[c].page \in Pages
      /\ DOMAIN jobs = Calls /\ \A j \in Calls : DOMAIN jobs[j] = {"sent", "answers"}
  BY DEF PoolIInv, PoolTyped, C
<1>5. IsInjective(conn[c].task)
  BY DEF PoolIInv, JobsKept, C
<1>6. \A j \in Calls : jobs[j].answers \in {<<>>, <<Failed>>, <<Own(j)>>}
  BY DEF PoolIInv, AnswersAreOwn
<1> QED BY <1>1, <1>3, <1>4, <1>5, <1>6

\* A step of a worker that changes neither bits nor memory, and answers nobody.
LEMMA WorkerGoesOn ==
    ASSUME PoolIInv, load' = load, queues' = queues, manager' = manager, connPool' = connPool, jobs' = jobs,
           NEW c \in PoolConns, NEW r \in ConnRec, conn' = [conn EXCEPT ![c] = r],
           r.pc \in Mallocs => r.want \in Sizes, r.pc \in {"cas", "got"} => r.page \in Pages,
           shm' \in ShmRec, shm'.bits = shm.bits, shm'.mem = shm.mem,
           \A p \in Pages, b \in BlockSet : Has(r, p, b) <=> Has(conn[c], p, b),
           WorkerKept(r, shm.mem), r.task = conn[c].task, ~GaveAnswers(conn[c]) \/ GaveAnswers(r)
    PROVE  PoolIInv'
<1>1. /\ IsInjective(conn[c].task) /\ DOMAIN jobs = Calls /\ \A j \in Calls : DOMAIN jobs[j] = {"sent", "answers"}
      /\ \A j \in Calls : jobs[j].answers \in {<<>>, <<Failed>>, <<Own(j)>>}
      /\ connPool \in Seq(PoolConns)
  BY WorkerFacts
<1>2. \A p \in Pages, b \in BlockSet : b \in shm.bits[p] <=> \E d \in PoolConns : Has(conn[d], p, b)
  BY DEF PoolIInv, BlocksKept, C, BlockSet
<1>3. \A p \in Pages, b \in BlockSet : b \in shm'.bits[p] <=> (b \in shm.bits[p] /\ ~Has(conn[c], p, b)) \/ Has(r, p, b)
  BY <1>2
<1>4. \A p \in Pages, b \in BlockSet : Has(r, p, b) /\ b \in shm.bits[p] => Has(conn[c], p, b)
  OBVIOUS
<1>5. \A p \in Pages, b \in BlockSet : shm'.mem[p][b] = shm.mem[p][b] \/ Has(conn[c], p, b)
  OBVIOUS
<1>6. WorkerKept(r, shm'.mem)
  OBVIOUS
<1> QED BY <1>1, <1>3, <1>4, <1>5, <1>6, WorkerMoves

\* The size of a block that is allocated.
LEMMA SizeExists ==
    ASSUME NEW n \in 0 .. PageBlocks
    PROVE  /\ GetNextPowerOfTwo(n) \in Sizes /\ n <= GetNextPowerOfTwo(n)
           /\ GetNextPowerOfTwo(n) \in Nat \ {0} /\ GetNextPowerOfTwo(n) <= PageBlocks
<1> DEFINE Ts == {s \in Sizes : s >= n}
<1>1. PageBlocks \in Nat \ {0}
  BY PoolAssumption
<1>2. PageBlocks % PageBlocks = 0
  BY <1>1
<1>3. PageBlocks \in Ts /\ Ts \subseteq Nat
  BY <1>1, <1>2 DEF Sizes
<1>4. PICK x \in Ts : \A y \in Ts : x <= y
  BY <1>3, LeastNumber
<1>5. \E s \in Sizes : s >= n /\ \A r \in Sizes : r >= n => s <= r
  BY <1>4
<1>6. GetNextPowerOfTwo(n) \in Sizes /\ GetNextPowerOfTwo(n) >= n
  BY <1>5 DEF GetNextPowerOfTwo
<1>7. GetNextPowerOfTwo(n) \in 1 .. PageBlocks
  BY <1>6 DEF Sizes
<1> HIDE DEF Ts
<1> QED BY <1>1, <1>6, <1>7

\* A record that starts an allocation.
LEMMA MallocIs ==
    ASSUME NEW r \in ConnRec, shm \in ShmRec, NEW n \in 0 .. PageBlocks, NEW for \in {"param", "reply"}
    PROVE  /\ Malloc(r, n, for) \in ConnRec /\ Malloc(r, n, for).pc = "load" /\ Malloc(r, n, for).for = for
           /\ Malloc(r, n, for).want \in Sizes /\ n <= Malloc(r, n, for).want
           /\ Malloc(r, n, for).task = r.task /\ Malloc(r, n, for).single = r.single /\ Malloc(r, n, for).items = r.items
           /\ Malloc(r, n, for).param = r.param /\ Malloc(r, n, for).reply = r.reply
<1> DEFINE w == GetNextPowerOfTwo(n)
           h == shm.hints[w]
<1>1. w \in Sizes /\ n <= w /\ w \in Nat \ {0}
  BY SizeExists
<1>2. h \in Nat
  BY <1>1 DEF ShmRec
<1> HIDE DEF w, h
<1>3. Malloc(r, n, for) = [r EXCEPT !.pc = "load", !.want = w, !.for = for, !.scan = 0, !.start = h, !.page = h]
  BY DEF Malloc, w, h
<1> DEFINE q == Malloc(r, n, for)
<1> HIDE DEF q
<1>4. /\ q.pc = "load" /\ q.for = for /\ q.want = w /\ q.task = r.task /\ q.single = r.single
      /\ q.items = r.items /\ q.param = r.param /\ q.reply = r.reply
  BY <1>3 DEF ConnRec, q
<1>5. q \in ConnRec
  BY <1>1, <1>2, <1>3 DEF ConnRec, ConnPcs, Mallocs, q
<1> QED BY <1>1, <1>4, <1>5 DEF q

\* StartWork.
LEMMA StartKept ==
    ASSUME PoolIInv, NEW c \in PoolConns, StartWork(c)
    PROVE  PoolIInv' \/ UNCHANGED <<load, queues, manager, connPool, conn, shm, jobs>>
<1>1. /\ conn[c] \in ConnRec /\ WorkerKept(conn[c], shm.mem) /\ shm \in ShmRec
      /\ Requests(conn[c].task) \in Seq(Nat \X Nat)
  BY WorkerFacts
<1>2. conn[c].pc = "start" /\ UNCHANGED <<load, queues, manager, connPool, jobs>>
  BY DEF StartWork, ConnAt, C
<1>3. PICK r0, n, r : r0 = conn[c] /\ n = Len(Requests(conn[c].task)) /\ r = Malloc(r0, n, "param")
  OBVIOUS
<1>4. n \in Nat
  BY <1>1, <1>3
<1>5. CASE n > PageBlocks
  <2>1. UNCHANGED <<conn, shm>>
    BY <1>3, <1>4, <1>5, PoolAssumption DEF StartWork, Dies, C
  <2> QED BY <1>2, <2>1
<1>6. CASE n <= PageBlocks
  <2>1. conn' = [conn EXCEPT ![c] = r] /\ shm' = shm
    BY <1>3, <1>4, <1>6, PoolAssumption DEF StartWork, SetConn, C
  <2>2. n \in 0 .. PageBlocks /\ r0 \in ConnRec
    BY <1>1, <1>3, <1>4, <1>6, PoolAssumption
  <2>3. /\ r \in ConnRec /\ r.pc = "load" /\ r.for = "param" /\ r.want \in Sizes /\ n <= r.want
        /\ r.task = r0.task /\ r.single = r0.single /\ r.reply = r0.reply
    BY <1>1, <1>3, <2>2, MallocIs
  <2>4. r0.reply = NoAddr /\ r0.task # <<>>
    BY <1>1, <1>2, <1>3 DEF WorkerKept, NoTask
  <2>5. WorkerKept(r, shm.mem)
    BY <1>3, <1>6, <2>3, <2>4 DEF WorkerKept, HasParam, HasReply, Mallocs, NoTask, ToWrite
  <2>6. \A p, b : ~Has(r, p, b) /\ ~Has(r0, p, b)
    BY <1>2, <1>3, <2>3, <2>4 DEF Has, HasParam, HasReply, Mallocs
  <2>7. ~GaveAnswers(conn[c])
    BY <1>2 DEF GaveAnswers, NoTask
  <2>8. \A p \in Pages, b \in BlockSet : Has(r, p, b) <=> Has(conn[c], p, b)
    BY <1>3, <2>6
  <2>9. r.pc \notin {"cas", "got"} /\ r.task = conn[c].task
    BY <1>3, <2>3
  <2> QED BY <1>1, <1>2, <2>1, <2>3, <2>5, <2>7, <2>8, <2>9, WorkerGoesOn
<1> QED BY <1>4, <1>5, <1>6, PoolAssumption

\* MallocLoadPage.
LEMMA LoadKept ==
    ASSUME PoolIInv, NEW c \in PoolConns, MallocLoadPage(c)
    PROVE  PoolIInv' \/ UNCHANGED <<load, queues, manager, connPool, conn, shm, jobs>>
<1>1. /\ conn[c] \in ConnRec /\ WorkerKept(conn[c], shm.mem) /\ shm \in ShmRec
      /\ conn[c].pc \in Mallocs => conn[c].want \in Sizes
  BY WorkerFacts
<1>2. conn[c].pc = "load" /\ UNCHANGED <<load, queues, manager, connPool, jobs>>
  BY DEF MallocLoadPage, ConnAt, C
<1>3. PICK r0, m : r0 = conn[c] /\ m = shm.mem
  OBVIOUS
<1>4. r0 \in ConnRec /\ WorkerKept(r0, m) /\ r0.pc = "load" /\ r0.want \in Sizes
  BY <1>1, <1>2, <1>3 DEF Mallocs
<1>5. ~GaveAnswers(r0)
  BY <1>4 DEF GaveAnswers, NoTask
<1>6. ASSUME NEW r \in ConnRec, conn' = [conn EXCEPT ![c] = r], shm' = shm, r.pc \in Mallocs => r.want \in Sizes,
             r.pc \in {"cas", "got"} => r.page \in Pages, \A p \in Pages, b \in BlockSet : Has(r, p, b) <=> Has(r0, p, b),
             WorkerKept(r, m), r.task = r0.task
      PROVE  PoolIInv'
  BY <1>1, <1>2, <1>3, <1>5, <1>6, WorkerGoesOn
<1>7. CASE r0.page \in Pages
  <2>1. PICK r : r = [r0 EXCEPT !.pc = "cas", !.seen = shm.bits[r0.page], !.full = FALSE]
    OBVIOUS
  <2>2. conn' = [conn EXCEPT ![c] = r] /\ shm' = shm
    BY <1>3, <1>7, <2>1 DEF MallocLoadPage, SetConn, C
  <2>3. shm.bits[r0.page] \in SUBSET (0 .. PageBlocks - 1)
    BY <1>1, <1>7 DEF ShmRec
  <2>4. r \in ConnRec
    BY <1>4, <2>1, <2>3 DEF ConnRec, ConnPcs, Mallocs
  <2>5. /\ r.pc = "cas" /\ r.page = r0.page /\ r.task = r0.task /\ r.for = r0.for /\ r.want = r0.want
        /\ r.param = r0.param /\ r.reply = r0.reply /\ r.items = r0.items
    BY <1>4, <2>1 DEF ConnRec
  <2>6. \A p \in Pages, b \in BlockSet : Has(r, p, b) <=> Has(r0, p, b)
    BY <1>4, <2>5 DEF Has, HasParam, HasReply, Mallocs
  <2>7. WorkerKept(r, m)
    BY <1>4, <2>5 DEF WorkerKept, HasParam, HasReply, Mallocs, NoTask, ToWrite
  <2> QED BY <1>4, <1>6, <1>7, <2>2, <2>4, <2>5, <2>6, <2>7
<1>8. CASE r0.page \notin Pages /\ r0.scan = 0
  <2>1. PICK r : r = [r0 EXCEPT !.scan = 1, !.page = 0]
    OBVIOUS
  <2>2. conn' = [conn EXCEPT ![c] = r] /\ shm' = shm
    BY <1>3, <1>8, <2>1 DEF MallocLoadPage, SetConn, C
  <2>3. r \in ConnRec
    BY <1>4, <2>1 DEF ConnRec
  <2>4. /\ r.pc = "load" /\ r.task = r0.task /\ r.for = r0.for /\ r.want = r0.want
        /\ r.param = r0.param /\ r.reply = r0.reply /\ r.items = r0.items
    BY <1>4, <2>1 DEF ConnRec
  <2>5. \A p \in Pages, b \in BlockSet : Has(r, p, b) <=> Has(r0, p, b)
    BY <1>4, <2>4 DEF Has, HasParam, HasReply, Mallocs
  <2>6. WorkerKept(r, m)
    BY <1>4, <2>4 DEF WorkerKept, HasParam, HasReply, Mallocs, NoTask, ToWrite
  <2> QED BY <1>4, <1>6, <2>2, <2>3, <2>4, <2>5, <2>6
<1>9. CASE r0.page \notin Pages /\ r0.scan = 1 /\ r0.for = "param"
  <2>1. UNCHANGED <<conn, shm>>
    BY <1>3, <1>9 DEF MallocLoadPage, Dies, C
  <2> QED BY <1>2, <2>1
<1>10. CASE r0.page \notin Pages /\ r0.scan = 1 /\ r0.for = "reply"
  <2>1. PICK r : r = [r0 EXCEPT !.pc = "freeparam", !.items = Failed]
    OBVIOUS
  <2>2. conn' = [conn EXCEPT ![c] = r] /\ shm' = shm
    BY <1>3, <1>10, <2>1 DEF MallocLoadPage, SetConn, C
  <2>3. Failed \in Seq(Nat \X Nat)
    BY DEF Failed
  <2>4. r \in ConnRec
    BY <1>4, <2>1, <2>3 DEF ConnRec, ConnPcs
  <2>5. /\ r.pc = "freeparam" /\ r.task = r0.task /\ r.for = r0.for /\ r.items = Failed
        /\ r.param = r0.param /\ r.reply = r0.reply
    BY <1>4, <2>1 DEF ConnRec
  <2>6. r0.reply = NoAddr /\ HasParam(r0) /\ HasParam(r) /\ Addr(r0.param) /\ r0.task # <<>>
    BY <1>4, <1>10, <2>5 DEF WorkerKept, Mallocs, NoTask, HasParam
  <2>7. \A p \in Pages, b \in BlockSet : Has(r, p, b) <=> Has(r0, p, b)
    BY <1>4, <2>5, <2>6 DEF Has, HasReply
  <2>8. WorkerKept(r, m)
    BY <2>5, <2>6 DEF WorkerKept, HasReply, Mallocs, NoTask
  <2>9. r.pc \notin Mallocs /\ r.pc \notin {"cas", "got"}
    BY <2>5 DEF Mallocs
  <2> QED BY <1>6, <2>2, <2>4, <2>5, <2>7, <2>8, <2>9
<1>11. r0.scan \in {0, 1} /\ r0.for \in {"param", "reply"}
  BY <1>4 DEF ConnRec
<1> QED BY <1>7, <1>8, <1>9, <1>10, <1>11

\* The first free block.
LEMMA FreeExists ==
    ASSUME NEW bits, NEW n \in Nat \ {0}, FreeBlocks(bits, n) # {},
           NEW b, b = CHOOSE x \in FreeBlocks(bits, n) : \A y \in FreeBlocks(bits, n) : x <= y
    PROVE  b \in Nat /\ b + n <= PageBlocks /\ Block(b, n) \cap bits = {} /\ Block(b, n) \subseteq BlockSet
<1> DEFINE free == FreeBlocks(bits, n)
<1>1. PageBlocks \in Nat \ {0}
  BY PoolAssumption
<1>2. free \subseteq Nat
  BY <1>1 DEF FreeBlocks
<1>3. \E x \in free : \A y \in free : x <= y
  BY <1>2, LeastNumber
<1>4. b \in free
  BY <1>3
<1>5. b \in 0 .. PageBlocks - n /\ Block(b, n) \cap bits = {}
  BY <1>4 DEF FreeBlocks
<1>6. b \in Nat /\ b + n <= PageBlocks
  BY <1>1, <1>5
<1>7. Block(b, n) \subseteq BlockSet
  <2> SUFFICES ASSUME NEW x \in Block(b, n) PROVE x \in BlockSet
    OBVIOUS
  <2>1. x \in Int /\ b <= x /\ x <= b + n - 1
    BY <1>6 DEF Block
  <2>2. 0 <= x /\ x <= PageBlocks - 1
    BY <1>1, <1>6, <2>1
  <2> QED BY <1>1, <2>1, <2>2 DEF BlockSet
<1> QED BY <1>5, <1>6, <1>7

\* MallocSwap: the blocks taken are those of no worker.
LEMMA SwapKept ==
    ASSUME PoolIInv, NEW c \in PoolConns, MallocSwap(c)
    PROVE  PoolIInv'
<1>1. /\ conn[c] \in ConnRec /\ WorkerKept(conn[c], shm.mem) /\ shm \in ShmRec
      /\ conn[c].pc \in Mallocs => conn[c].want \in Sizes
      /\ conn[c].pc \in {"cas", "got"} => conn[c].page \in Pages
  BY WorkerFacts
<1>2. conn[c].pc = "cas" /\ UNCHANGED <<load, queues, manager, connPool, jobs>>
  BY DEF MallocSwap, ConnAt, C
<1>3. PICK r0, m : r0 = conn[c] /\ m = shm.mem
  OBVIOUS
<1>4. /\ r0 \in ConnRec /\ WorkerKept(r0, m) /\ r0.pc = "cas" /\ r0.want \in Sizes /\ r0.page \in Pages
      /\ r0.want \in Nat \ {0} /\ r0.seen \in SUBSET BlockSet /\ r0.full \in BOOLEAN /\ r0.page \in Nat
  BY <1>1, <1>2, <1>3 DEF Mallocs, ConnRec, BlockSet
<1>5. ~GaveAnswers(r0)
  BY <1>4 DEF GaveAnswers, NoTask
<1>6. ASSUME NEW r \in ConnRec, conn' = [conn EXCEPT ![c] = r], shm' = shm, r.pc \in Mallocs => r.want \in Sizes,
             r.pc \in {"cas", "got"} => r.page \in Pages, \A p \in Pages, b \in BlockSet : Has(r, p, b) <=> Has(r0, p, b),
             WorkerKept(r, m), r.task = r0.task
      PROVE  PoolIInv'
  BY <1>1, <1>2, <1>3, <1>5, <1>6, WorkerGoesOn
<1>7. PICK n, free, b, full :
        /\ n = r0.want /\ free = FreeBlocks(r0.seen, n) /\ b = CHOOSE x \in free : \A y \in free : x <= y
        /\ full = (r0.full \/ (n # PageBlocks /\ r0.page = 0 /\ b + n = PageBlocks))
  OBVIOUS
<1>8. full \in BOOLEAN
  BY <1>7
<1>9. \/ free = {} /\ SetConn(c, [r0 EXCEPT !.pc = "load", !.page = r0.page + 1]) /\ UNCHANGED shm
      \/ /\ free # {} /\ Swaps(c)
         /\ shm' = [shm EXCEPT !.bits[r0.page] = r0.seen \cup Block(b, n)]
         /\ SetConn(c, [r0 EXCEPT !.pc = "got", !.full = full, !.got = [page |-> r0.page, block |-> b, size |-> n]])
      \/ /\ free # {} /\ ~Swaps(c)
         /\ SetConn(c, [r0 EXCEPT !.full = full, !.seen = shm.bits[r0.page]]) /\ UNCHANGED shm
  BY <1>3, <1>7 DEF MallocSwap, C
<1>10. CASE free = {} /\ SetConn(c, [r0 EXCEPT !.pc = "load", !.page = r0.page + 1]) /\ UNCHANGED shm
  <2>1. PICK r : r = [r0 EXCEPT !.pc = "load", !.page = r0.page + 1]
    OBVIOUS
  <2>2. conn' = [conn EXCEPT ![c] = r] /\ shm' = shm
    BY <1>10, <2>1 DEF SetConn
  <2>3. r \in ConnRec
    <3>1. PICK k : k = r0.page + 1
      OBVIOUS
    <3>2. k \in Nat /\ r = [r0 EXCEPT !.pc = "load", !.page = k]
      BY <1>4, <2>1, <3>1
    <3> QED BY <1>4, <3>2 DEF ConnRec, ConnPcs, Mallocs
  <2>4. /\ r.pc = "load" /\ r.task = r0.task /\ r.for = r0.for /\ r.want = r0.want
        /\ r.param = r0.param /\ r.reply = r0.reply /\ r.items = r0.items
    BY <1>4, <2>1 DEF ConnRec
  <2>5. \A p \in Pages, x \in BlockSet : Has(r, p, x) <=> Has(r0, p, x)
    BY <1>4, <2>4 DEF Has, HasParam, HasReply, Mallocs
  <2>6. WorkerKept(r, m)
    BY <1>4, <2>4 DEF WorkerKept, HasParam, HasReply, Mallocs, NoTask, ToWrite
  <2> QED BY <1>4, <1>6, <2>2, <2>3, <2>4, <2>5, <2>6
<1>11. CASE free # {} /\ ~Swaps(c) /\ SetConn(c, [r0 EXCEPT !.full = full, !.seen = shm.bits[r0.page]]) /\ UNCHANGED shm
  <2>1. PICK r : r = [r0 EXCEPT !.full = full, !.seen = shm.bits[r0.page]]
    OBVIOUS
  <2>2. conn' = [conn EXCEPT ![c] = r] /\ shm' = shm
    BY <1>11, <2>1 DEF SetConn
  <2>3. shm.bits[r0.page] \in SUBSET (0 .. PageBlocks - 1)
    BY <1>1, <1>4 DEF ShmRec
  <2>4. r \in ConnRec
    BY <1>4, <1>8, <2>1, <2>3 DEF ConnRec
  <2>5. /\ r.pc = "cas" /\ r.task = r0.task /\ r.for = r0.for /\ r.want = r0.want /\ r.page = r0.page
        /\ r.param = r0.param /\ r.reply = r0.reply /\ r.items = r0.items
    BY <1>4, <2>1 DEF ConnRec
  <2>6. \A p \in Pages, x \in BlockSet : Has(r, p, x) <=> Has(r0, p, x)
    BY <1>4, <2>5 DEF Has, HasParam, HasReply, Mallocs
  <2>7. WorkerKept(r, m)
    BY <1>4, <2>5 DEF WorkerKept, HasParam, HasReply, Mallocs, NoTask, ToWrite
  <2> QED BY <1>4, <1>6, <2>2, <2>4, <2>5, <2>6, <2>7
<1>12. CASE /\ free # {} /\ Swaps(c)
            /\ shm' = [shm EXCEPT !.bits[r0.page] = r0.seen \cup Block(b, n)]
            /\ SetConn(c, [r0 EXCEPT !.pc = "got", !.full = full, !.got = [page |-> r0.page, block |-> b, size |-> n]])
  <2>1. PICK a, r : a = [page |-> r0.page, block |-> b, size |-> n] /\ r = [r0 EXCEPT !.pc = "got", !.full = full, !.got = a]
    OBVIOUS
  <2>2. conn' = [conn EXCEPT ![c] = r]
    BY <1>12, <2>1 DEF SetConn
  <2>3. b \in Nat /\ b + n <= PageBlocks /\ Block(b, n) \cap r0.seen = {} /\ Block(b, n) \subseteq BlockSet /\ n \in Nat \ {0}
    BY <1>4, <1>7, <1>12, FreeExists
  <2>4. a \in AddrRec /\ Addr(a) /\ a.page = r0.page /\ a.block = b /\ a.size = n
    BY <1>4, <2>1, <2>3 DEF AddrRec, Addr
  <2>5. r \in ConnRec
    BY <1>4, <1>8, <2>1, <2>4 DEF ConnRec, ConnPcs, Mallocs
  <2>6. /\ r.pc = "got" /\ r.task = r0.task /\ r.for = r0.for /\ r.want = r0.want /\ r.page = r0.page
        /\ r.param = r0.param /\ r.reply = r0.reply /\ r.items = r0.items /\ r.got = a
    BY <1>4, <2>1 DEF ConnRec
  <2>7. r0.seen = shm.bits[r0.page]
    BY <1>3, <1>12 DEF Swaps, C
  <2>8. /\ shm' \in ShmRec /\ shm'.mem = shm.mem
        /\ \A p \in Pages : shm'.bits[p] = IF p = r0.page THEN shm.bits[p] \cup Block(b, n) ELSE shm.bits[p]
    <3>1. shm.bits \in [Pages -> SUBSET (0 .. PageBlocks - 1)]
      BY <1>1 DEF ShmRec
    <3>2. r0.seen \cup Block(b, n) \in SUBSET (0 .. PageBlocks - 1)
      BY <1>4, <2>3 DEF BlockSet
    <3>3. [shm.bits EXCEPT ![r0.page] = r0.seen \cup Block(b, n)] \in [Pages -> SUBSET (0 .. PageBlocks - 1)]
      BY <1>4, <3>1, <3>2
    <3>4. shm' = [shm EXCEPT !.bits = [shm.bits EXCEPT ![r0.page] = r0.seen \cup Block(b, n)]]
      BY <1>12
    <3>5. shm' \in ShmRec /\ shm'.mem = shm.mem /\ shm'.bits = [shm.bits EXCEPT ![r0.page] = r0.seen \cup Block(b, n)]
      BY <1>1, <3>3, <3>4 DEF ShmRec
    <3> QED BY <1>4, <2>7, <3>1, <3>5
  <2>9. \A p \in Pages, x \in BlockSet : InAddr(a, p, x) <=> p = r0.page /\ x \in Block(b, n)
    BY <2>3, <2>4 DEF InAddr, Block, BlockSet
  <2>10. \A p \in Pages, x \in BlockSet : Has(r, p, x) <=> Has(r0, p, x) \/ InAddr(a, p, x)
    BY <1>4, <2>6 DEF Has, HasParam, HasReply, Mallocs
  <2>11. \A p \in Pages, x \in BlockSet : Has(r0, p, x) => x \in shm.bits[p]
    BY <1>3 DEF PoolIInv, BlocksKept, C, BlockSet
  <2>12. \A p \in Pages, x \in BlockSet : InAddr(a, p, x) => x \notin shm.bits[p]
    BY <2>3, <2>7, <2>9
  <2>13. Len(ToWrite(r)) <= a.size
    BY <1>4, <1>7, <2>4, <2>6 DEF WorkerKept, ToWrite
  <2>14. HasParam(r) => Apart(r.param, r.got)
    <3> SUFFICES ASSUME HasParam(r), NEW p \in Pages, NEW x \in BlockSet, InAddr(r.param, p, x), InAddr(r.got, p, x) PROVE FALSE
      BY DEF Apart, BlockSet
    <3>1. HasParam(r0)
      BY <1>4, <2>6 DEF HasParam, Mallocs
    <3>2. Has(r0, p, x)
      BY <2>6, <3>1 DEF Has
    <3> QED BY <2>6, <2>11, <2>12, <3>2
  <2>15. WorkerKept(r, m)
    <3>1. HasParam(r) <=> HasParam(r0)
      BY <1>4, <2>6 DEF HasParam, Mallocs
    <3>2. ~HasReply(r)
      BY <2>6 DEF HasReply
    <3>3. r.reply = NoAddr
      BY <1>4, <2>6 DEF WorkerKept, Mallocs
    <3> QED BY <1>4, <2>4, <2>6, <2>13, <2>14, <3>1, <3>2, <3>3 DEF WorkerKept, Mallocs, NoTask
  <2>16. /\ \A p \in Pages, x \in BlockSet : x \in shm'.bits[p] <=> (x \in shm.bits[p] /\ ~Has(conn[c], p, x)) \/ Has(r, p, x)
         /\ \A p \in Pages, x \in BlockSet : Has(r, p, x) /\ x \in shm.bits[p] => Has(conn[c], p, x)
         /\ \A p \in Pages, x \in BlockSet : shm'.mem[p][x] = shm.mem[p][x] \/ Has(conn[c], p, x)
    BY <1>3, <2>8, <2>9, <2>10, <2>11, <2>12
  <2>17. /\ IsInjective(conn[c].task) /\ DOMAIN jobs = Calls /\ \A j \in Calls : DOMAIN jobs[j] = {"sent", "answers"}
         /\ \A j \in Calls : jobs[j].answers \in {<<>>, <<Failed>>, <<Own(j)>>}
         /\ connPool \in Seq(PoolConns)
    BY WorkerFacts
  <2>18. r.task = conn[c].task /\ ~GaveAnswers(conn[c]) /\ WorkerKept(r, shm'.mem) /\ r.want \in Sizes /\ r.page \in Pages
    BY <1>3, <1>4, <1>5, <2>6, <2>8, <2>15
  <2> QED BY <1>2, <2>2, <2>5, <2>8, <2>16, <2>17, <2>18, WorkerMoves
<1> QED BY <1>9, <1>10, <1>11, <1>12

\* MallocFill: the worker writes into the block that it got.
LEMMA FillKept ==
    ASSUME PoolIInv, NEW c \in PoolConns, MallocFill(c)
    PROVE  PoolIInv'
<1>1. /\ conn[c] \in ConnRec /\ WorkerKept(conn[c], shm.mem) /\ shm \in ShmRec /\ load \in Workloads
      /\ conn[c].pc \in Mallocs => conn[c].want \in Sizes
      /\ Requests(conn[c].task) \in Seq(Nat \X Nat) /\ IsInjective(conn[c].task)
      /\ DOMAIN jobs = Calls /\ (\A j \in Calls : DOMAIN jobs[j] = {"sent", "answers"})
      /\ (\A j \in Calls : jobs[j].answers \in {<<>>, <<Failed>>, <<Own(j)>>})
      /\ connPool \in Seq(PoolConns)
  BY WorkerFacts
<1>2. conn[c].pc = "got" /\ UNCHANGED <<load, queues, manager, connPool, jobs, server>>
  BY DEF MallocFill, ConnAt, C
<1>3. PICK r0, m, a, items, sig : r0 = conn[c] /\ m = shm.mem /\ a = r0.got /\ items = ToWrite(r0) /\ sig = r0.task[1]
  OBVIOUS
<1>4. /\ r0 \in ConnRec /\ WorkerKept(r0, m) /\ r0.pc = "got" /\ r0.want \in Sizes
      /\ r0.page \in Nat /\ a \in AddrRec /\ r0.for \in {"param", "reply"} /\ r0.task \in Seq(Calls) /\ r0.items \in Seq(Nat \X Nat)
      /\ Requests(r0.task) \in Seq(Nat \X Nat)
  BY <1>1, <1>2, <1>3 DEF Mallocs, ConnRec
<1>5. /\ Addr(a) /\ Len(items) <= a.size /\ items \in Seq(Nat \X Nat) /\ r0.reply = NoAddr /\ r0.task # <<>>
      /\ Len(Requests(r0.task)) <= PageBlocks
      /\ r0.for = "reply" => r0.items = Requests(r0.task) /\ Addr(r0.param) /\ Apart(r0.param, a)
  BY <1>3, <1>4 DEF WorkerKept, Mallocs, NoTask, ToWrite, HasParam
<1>6. sig \in Nat
  <2>1. sig \in Calls
    BY <1>3, <1>4, <1>5
  <2> QED BY <1>1, <2>1, CallFacts
<1>7. PICK hint, mem, r :
        /\ mem = Written(a, items, sig)
        /\ shm' = [shm EXCEPT !.hints[r0.want] = hint, !.mem = mem]
        /\ r = IF r0.for = "param" THEN [r0 EXCEPT !.pc = "send", !.param = a] ELSE [r0 EXCEPT !.pc = "freeparam", !.reply = a]
        /\ conn' = [conn EXCEPT ![c] = r] /\ hint \in Nat
  <2>1. shm.hints[r0.want] \in Nat
    BY <1>1, <1>4 DEF ShmRec
  <2>2. PICK at : at = shm.hints[r0.want]
    OBVIOUS
  <2>3. PICK hint : hint = (IF r0.scan = 0
                            THEN IF (r0.full \/ r0.page # r0.start) /\ at = r0.start
                                 THEN r0.page + (IF r0.full THEN 1 ELSE 0) ELSE at
                            ELSE IF r0.full THEN at ELSE Least(at, r0.page))
    OBVIOUS
  <2>4. hint \in Nat
    BY <1>4, <2>1, <2>2, <2>3 DEF Least
  <2>5. /\ shm' = [shm EXCEPT !.hints[r0.want] = hint, !.mem = Written(a, items, sig)]
        /\ conn' = [conn EXCEPT ![c] = IF r0.for = "param" THEN [r0 EXCEPT !.pc = "send", !.param = a]
                                       ELSE [r0 EXCEPT !.pc = "freeparam", !.reply = a]]
    BY <1>3, <2>2, <2>3 DEF MallocFill, SetConn, C, ToWrite, Signature
  <2> QED BY <2>4, <2>5
<1>8. /\ a.page \in Pages /\ a.block \in Nat /\ a.size \in Nat /\ a.size > 0 /\ a.block + a.size <= PageBlocks
      /\ Len(items) \in Nat /\ DOMAIN items = 1 .. Len(items) /\ \A i \in 1 .. Len(items) : items[i] \in Nat \X Nat
  BY <1>4, <1>5 DEF Addr, AddrRec
<1>9. m \in [Pages -> [BlockSet -> [of : Nat \X Nat, sig : Nat]]]
  BY <1>1, <1>3 DEF ShmRec, BlockSet
<1>10. /\ mem \in [Pages -> [BlockSet -> [of : Nat \X Nat, sig : Nat]]]
       /\ \A p \in Pages, b \in BlockSet : mem[p][b] = m[p][b] \/ InAddr(a, p, b)
       /\ Stored(mem, a, items)
  <2> DEFINE new == [b \in BlockSet |-> IF b - a.block + 1 \in 1 .. Len(items)
                                        THEN [of |-> items[b - a.block + 1], sig |-> sig] ELSE m[a.page][b]]
  <2>1. mem = [m EXCEPT ![a.page] = new]
    <3>1. DOMAIN m[a.page] = BlockSet
      BY <1>8, <1>9
    <3>2. mem = [m EXCEPT ![a.page] = [b \in DOMAIN m[a.page] |->
                    IF b - a.block + 1 \in DOMAIN items THEN [of |-> items[b - a.block + 1], sig |-> sig] ELSE m[a.page][b]]]
      BY <1>3, <1>7 DEF Written
    <3> QED BY <1>8, <3>1, <3>2
  <2>2. new \in [BlockSet -> [of : Nat \X Nat, sig : Nat]]
    <3>1. \A i \in 1 .. Len(items) : [of |-> items[i], sig |-> sig] \in [of : Nat \X Nat, sig : Nat]
      BY <1>6, <1>8
    <3>2. \A b \in BlockSet : m[a.page][b] \in [of : Nat \X Nat, sig : Nat]
      BY <1>8, <1>9
    <3> QED BY <3>1, <3>2
  <2>3. \A b \in BlockSet : new[b] = m[a.page][b] \/ InAddr(a, a.page, b)
    <3> SUFFICES ASSUME NEW b \in BlockSet, b - a.block + 1 \in 1 .. Len(items) PROVE InAddr(a, a.page, b)
      OBVIOUS
    <3>1. b \in Int
      BY PoolAssumption DEF BlockSet
    <3>2. a.block <= b /\ b < a.block + a.size
      BY <1>5, <1>8, <3>1
    <3> QED BY <3>2 DEF InAddr
  <2>4. \A i \in 1 .. Len(items) : a.block + i - 1 \in BlockSet /\ new[a.block + i - 1].of = items[i]
    <3> SUFFICES ASSUME NEW i \in 1 .. Len(items) PROVE a.block + i - 1 \in BlockSet /\ new[a.block + i - 1].of = items[i]
      OBVIOUS
    <3>1. PICK x : x = a.block + i - 1
      OBVIOUS
    <3>2. x \in BlockSet /\ x - a.block + 1 = i
      BY <1>5, <1>8, <3>1, PoolAssumption DEF BlockSet
    <3>3. new[x] = [of |-> items[i], sig |-> sig]
      BY <3>2
    <3> QED BY <3>1, <3>2, <3>3
  <2> HIDE DEF new
  <2>5. mem \in [Pages -> [BlockSet -> [of : Nat \X Nat, sig : Nat]]] /\ mem[a.page] = new /\ \A p \in Pages : p # a.page => mem[p] = m[p]
    BY <1>8, <1>9, <2>1, <2>2
  <2>6. Stored(mem, a, items)
    BY <1>5, <1>8, <2>4, <2>5 DEF Stored
  <2> QED BY <2>3, <2>5, <2>6
<1>11. shm' \in ShmRec /\ shm'.bits = shm.bits /\ shm'.mem = mem
  <2>1. PICK hs : hs = [shm.hints EXCEPT ![r0.want] = hint]
    OBVIOUS
  <2>2. hs \in [Sizes -> Nat]
    BY <1>1, <1>4, <1>7, <2>1 DEF ShmRec
  <2>3. shm' = [shm EXCEPT !.hints = hs, !.mem = mem]
    BY <1>7, <2>1
  <2> QED BY <1>1, <1>10, <2>2, <2>3 DEF ShmRec, BlockSet
<1>12. \A p, b : Has(r0, p, b) <=> (r0.for = "reply" /\ InAddr(r0.param, p, b)) \/ InAddr(a, p, b)
  BY <1>3, <1>4 DEF Has, HasParam, HasReply, Mallocs
<1>13. ASSUME r.pc \notin Mallocs, r \in ConnRec, r.task = r0.task, ~GaveAnswers(r0),
              \A p \in Pages, b \in BlockSet : Has(r, p, b) <=> Has(r0, p, b), WorkerKept(r, mem)
       PROVE  PoolIInv'
  <2>1. \A p \in Pages, b \in BlockSet : b \in shm.bits[p] <=> \E d \in PoolConns : Has(conn[d], p, b)
    BY DEF PoolIInv, BlocksKept, C, BlockSet
  <2>2. /\ \A p \in Pages, b \in BlockSet : b \in shm'.bits[p] <=> (b \in shm.bits[p] /\ ~Has(conn[c], p, b)) \/ Has(r, p, b)
        /\ \A p \in Pages, b \in BlockSet : Has(r, p, b) /\ b \in shm.bits[p] => Has(conn[c], p, b)
    BY <1>3, <1>11, <1>13, <2>1
  <2>3. \A p \in Pages, b \in BlockSet : shm'.mem[p][b] = shm.mem[p][b] \/ Has(conn[c], p, b)
    BY <1>3, <1>10, <1>11, <1>12
  <2>4. r.task = conn[c].task /\ ~GaveAnswers(conn[c]) /\ r.pc \notin {"cas", "got"} /\ WorkerKept(r, shm'.mem)
    BY <1>3, <1>11, <1>13 DEF Mallocs
  <2> QED BY <1>1, <1>2, <1>7, <1>11, <1>13, <2>2, <2>3, <2>4, WorkerMoves
<1>14. ~GaveAnswers(r0)
  BY <1>4 DEF GaveAnswers, NoTask
<1>15. CASE r0.for = "param"
  <2>1. r = [r0 EXCEPT !.pc = "send", !.param = a]
    BY <1>7, <1>15
  <2>2. r \in ConnRec
    BY <1>4, <2>1 DEF ConnRec, ConnPcs
  <2>3. r.pc = "send" /\ r.task = r0.task /\ r.param = a /\ r.reply = NoAddr /\ r.for = "param"
    BY <1>4, <1>5, <1>15, <2>1 DEF ConnRec
  <2>4. \A p \in Pages, b \in BlockSet : Has(r, p, b) <=> Has(r0, p, b)
    BY <1>12, <1>15, <2>3 DEF Has, HasParam, HasReply
  <2>5. items = Requests(r.task)
    BY <1>3, <1>15, <2>3 DEF ToWrite
  <2>6. WorkerKept(r, mem)
    BY <1>5, <1>10, <2>3, <2>5 DEF WorkerKept, HasReply, HasParam, Mallocs, NoTask
  <2>7. r.pc \notin Mallocs
    BY <2>3 DEF Mallocs
  <2> QED BY <1>13, <1>14, <2>2, <2>3, <2>4, <2>6, <2>7
<1>16. CASE r0.for = "reply"
  <2>1. r = [r0 EXCEPT !.pc = "freeparam", !.reply = a]
    BY <1>7, <1>16
  <2>2. r \in ConnRec
    BY <1>4, <2>1 DEF ConnRec, ConnPcs
  <2>3. r.pc = "freeparam" /\ r.task = r0.task /\ r.param = r0.param /\ r.reply = a /\ r.for = "reply" /\ r.items = r0.items
    BY <1>4, <1>16, <2>1 DEF ConnRec
  <2>4. a # NoAddr
    BY <1>8 DEF NoAddr
  <2>5. \A p \in Pages, b \in BlockSet : Has(r, p, b) <=> Has(r0, p, b)
    BY <1>12, <1>16, <2>3, <2>4 DEF Has, HasParam, HasReply
  <2>6. items = r.items /\ r.items = Requests(r.task)
    BY <1>3, <1>5, <1>16, <2>3 DEF ToWrite
  <2>7. WorkerKept(r, mem)
    BY <1>5, <1>10, <1>16, <2>3, <2>4, <2>6 DEF WorkerKept, HasReply, HasParam, Mallocs, NoTask
  <2>8. r.pc \notin Mallocs
    BY <2>3 DEF Mallocs
  <2> QED BY <1>13, <1>14, <2>2, <2>3, <2>5, <2>7, <2>8
<1> QED BY <1>4, <1>15, <1>16

\* FreeBits: the bits of a block go together with the worker's claim on it.
LEMMA FreeBitsKept ==
    ASSUME PoolIInv, NEW c \in PoolConns, FreeBits(c)
    PROVE  PoolIInv'
<1>1. /\ conn[c] \in ConnRec /\ WorkerKept(conn[c], shm.mem) /\ shm \in ShmRec
      /\ IsInjective(conn[c].task) /\ DOMAIN jobs = Calls /\ (\A j \in Calls : DOMAIN jobs[j] = {"sent", "answers"})
      /\ (\A j \in Calls : jobs[j].answers \in {<<>>, <<Failed>>, <<Own(j)>>}) /\ connPool \in Seq(PoolConns)
  BY WorkerFacts
<1>2. conn[c].pc \in {"freeparam", "freereply"} /\ UNCHANGED <<load, queues, manager, connPool, jobs, server>>
  BY DEF FreeBits, C
<1>3. PICK r0, m, a, r : /\ r0 = conn[c] /\ m = shm.mem /\ a = (IF r0.pc = "freeparam" THEN r0.param ELSE r0.reply)
                         /\ r = [r0 EXCEPT !.pc = IF r0.pc = "freeparam" THEN "hintparam" ELSE "hintreply"]
  OBVIOUS
<1>4. /\ shm' = [shm EXCEPT !.bits[a.page] = shm.bits[a.page] \ Block(a.block, a.size)]
      /\ conn' = [conn EXCEPT ![c] = r]
  BY <1>3 DEF FreeBits, SetConn, C
<1>5. r0 \in ConnRec /\ WorkerKept(r0, m) /\ r0.pc \in {"freeparam", "freereply"}
  BY <1>1, <1>2, <1>3
<1>6. /\ r \in ConnRec /\ r.pc = (IF r0.pc = "freeparam" THEN "hintparam" ELSE "hintreply")
      /\ r.task = r0.task /\ r.single = r0.single /\ r.reply = r0.reply /\ r.items = r0.items /\ r.param = r0.param
  BY <1>3, <1>5 DEF ConnRec, ConnPcs
<1>7. a \in AddrRec /\ Addr(a)
  BY <1>3, <1>5 DEF WorkerKept, HasParam, ConnRec
<1>8. a.page \in Pages /\ a.block \in Nat /\ a.size \in Nat
  BY <1>7 DEF AddrRec, Addr
<1>9. /\ shm' \in ShmRec /\ shm'.mem = shm.mem
      /\ \A p \in Pages : shm'.bits[p] = IF p = a.page THEN shm.bits[p] \ Block(a.block, a.size) ELSE shm.bits[p]
  <2>1. shm.bits \in [Pages -> SUBSET (0 .. PageBlocks - 1)]
    BY <1>1 DEF ShmRec
  <2>2. PICK bs : bs = [shm.bits EXCEPT ![a.page] = shm.bits[a.page] \ Block(a.block, a.size)]
    OBVIOUS
  <2>3. bs \in [Pages -> SUBSET (0 .. PageBlocks - 1)]
    BY <1>8, <2>1, <2>2
  <2>4. shm' = [shm EXCEPT !.bits = bs]
    BY <1>4, <2>2
  <2>5. shm' \in ShmRec /\ shm'.mem = shm.mem /\ shm'.bits = bs
    BY <1>1, <2>3, <2>4 DEF ShmRec
  <2> QED BY <1>8, <2>1, <2>2, <2>5
<1>10. \A p \in Pages, b \in BlockSet : InAddr(a, p, b) <=> p = a.page /\ b \in Block(a.block, a.size)
  BY <1>8, PoolAssumption DEF InAddr, Block, BlockSet
<1>11. \A p \in Pages, b \in BlockSet : Has(r, p, b) <=> Has(r0, p, b) /\ ~InAddr(a, p, b)
  <2>1. CASE r0.pc = "freeparam"
    <3>1. a = r0.param /\ r.pc = "hintparam"
      BY <1>3, <1>6, <2>1
    <3>2. \A p \in Pages, b \in BlockSet : Has(r0, p, b) <=> InAddr(a, p, b) \/ (r0.reply # NoAddr /\ InAddr(r0.reply, p, b))
      BY <2>1, <3>1 DEF Has, HasParam, HasReply
    <3>3. \A p \in Pages, b \in BlockSet : Has(r, p, b) <=> r0.reply # NoAddr /\ InAddr(r0.reply, p, b)
      BY <1>6, <3>1 DEF Has, HasParam, HasReply, Mallocs
    <3>4. r0.reply # NoAddr => \A p \in Pages, b \in BlockSet : ~(InAddr(a, p, b) /\ InAddr(r0.reply, p, b))
      BY <1>5, <2>1, <3>1 DEF WorkerKept, HasParam, HasReply, Apart, BlockSet
    <3> QED BY <3>2, <3>3, <3>4
  <2>2. CASE r0.pc = "freereply"
    <3>1. a = r0.reply /\ r.pc = "hintreply"
      BY <1>3, <1>6, <2>2
    <3>2. \A p \in Pages, b \in BlockSet : Has(r0, p, b) => InAddr(a, p, b)
      BY <2>2, <3>1 DEF Has, HasParam, HasReply, Mallocs
    <3>3. \A p \in Pages, b \in BlockSet : ~Has(r, p, b)
      BY <3>1 DEF Has, HasParam, HasReply, Mallocs
    <3> QED BY <3>2, <3>3
  <2> QED BY <1>5, <2>1, <2>2
<1>12. \A p \in Pages, b \in BlockSet : (Has(r0, p, b) => b \in shm.bits[p]) /\ (InAddr(a, p, b) => Has(r0, p, b))
  <2>1. \A p \in Pages, b \in BlockSet : Has(r0, p, b) => b \in shm.bits[p]
    BY <1>3 DEF PoolIInv, BlocksKept, C, BlockSet
  <2>2. \A p \in Pages, b \in BlockSet : InAddr(a, p, b) => Has(r0, p, b)
    BY <1>3, <1>5 DEF Has, HasParam, HasReply, WorkerKept
  <2> QED BY <2>1, <2>2
<1>13. /\ \A p \in Pages, b \in BlockSet : b \in shm'.bits[p] <=> (b \in shm.bits[p] /\ ~Has(conn[c], p, b)) \/ Has(r, p, b)
       /\ \A p \in Pages, b \in BlockSet : Has(r, p, b) /\ b \in shm.bits[p] => Has(conn[c], p, b)
       /\ \A p \in Pages, b \in BlockSet : shm'.mem[p][b] = shm.mem[p][b] \/ Has(conn[c], p, b)
  <2>1. \A p \in Pages, b \in BlockSet : b \in shm'.bits[p] <=> b \in shm.bits[p] /\ ~InAddr(a, p, b)
    BY <1>9, <1>10
  <2> QED BY <1>3, <1>9, <1>11, <1>12, <2>1
<1>14. WorkerKept(r, m)
  <2>1. CASE r0.pc = "freeparam"
    BY <1>5, <1>6, <2>1 DEF WorkerKept, HasParam, HasReply, Mallocs, NoTask
  <2>2. CASE r0.pc = "freereply"
    BY <1>5, <1>6, <2>2 DEF WorkerKept, HasParam, HasReply, Mallocs, NoTask
  <2> QED BY <1>5, <2>1, <2>2
<1>15. GaveAnswers(r) \/ (~GaveAnswers(conn[c]) /\ r.task = conn[c].task)
  BY <1>3, <1>5, <1>6 DEF GaveAnswers, NoTask
<1>16. r.pc \notin Mallocs /\ r.pc \notin {"cas", "got"} /\ WorkerKept(r, shm'.mem) /\ IsInjective(r.task)
  BY <1>1, <1>3, <1>6, <1>9, <1>14 DEF Mallocs
<1> QED BY <1>1, <1>2, <1>4, <1>6, <1>9, <1>13, <1>15, <1>16, WorkerMoves

\* FreeHint.
LEMMA FreeHintKept ==
    ASSUME PoolIInv, NEW c \in PoolConns, FreeHint(c)
    PROVE  PoolIInv'
<1>1. conn[c] \in ConnRec /\ WorkerKept(conn[c], shm.mem) /\ shm \in ShmRec
  BY WorkerFacts
<1>2. conn[c].pc \in {"hintparam", "hintreply"} /\ UNCHANGED <<load, queues, manager, connPool, jobs, server>>
  BY DEF FreeHint, C
<1>3. PICK r0, m, a, r : /\ r0 = conn[c] /\ m = shm.mem /\ a = (IF r0.pc = "hintparam" THEN r0.param ELSE r0.reply)
                         /\ r = [r0 EXCEPT !.pc = IF r0.pc = "hintparam" THEN "answer" ELSE "return"]
  OBVIOUS
<1>4. /\ shm' = [shm EXCEPT !.hints[a.size] = Least(shm.hints[a.size], a.page)]
      /\ conn' = [conn EXCEPT ![c] = r]
  BY <1>3 DEF FreeHint, SetConn, C
<1>5. r0 \in ConnRec /\ WorkerKept(r0, m) /\ r0.pc \in {"hintparam", "hintreply"}
  BY <1>1, <1>2, <1>3
<1>6. /\ r \in ConnRec /\ r.pc = (IF r0.pc = "hintparam" THEN "answer" ELSE "return")
      /\ r.task = r0.task /\ r.single = r0.single /\ r.reply = r0.reply /\ r.items = r0.items /\ r.param = r0.param
  BY <1>3, <1>5 DEF ConnRec, ConnPcs
<1>7. a.page \in Nat
  BY <1>3, <1>5 DEF ConnRec, AddrRec
<1>8. shm' \in ShmRec /\ shm'.mem = shm.mem /\ shm'.bits = shm.bits
  <2>1. shm.hints \in [Sizes -> Nat]
    BY <1>1 DEF ShmRec
  <2>2. PICK hs : hs = [shm.hints EXCEPT ![a.size] = Least(shm.hints[a.size], a.page)]
    OBVIOUS
  <2>3. hs \in [Sizes -> Nat]
    BY <1>7, <2>1, <2>2 DEF Least
  <2>4. shm' = [shm EXCEPT !.hints = hs]
    BY <1>4, <2>2
  <2> QED BY <1>1, <2>3, <2>4 DEF ShmRec
<1>9. \A p \in Pages, b \in BlockSet : Has(r, p, b) <=> Has(r0, p, b)
  BY <1>5, <1>6 DEF Has, HasParam, HasReply, Mallocs
<1>10. WorkerKept(r, m)
  <2>1. CASE r0.pc = "hintparam"
    BY <1>5, <1>6, <2>1 DEF WorkerKept, HasParam, HasReply, Mallocs, NoTask
  <2>2. CASE r0.pc = "hintreply"
    BY <1>5, <1>6, <2>2 DEF WorkerKept, HasParam, HasReply, Mallocs, NoTask
  <2> QED BY <1>5, <2>1, <2>2
<1>11. ~GaveAnswers(conn[c]) \/ GaveAnswers(r)
  BY <1>3, <1>5, <1>6 DEF GaveAnswers, NoTask
<1>12. /\ r.pc \notin Mallocs /\ r.pc \notin {"cas", "got"} /\ WorkerKept(r, shm.mem) /\ r.task = conn[c].task
       /\ \A p \in Pages, b \in BlockSet : Has(r, p, b) <=> Has(conn[c], p, b)
  BY <1>3, <1>6, <1>9, <1>10 DEF Mallocs
<1> QED BY <1>2, <1>4, <1>6, <1>8, <1>11, <1>12, WorkerGoesOn

\* What is read from a block is what was stored.
LEMMA ReadIs ==
    ASSUME NEW a, NEW items \in Seq(Nat \X Nat), Stored(shm.mem, a, items)
    PROVE  Of(Read(a, Len(items))) = items
<1>1. Len(items) \in Nat /\ DOMAIN items = 1 .. Len(items)
  OBVIOUS
<1>2. Of(Read(a, Len(items))) = [i \in 1 .. Len(items) |-> shm.mem[a.page][a.block + i - 1].of]
  BY <1>1 DEF Of, Read
<1>3. \A i \in 1 .. Len(items) : shm.mem[a.page][a.block + i - 1].of = items[i]
  BY <1>1 DEF Stored
<1>4. items = [i \in 1 .. Len(items) |-> items[i]]
  BY <1>1
<1> QED BY <1>2, <1>3, <1>4

\* MetaCall: the backend finds the requests of the task.
LEMMA CallKept ==
    ASSUME PoolIInv, NEW c \in PoolConns, MetaCall(c)
    PROVE  PoolIInv' \/ UNCHANGED <<load, queues, manager, connPool, conn, shm, jobs>>
<1>1. conn[c] \in ConnRec /\ WorkerKept(conn[c], shm.mem) /\ shm \in ShmRec /\ Requests(conn[c].task) \in Seq(Nat \X Nat)
  BY WorkerFacts
<1>2. conn[c].pc = "send" /\ UNCHANGED <<load, queues, manager, connPool, jobs>>
  BY DEF MetaCall, ConnAt, C
<1>3. PICK r0, m, items : r0 = conn[c] /\ m = shm.mem /\ items = Requests(r0.task)
  OBVIOUS
<1>4. r0 \in ConnRec /\ WorkerKept(r0, m) /\ r0.pc = "send" /\ items \in Seq(Nat \X Nat) /\ Len(items) \in Nat
  BY <1>1, <1>2, <1>3
<1>5. /\ Addr(r0.param) /\ r0.reply = NoAddr /\ Len(items) <= PageBlocks /\ Stored(m, r0.param, items)
      /\ r0.task # <<>> /\ ~GaveAnswers(r0)
  BY <1>3, <1>4 DEF WorkerKept, HasParam, NoTask, GaveAnswers
<1>6. Of(Read(r0.param, Len(items))) = items
  BY <1>3, <1>4, <1>5, ReadIs
<1>7. \/ UNCHANGED <<conn, shm>>
      \/ /\ shm' = shm
         /\ SetConn(c, IF Plain(r0) THEN [r0 EXCEPT !.pc = "freeparam", !.items = items]
                       ELSE Malloc([r0 EXCEPT !.items = items], Len(items), "reply"))
      \/ shm' = shm /\ SetConn(c, [r0 EXCEPT !.pc = "freeparam", !.items = Failed])
  BY <1>3, <1>6 DEF MetaCall, Dies, C
<1>8. ASSUME NEW r \in ConnRec, conn' = [conn EXCEPT ![c] = r], shm' = shm, r.pc \in Mallocs => r.want \in Sizes,
             r.pc \in {"cas", "got"} => r.page \in Pages, \A p \in Pages, b \in BlockSet : Has(r, p, b) <=> Has(r0, p, b),
             WorkerKept(r, m), r.task = r0.task
      PROVE  PoolIInv'
  BY <1>1, <1>2, <1>3, <1>5, <1>8, WorkerGoesOn
<1>9. ASSUME NEW is \in {Failed, items}, shm' = shm, SetConn(c, [r0 EXCEPT !.pc = "freeparam", !.items = is]) PROVE PoolIInv'
  <2>1. PICK r : r = [r0 EXCEPT !.pc = "freeparam", !.items = is]
    OBVIOUS
  <2>2. is \in Seq(Nat \X Nat)
    <3>1. Failed \in Seq(Nat \X Nat)
      BY DEF Failed
    <3> QED BY <1>4, <3>1
  <2>3. r \in ConnRec
    BY <1>4, <2>1, <2>2 DEF ConnRec, ConnPcs
  <2>4. r.pc = "freeparam" /\ r.items = is /\ r.param = r0.param /\ r.reply = NoAddr /\ r.task = r0.task
    BY <1>4, <1>5, <2>1 DEF ConnRec
  <2>5. \A p \in Pages, b \in BlockSet : Has(r, p, b) <=> Has(r0, p, b)
    BY <1>4, <1>5, <2>4 DEF Has, HasParam, HasReply
  <2>6. WorkerKept(r, m)
    BY <1>3, <1>5, <2>4 DEF WorkerKept, HasReply, Mallocs, NoTask
  <2>7. r.pc \notin Mallocs /\ r.pc \notin {"cas", "got"} /\ conn' = [conn EXCEPT ![c] = r]
    BY <1>9, <2>1, <2>4 DEF Mallocs, SetConn
  <2> QED BY <1>8, <1>9, <2>3, <2>4, <2>5, <2>6, <2>7
<1>10. ASSUME shm' = shm, SetConn(c, Malloc([r0 EXCEPT !.items = items], Len(items), "reply")) PROVE PoolIInv'
  <2>1. PICK r1, n : r1 = [r0 EXCEPT !.items = items] /\ n = Len(items)
    OBVIOUS
  <2>2. r1 \in ConnRec /\ n \in 0 .. PageBlocks
    <3>1. r1 \in ConnRec
      BY <1>4, <2>1 DEF ConnRec
    <3>2. n \in 0 .. PageBlocks
      BY <1>4, <1>5, <2>1, PoolAssumption
    <3> QED BY <3>1, <3>2
  <2>3. r1.task = r0.task /\ r1.items = items /\ r1.param = r0.param /\ r1.reply = NoAddr
    BY <1>4, <1>5, <2>1 DEF ConnRec
  <2>4. PICK r : r = Malloc(r1, n, "reply")
    OBVIOUS
  <2>5. /\ r \in ConnRec /\ r.pc = "load" /\ r.for = "reply" /\ r.want \in Sizes /\ n <= r.want
        /\ r.task = r0.task /\ r.items = items /\ r.param = r0.param /\ r.reply = NoAddr
    BY <1>1, <2>2, <2>3, <2>4, MallocIs
  <2>6. \A p \in Pages, b \in BlockSet : Has(r, p, b) <=> Has(r0, p, b)
    BY <1>4, <1>5, <2>5 DEF Has, HasParam, HasReply, Mallocs
  <2>7. WorkerKept(r, m)
    BY <1>3, <1>5, <2>1, <2>5 DEF WorkerKept, HasParam, HasReply, Mallocs, NoTask, ToWrite
  <2>8. conn' = [conn EXCEPT ![c] = r] /\ r.pc \notin {"cas", "got"}
    BY <1>10, <2>1, <2>4, <2>5 DEF SetConn
  <2> QED BY <1>8, <1>10, <2>5, <2>6, <2>7, <2>8
<1> QED BY <1>2, <1>7, <1>9, <1>10

\* The answers of a task: each job that waits with worker c gets an error or its own replies.
LEMMA AnswerKeeps ==
    ASSUME PoolIInv, NEW c \in PoolConns, NEW task, task = conn[c].task, ~GaveAnswers(conn[c]),
           NEW items \in {Failed, Requests(task)}, Answer(task, items)
    PROVE  /\ DOMAIN jobs' = Calls /\ \A j \in Calls : DOMAIN jobs'[j] = {"sent", "answers"}
           /\ \A j \in Calls : jobs'[j] = jobs[j] \/ (InConn(c, j) /\ jobs'[j].sent)
           /\ \A j \in Calls : jobs'[j].answers \in {<<>>, <<Failed>>, <<Own(j)>>}
<1>1. /\ conn[c] \in ConnRec /\ load \in Workloads /\ DOMAIN jobs = Calls
      /\ (\A j \in Calls : DOMAIN jobs[j] = {"sent", "answers"})
      /\ (\A j \in Calls : jobs[j].answers \in {<<>>, <<Failed>>, <<Own(j)>>})
  BY WorkerFacts
<1>2. task \in Seq(Calls)
  BY <1>1 DEF ConnRec
<1> DEFINE got(j) == IF items = Failed THEN Failed ELSE Share(task, CHOOSE k \in DOMAIN task : task[k] = j, items)
<1>3. jobs' = [j \in Calls |-> IF j \notin ToSet(task) THEN jobs[j] ELSE [jobs[j] EXCEPT !.answers = Append(@, got(j))]]
  BY DEF Answer
<1>4. ASSUME NEW j \in Calls, j \in ToSet(task)
      PROVE  /\ InConn(c, j) /\ DOMAIN jobs'[j] = {"sent", "answers"} /\ jobs'[j].sent
             /\ jobs'[j].answers \in {<<Failed>>, <<Own(j)>>}
  <2>1. InConn(c, j)
    BY <1>4 DEF InConn, C
  <2>2. jobs[j].sent /\ jobs[j].answers = <<>>
    BY <2>1 DEF PoolIInv, JobsKept, JobPlace, JobWaits
  <2>3. got(j) \in {Failed, Own(j)}
    <3>1. CASE items = Failed
      BY <3>1
    <3>2. CASE items # Failed
      <4>1. PICK k : k = CHOOSE i \in DOMAIN task : task[i] = j
        OBVIOUS
      <4>2. \E i \in DOMAIN task : task[i] = j
        BY <1>4 DEF ToSet
      <4>3. k \in DOMAIN task /\ task[k] = j
        BY <4>1, <4>2
      <4>4. k \in 1 .. Len(task)
        BY <1>2, <4>3
      <4>5. Share(task, k, Requests(task)) = Own(task[k])
        BY <1>1, <1>2, <4>4, ShareIsOwn
      <4> QED BY <3>2, <4>1, <4>3, <4>5
    <3> QED BY <3>1, <3>2
  <2> HIDE DEF got
  <2>4. jobs'[j] = [jobs[j] EXCEPT !.answers = Append(<<>>, got(j))]
    BY <1>3, <1>4, <2>2
  <2>5. Append(<<>>, got(j)) = <<got(j)>>
    OBVIOUS
  <2>6. DOMAIN jobs'[j] = {"sent", "answers"} /\ jobs'[j].sent = jobs[j].sent /\ jobs'[j].answers = <<got(j)>>
    BY <1>1, <2>4, <2>5
  <2> QED BY <2>1, <2>2, <2>3, <2>6
<1>5. \A j \in Calls : j \notin ToSet(task) => jobs'[j] = jobs[j]
  BY <1>3
<1>6. DOMAIN jobs' = Calls
  BY <1>3
<1> QED BY <1>1, <1>4, <1>5, <1>6

\* ProcessResponse: the worker reads the replies that the backend wrote.
LEMMA ResponseKept ==
    ASSUME PoolIInv, NEW c \in PoolConns, ProcessResponse(c)
    PROVE  PoolIInv' \/ UNCHANGED <<load, queues, manager, connPool, conn, shm, jobs>>
<1>1. /\ conn[c] \in ConnRec /\ WorkerKept(conn[c], shm.mem) /\ shm \in ShmRec
      /\ IsInjective(conn[c].task) /\ DOMAIN jobs = Calls /\ (\A j \in Calls : DOMAIN jobs[j] = {"sent", "answers"})
      /\ (\A j \in Calls : jobs[j].answers \in {<<>>, <<Failed>>, <<Own(j)>>}) /\ connPool \in Seq(PoolConns)
  BY WorkerFacts
<1>2. conn[c].pc = "answer" /\ UNCHANGED <<load, queues, manager, connPool>>
  BY DEF ProcessResponse, ConnAt, C
<1>3. PICK r0, m, items, r :
        /\ r0 = conn[c] /\ m = shm.mem
        /\ items = (IF r0.reply = NoAddr THEN r0.items ELSE Of(Read(r0.reply, Len(r0.items))))
        /\ r = [r0 EXCEPT !.items = items, !.pc = IF r0.reply = NoAddr THEN "return" ELSE "freereply"]
  OBVIOUS
<1>4. r0 \in ConnRec /\ WorkerKept(r0, m) /\ r0.pc = "answer" /\ r0.items \in Seq(Nat \X Nat) /\ r0.single \in BOOLEAN
  BY <1>1, <1>2, <1>3 DEF ConnRec
<1>5. items = r0.items
  <2>1. CASE r0.reply = NoAddr
    BY <1>3, <2>1
  <2>2. CASE r0.reply # NoAddr
    <3>1. Stored(m, r0.reply, r0.items)
      BY <1>4, <2>2 DEF WorkerKept
    <3> QED BY <1>3, <1>4, <2>2, <3>1, ReadIs
  <2> QED BY <2>1, <2>2
<1>6. items \in {Failed, Requests(r0.task)} /\ r0.task # <<>>
  BY <1>4, <1>5 DEF WorkerKept, NoTask
<1>7. \/ UNCHANGED <<conn, shm, jobs>>
      \/ r0.single /\ UNCHANGED <<jobs, shm>> /\ conn' = [conn EXCEPT ![c] = r]
      \/ ~r0.single /\ Answer(r0.task, items) /\ conn' = [conn EXCEPT ![c] = r] /\ shm' = shm
  BY <1>3 DEF ProcessResponse, Dies, SetConn, C
<1>8. /\ r \in ConnRec /\ r.pc = (IF r0.reply = NoAddr THEN "return" ELSE "freereply")
      /\ r.task = r0.task /\ r.single = r0.single /\ r.reply = r0.reply /\ r.items = items /\ r.param = r0.param
  <2>1. PICK pc : pc = IF r0.reply = NoAddr THEN "return" ELSE "freereply"
    OBVIOUS
  <2>2. pc \in {"return", "freereply"} /\ r = [r0 EXCEPT !.items = items, !.pc = pc] /\ items \in Seq(Nat \X Nat)
    BY <1>3, <1>4, <1>5, <2>1
  <2>3. r \in ConnRec
    BY <1>4, <2>2 DEF ConnRec, ConnPcs
  <2>4. r.pc = pc /\ r.task = r0.task /\ r.single = r0.single /\ r.reply = r0.reply /\ r.items = items /\ r.param = r0.param
    BY <1>4, <2>2 DEF ConnRec
  <2> QED BY <2>1, <2>3, <2>4
<1>9. \A p \in Pages, b \in BlockSet : Has(r, p, b) <=> Has(r0, p, b)
  BY <1>4, <1>8 DEF Has, HasParam, HasReply, Mallocs
<1>10. WorkerKept(r, m)
  <2>1. CASE r0.reply = NoAddr
    BY <1>4, <1>6, <1>8, <2>1 DEF WorkerKept, HasParam, HasReply, Mallocs, NoTask
  <2>2. CASE r0.reply # NoAddr
    BY <1>4, <1>6, <1>8, <2>2 DEF WorkerKept, HasParam, HasReply, Mallocs, NoTask
  <2> QED BY <2>1, <2>2
<1>11. ~GaveAnswers(r0)
  BY <1>4 DEF GaveAnswers, NoTask
<1>12. /\ r.pc \notin Mallocs /\ r.pc \notin {"cas", "got"} /\ WorkerKept(r, shm.mem) /\ r.task = conn[c].task /\ ~GaveAnswers(conn[c])
       /\ \A p \in Pages, b \in BlockSet : Has(r, p, b) <=> Has(conn[c], p, b)
  BY <1>3, <1>8, <1>9, <1>10, <1>11 DEF Mallocs
<1>13. CASE UNCHANGED <<conn, shm, jobs>>
  BY <1>2, <1>13
<1>14. CASE r0.single /\ UNCHANGED <<jobs, shm>> /\ conn' = [conn EXCEPT ![c] = r]
  BY <1>1, <1>2, <1>8, <1>12, <1>14, WorkerGoesOn
<1>15. CASE ~r0.single /\ Answer(r0.task, items) /\ conn' = [conn EXCEPT ![c] = r] /\ shm' = shm
  <2>1. GaveAnswers(r)
    BY <1>8, <1>15 DEF GaveAnswers
  <2>2. PICK task : task = r0.task
    OBVIOUS
  <2>3. task = conn[c].task /\ Answer(task, items) /\ items \in {Failed, Requests(task)}
    BY <1>3, <1>6, <1>15, <2>2
  <2>4. /\ DOMAIN jobs' = Calls /\ \A j \in Calls : DOMAIN jobs'[j] = {"sent", "answers"}
        /\ \A j \in Calls : jobs'[j] = jobs[j] \/ (InConn(c, j) /\ jobs'[j].sent)
        /\ \A j \in Calls : jobs'[j].answers \in {<<>>, <<Failed>>, <<Own(j)>>}
    BY <1>12, <2>3, AnswerKeeps
  <2>5. \A p \in Pages, b \in BlockSet : b \in shm.bits[p] <=> \E d \in PoolConns : Has(conn[d], p, b)
    BY DEF PoolIInv, BlocksKept, C, BlockSet
  <2>6. \A p \in Pages, b \in BlockSet : b \in shm'.bits[p] <=> (b \in shm.bits[p] /\ ~Has(conn[c], p, b)) \/ Has(r, p, b)
    BY <1>12, <1>15, <2>5
  <2>7. /\ \A p \in Pages, b \in BlockSet : Has(r, p, b) /\ b \in shm.bits[p] => Has(conn[c], p, b)
        /\ \A p \in Pages, b \in BlockSet : shm'.mem[p][b] = shm.mem[p][b] \/ Has(conn[c], p, b)
    BY <1>12, <1>15
  <2>8. \A j \in Calls : jobs'[j] = jobs[j] \/ (InConn(c, j) /\ GaveAnswers(r) /\ jobs'[j].sent)
    BY <2>1, <2>4
  <2>9. shm' \in ShmRec /\ WorkerKept(r, shm'.mem) /\ IsInjective(r.task) /\ connPool' \in Seq(PoolConns) /\ conn' = [conn EXCEPT ![c] = r]
    BY <1>1, <1>2, <1>12, <1>15
  <2> QED BY <1>2, <1>8, <1>12, <2>1, <2>4, <2>6, <2>7, <2>8, <2>9, WorkerMoves
<1> QED BY <1>7, <1>13, <1>14, <1>15

\* A worker without a task has nothing.
LEMMA NoTaskKept ==
    ASSUME NEW pc \in NoTask, NEW r, r = [NoConn EXCEPT !.pc = pc], NEW m
    PROVE  /\ r \in ConnRec /\ r.pc = pc /\ r.task = <<>> /\ WorkerKept(r, m) /\ GaveAnswers(r) /\ IsInjective(r.task)
           /\ \A p, b : ~Has(r, p, b)
<1>1. NoAddr \in AddrRec
  BY DEF NoAddr, AddrRec
<1>2. <<>> \in Seq(Calls) /\ <<>> \in Seq(Nat \X Nat) /\ {} \in SUBSET (0 .. PageBlocks - 1)
  OBVIOUS
<1>3. r \in ConnRec
  <2>1. pc \in ConnPcs /\ "idle" \in ConnPcs
    BY DEF NoTask, ConnPcs
  <2>2. NoConn \in ConnRec
    BY <1>1, <1>2, <2>1 DEF NoConn, ConnRec
  <2> QED BY <2>1, <2>2 DEF ConnRec
<1>4. r.pc = pc /\ r.task = <<>> /\ r.reply = NoAddr
  BY DEF NoConn
<1>5. IsInjective(r.task)
  BY <1>4 DEF IsInjective
<1>6. r.pc \notin Mallocs \cup {"start", "send", "freeparam", "hintparam", "answer", "freereply", "hintreply", "return"}
  BY <1>4 DEF NoTask, Mallocs
<1>7. ~HasParam(r) /\ ~HasReply(r) /\ r.pc # "got"
  BY <1>6 DEF HasParam, HasReply, Mallocs
<1>8. WorkerKept(r, m)
  BY <1>4, <1>6, <1>7 DEF WorkerKept, Mallocs
<1>9. GaveAnswers(r)
  BY <1>4 DEF GaveAnswers
<1>10. \A p, b : ~Has(r, p, b)
  BY <1>7 DEF Has
<1> QED BY <1>3, <1>4, <1>5, <1>8, <1>9, <1>10

\* WorkerFinishNotify: the worker has no block left.
LEMMA FinishKept ==
    ASSUME PoolIInv, NEW c \in PoolConns, WorkerFinishNotify(c)
    PROVE  PoolIInv'
<1>1. /\ conn[c] \in ConnRec /\ WorkerKept(conn[c], shm.mem) /\ shm \in ShmRec
      /\ IsInjective(conn[c].task) /\ DOMAIN jobs = Calls /\ (\A j \in Calls : DOMAIN jobs[j] = {"sent", "answers"})
      /\ (\A j \in Calls : jobs[j].answers \in {<<>>, <<Failed>>, <<Own(j)>>}) /\ connPool \in Seq(PoolConns)
  BY WorkerFacts
<1>2. conn[c].pc = "return" /\ UNCHANGED <<load, queues, manager, shm>> /\ connPool' = Append(connPool, c)
  BY DEF WorkerFinishNotify, ConnAt, C
<1>3. PICK r0, pc, r : r0 = conn[c] /\ pc = (IF server.term = "stopping" THEN "ended" ELSE "idle") /\ r = [NoConn EXCEPT !.pc = pc]
  OBVIOUS
<1>4. conn' = [conn EXCEPT ![c] = r] /\ (IF r0.single THEN Answer(r0.task, r0.items) ELSE jobs' = jobs)
  BY <1>3 DEF WorkerFinishNotify, SetConn, C
<1>5. pc \in NoTask
  BY <1>3 DEF NoTask
<1>6. /\ r \in ConnRec /\ r.pc = pc /\ WorkerKept(r, shm'.mem) /\ GaveAnswers(r) /\ IsInjective(r.task)
      /\ \A p, b : ~Has(r, p, b)
  <2>1. PICK m : m = shm'.mem
    OBVIOUS
  <2> QED BY <1>3, <1>5, <2>1, NoTaskKept
<1>7. \A p, b : ~Has(conn[c], p, b)
  BY <1>2 DEF Has, HasParam, HasReply, Mallocs
<1>8. /\ DOMAIN jobs' = Calls /\ (\A j \in Calls : DOMAIN jobs'[j] = {"sent", "answers"})
      /\ (\A j \in Calls : jobs'[j] = jobs[j] \/ (InConn(c, j) /\ jobs'[j].sent))
      /\ (\A j \in Calls : jobs'[j].answers \in {<<>>, <<Failed>>, <<Own(j)>>})
  <2>1. CASE ~r0.single
    BY <1>1, <1>4, <2>1
  <2>2. CASE r0.single
    <3>1. PICK task, items : task = r0.task /\ items = r0.items
      OBVIOUS
    <3>2. task = conn[c].task /\ Answer(task, items) /\ items \in {Failed, Requests(task)}
      BY <1>1, <1>2, <1>3, <1>4, <2>2, <3>1 DEF WorkerKept
    <3>3. ~GaveAnswers(conn[c])
      BY <1>2, <1>3, <2>2 DEF GaveAnswers, NoTask
    <3> QED BY <3>2, <3>3, AnswerKeeps
  <2> QED BY <2>1, <2>2
<1>9. /\ \A p \in Pages, b \in BlockSet : b \in shm'.bits[p] <=> (b \in shm.bits[p] /\ ~Has(conn[c], p, b)) \/ Has(r, p, b)
      /\ \A p \in Pages, b \in BlockSet : Has(r, p, b) /\ b \in shm.bits[p] => Has(conn[c], p, b)
      /\ \A p \in Pages, b \in BlockSet : shm'.mem[p][b] = shm.mem[p][b] \/ Has(conn[c], p, b)
  BY <1>2, <1>6, <1>7
<1>10. shm' \in ShmRec /\ connPool' \in Seq(PoolConns) /\ r.pc \notin Mallocs /\ r.pc \notin {"cas", "got"}
  BY <1>1, <1>2, <1>5, <1>6 DEF NoTask, Mallocs
<1>11. \A j \in Calls : jobs'[j] = jobs[j] \/ (InConn(c, j) /\ GaveAnswers(r) /\ jobs'[j].sent)
  BY <1>6, <1>8
<1> QED BY <1>2, <1>4, <1>6, <1>8, <1>9, <1>10, <1>11, WorkerMoves

\* A step of the manager or of a caller: the workers' blocks stay theirs.
LEMMA ManagerMoves ==
    ASSUME PoolIInv, load' = load, shm' = shm, JobsKept', AnswersAreOwn',
           queues' \in [DOMAIN QueueNames -> Seq(Calls)],
           manager' \in [at : Nat, tasks : Seq([jobs : Seq(Calls) \ {<<>>}, single : BOOLEAN])],
           connPool' \in Seq(PoolConns), conn' \in [PoolConns -> ConnRec],
           DOMAIN jobs' = Calls, \A j \in Calls : DOMAIN jobs'[j] = {"sent", "answers"},
           \A d \in PoolConns : conn'[d].pc \in Mallocs => conn'[d].want \in Sizes,
           \A d \in PoolConns : conn'[d].pc \in {"cas", "got"} => conn'[d].page \in Pages,
           \A d \in PoolConns, p \in Pages, b \in BlockSet : Has(conn'[d], p, b) <=> Has(conn[d], p, b),
           \A d \in PoolConns : WorkerKept(conn'[d], shm.mem)
    PROVE  PoolIInv'
<1>1. Calls' = Calls /\ Pages' = Pages
  BY LoadStays
<1>2. ConnRec' = ConnRec /\ ShmRec' = ShmRec
  BY <1>1 DEF ConnRec, ShmRec, AddrRec
<1>3. load \in Workloads /\ shm \in ShmRec
  BY DEF PoolIInv, PoolTyped
<1>4. PoolTyped'
  BY <1>1, <1>2, <1>3 DEF PoolTyped, C
<1>5. BlocksKept'
  <2>1. /\ \A p \in Pages, b \in BlockSet : b \in shm.bits[p] <=> \E d \in PoolConns : Has(conn[d], p, b)
        /\ \A d, e \in PoolConns : \A p \in Pages, b \in BlockSet : Has(conn[d], p, b) /\ Has(conn[e], p, b) => d = e
    BY DEF PoolIInv, BlocksKept, C, BlockSet
  <2>2. /\ \A p \in Pages, b \in BlockSet : b \in shm'.bits[p] <=> \E d \in PoolConns : Has(conn'[d], p, b)
        /\ \A d, e \in PoolConns : \A p \in Pages, b \in BlockSet : Has(conn'[d], p, b) /\ Has(conn'[e], p, b) => d = e
    BY <2>1
  <2>3. \A d \in PoolConns : C(d)' = conn'[d]
    BY DEF C
  <2> QED BY <1>1, <2>2, <2>3 DEF BlocksKept, BlockSet, C, Has, HasParam, HasReply, InAddr
<1>6. \A d \in PoolConns : WorkerKept(C(d), shm.mem)'
  <2> SUFFICES ASSUME NEW d \in PoolConns PROVE WorkerKept(C(d), shm.mem)'
    OBVIOUS
  <2>1. PICK r, m : r = conn'[d] /\ m = shm'.mem
    OBVIOUS
  <2>2. WorkerKept(r, m)
    BY <2>1
  <2>3. WorkerKept(r, m)'
    BY <2>2, SameClaim
  <2> QED BY <2>1, <2>3 DEF C, WorkerKept, ToWrite, HasParam, HasReply, Addr, Apart, Stored, InAddr
<1> QED BY <1>4, <1>5, <1>6 DEF PoolIInv

\* What a step of the manager finds.
LEMMA ManagerFacts ==
    ASSUME PoolIInv
    PROVE  /\ PoolTyped /\ JobsKept /\ AnswersAreOwn /\ load \in Workloads
           /\ queues \in [DOMAIN QueueNames -> Seq(Calls)]
           /\ manager \in [at : Nat, tasks : Seq([jobs : Seq(Calls) \ {<<>>}, single : BOOLEAN])]
           /\ connPool \in Seq(PoolConns) /\ conn \in [PoolConns -> ConnRec] /\ DOMAIN jobs = Calls
           /\ \A j \in Calls : DOMAIN jobs[j] = {"sent", "answers"}
           /\ \A d \in PoolConns : conn[d].pc \in Mallocs => conn[d].want \in Sizes
           /\ \A d \in PoolConns : conn[d].pc \in {"cas", "got"} => conn[d].page \in Pages
           /\ \A d \in PoolConns : WorkerKept(conn[d], shm.mem)
<1>1. PoolTyped /\ JobsKept /\ AnswersAreOwn /\ \A d \in PoolConns : WorkerKept(conn[d], shm.mem)
  BY DEF PoolIInv, C
<1> QED BY <1>1 DEF PoolTyped, C

\* DispatchMetaServiceJob.
LEMMA DispatchKept ==
    ASSUME PoolIInv, NEW j \in Calls, DispatchMetaServiceJob(j)
    PROVE  PoolIInv'
<1>1. UNCHANGED <<load, manager, connPool, conn, shm>> /\ jobs' = [jobs EXCEPT ![j].sent = TRUE]
  BY DEF DispatchMetaServiceJob
<1>2. PoolTyped /\ JobsKept /\ AnswersAreOwn /\ DOMAIN jobs = Calls /\ \A i \in Calls : DOMAIN jobs[i] = {"sent", "answers"}
  BY ManagerFacts
<1>3. JobsKept' /\ queues' \in [DOMAIN QueueNames -> Seq(Calls)]
  BY <1>2, DispatchJobs
<1>4. /\ DOMAIN jobs' = Calls /\ \A i \in Calls : DOMAIN jobs'[i] = {"sent", "answers"}
      /\ \A i \in Calls : jobs'[i].answers = jobs[i].answers
  BY <1>1, <1>2
<1>5. Calls' = Calls /\ \A i : Own(i)' = Own(i)
  BY <1>1, LoadStays
<1>6. AnswersAreOwn'
  BY <1>2, <1>4, <1>5 DEF AnswersAreOwn, Failed
<1> QED BY <1>1, <1>3, <1>4, <1>6, ManagerFacts, ManagerMoves

\* DequeueExec.
LEMMA DequeueKept ==
    ASSUME PoolIInv, DequeueExec
    PROVE  PoolIInv'
<1>1. UNCHANGED <<load, connPool, conn, shm, jobs>>
  BY DEF DequeueExec
<1>2. PoolTyped /\ JobsKept /\ AnswersAreOwn
  BY ManagerFacts
<1>3. /\ JobsKept' /\ queues' \in [DOMAIN QueueNames -> Seq(Calls)]
      /\ manager' \in [at : Nat, tasks : Seq([jobs : Seq(Calls) \ {<<>>}, single : BOOLEAN])]
  BY <1>2, DequeueJobs
<1>4. Calls' = Calls /\ \A i : Own(i)' = Own(i)
  BY <1>1, LoadStays
<1>5. AnswersAreOwn'
  BY <1>1, <1>2, <1>4 DEF AnswersAreOwn, Failed
<1> QED BY <1>1, <1>3, <1>5, ManagerFacts, ManagerMoves

\* GetPGConnection: an idle worker has no block, and gets a task.
LEMMA GetConnKept ==
    ASSUME PoolIInv, GetPGConnection
    PROVE  PoolIInv'
<1>1. UNCHANGED <<load, queues, shm, jobs>>
  BY DEF GetPGConnection
<1>2. PoolTyped /\ JobsKept /\ AnswersAreOwn /\ conn \in [PoolConns -> ConnRec]
  BY ManagerFacts
<1>3. /\ JobsKept' /\ manager' \in [at : Nat, tasks : Seq([jobs : Seq(Calls) \ {<<>>}, single : BOOLEAN])]
      /\ connPool' \in Seq(PoolConns)
  BY <1>2, GetConnJobs
<1>4. Calls' = Calls /\ \A i : Own(i)' = Own(i)
  BY <1>1, LoadStays
<1>5. AnswersAreOwn'
  BY <1>1, <1>2, <1>4 DEF AnswersAreOwn, Failed
<1>6. CASE conn' = conn
  BY <1>1, <1>3, <1>5, <1>6, ManagerFacts, ManagerMoves
<1>7. CASE conn' # conn
  <2>1. PICK c \in PoolConns, t \in [jobs : Seq(Calls) \ {<<>>}, single : BOOLEAN] :
          C(c).pc = "idle" /\ conn' = [conn EXCEPT ![c] = [NoConn EXCEPT !.pc = "start", !.task = t.jobs, !.single = t.single]]
    BY <1>2, <1>7, GetConnJobs
  <2>2. PICK i, r : i = [NoConn EXCEPT !.pc = "idle"] /\ r = [i EXCEPT !.pc = "start", !.task = t.jobs, !.single = t.single]
    OBVIOUS
  <2>3. i = NoConn /\ "idle" \in NoTask
    BY <2>2 DEF NoConn, NoTask
  <2>4. i \in ConnRec
    BY <2>2, <2>3, NoTaskKept
  <2>5. t.jobs \in Seq(Calls) /\ t.jobs # <<>> /\ t.single \in BOOLEAN /\ "start" \in ConnPcs
    BY DEF ConnPcs
  <2>6. r \in ConnRec /\ r.pc = "start" /\ r.task = t.jobs /\ r.reply = i.reply
    BY <2>2, <2>4, <2>5 DEF ConnRec
  <2>7. r.reply = NoAddr
    BY <2>3, <2>6 DEF NoConn
  <2>8. /\ conn' \in [PoolConns -> ConnRec] /\ conn'[c] = r
        /\ \A d \in PoolConns : d # c => conn'[d] = conn[d]
    BY <1>2, <2>1, <2>2, <2>3, <2>6
  <2>9. \A p, b : ~Has(r, p, b)
    BY <2>6 DEF Has, HasParam, HasReply, Mallocs
  <2>10. \A p, b : ~Has(conn[c], p, b)
    BY <2>1 DEF Has, HasParam, HasReply, Mallocs, C
  <2>11. WorkerKept(r, shm.mem)
    BY <2>5, <2>6, <2>7 DEF WorkerKept, HasParam, HasReply, Mallocs, NoTask
  <2>12. r.pc \notin Mallocs /\ r.pc \notin {"cas", "got"}
    BY <2>6 DEF Mallocs
  <2>13. /\ \A d \in PoolConns : conn'[d].pc \in Mallocs => conn'[d].want \in Sizes
         /\ \A d \in PoolConns : conn'[d].pc \in {"cas", "got"} => conn'[d].page \in Pages
         /\ \A d \in PoolConns : WorkerKept(conn'[d], shm.mem)
    BY <2>8, <2>11, <2>12, ManagerFacts
  <2>14. \A d \in PoolConns, p \in Pages, b \in BlockSet : Has(conn'[d], p, b) <=> Has(conn[d], p, b)
    BY <2>8, <2>9, <2>10
  <2> QED BY <1>1, <1>3, <1>5, <2>8, <2>13, <2>14, ManagerFacts, ManagerMoves
<1> QED BY <1>6, <1>7

\* A step that changes no more than the state of the process.
LEMMA ServerMoves ==
    ASSUME PoolIInv, UNCHANGED <<load, queues, manager, connPool, conn, shm, jobs>>
    PROVE  PoolIInv'
<1>1. PoolTyped /\ JobsKept /\ AnswersAreOwn
  BY ManagerFacts
<1>2. Calls' = Calls /\ \A i : Own(i)' = Own(i)
  BY LoadStays
<1>3. AnswersAreOwn'
  BY <1>1, <1>2 DEF AnswersAreOwn, Failed
<1>4. JobsKept'
  <2>1. \A i, j : InQueue(i, j)' = InQueue(i, j) /\ InTask(i, j)' = InTask(i, j) /\ InConn(i, j)' = InConn(i, j)
    BY DEF InQueue, InTask, InConn, GaveAnswers, C
  <2>2. \A j : JobPlace(j) => JobPlace(j)'
    BY <2>1 DEF JobPlace, JobWaits
  <2> QED BY <1>1, <1>2, <2>2 DEF JobsKept, C
<1> QED BY <1>3, <1>4, ManagerFacts, ManagerMoves

\* Before the first call nothing is taken, and nobody has a task.
LEMMA PoolStarts == PoolInit => PoolIInv
<1> SUFFICES ASSUME PoolInit PROVE PoolIInv
  OBVIOUS
<1>1. load \in Workloads /\ queues = [q \in DOMAIN QueueNames |-> <<>>] /\ manager = [at |-> 1, tasks |-> <<>>]
      /\ connPool = [c \in PoolConns |-> c] /\ conn = [c \in PoolConns |-> NoConn]
      /\ jobs = [j \in Calls |-> [sent |-> FALSE, answers |-> <<>>]]
  BY DEF PoolInit
<1>2. PICK r, m : r = [NoConn EXCEPT !.pc = "idle"] /\ m = shm.mem
  OBVIOUS
<1>3. r = NoConn /\ "idle" \in NoTask
  BY <1>2 DEF NoConn, NoTask
<1>4. /\ r \in ConnRec /\ r.pc = "idle" /\ r.task = <<>> /\ WorkerKept(r, m) /\ GaveAnswers(r) /\ IsInjective(r.task)
      /\ \A p, b : ~Has(r, p, b)
  BY <1>2, <1>3, NoTaskKept
<1>5. \A c \in PoolConns : conn[c] = r
  BY <1>1, <1>3
<1>6. shm \in ShmRec /\ \A p \in Pages : shm.bits[p] = {}
  <2>1. shm = [bits |-> [p \in Pages |-> {}], hints |-> [n \in Sizes |-> 0],
               mem |-> [p \in Pages |-> [b \in 0 .. PageBlocks - 1 |-> NoItem]]]
    BY DEF PoolInit
  <2>2. NoItem \in [of : Nat \X Nat, sig : Nat]
    BY DEF NoItem
  <2>3. [b \in 0 .. PageBlocks - 1 |-> NoItem] \in [0 .. PageBlocks - 1 -> [of : Nat \X Nat, sig : Nat]]
    BY <2>2
  <2>4. [p \in Pages |-> {}] \in [Pages -> SUBSET (0 .. PageBlocks - 1)] /\ [n \in Sizes |-> 0] \in [Sizes -> Nat]
    OBVIOUS
  <2> QED BY <2>1, <2>3, <2>4 DEF ShmRec
<1>7. PoolTyped
  <2>1. connPool \in Seq(PoolConns)
    <3>1. PICK n \in Nat : PoolConns = 1 .. n
      BY PoolAssumption, FS_CardinalityType
    <3> QED BY <1>1, <3>1
  <2>2. queues \in [DOMAIN QueueNames -> Seq(Calls)]
    BY <1>1
  <2>3. manager \in [at : Nat, tasks : Seq([jobs : Seq(Calls) \ {<<>>}, single : BOOLEAN])]
    BY <1>1
  <2>4. conn \in [PoolConns -> ConnRec]
    BY <1>1, <1>3, <1>4
  <2>5. r.pc \notin Mallocs /\ r.pc \notin {"cas", "got"}
    BY <1>4 DEF Mallocs
  <2>6. DOMAIN jobs = Calls /\ \A j \in Calls : DOMAIN jobs[j] = {"sent", "answers"}
    BY <1>1
  <2> QED BY <1>1, <1>5, <1>6, <2>1, <2>2, <2>3, <2>4, <2>5, <2>6 DEF PoolTyped, C
<1>8. JobsKept
  <2>1. manager.tasks = <<>> /\ DOMAIN manager.tasks = {}
    BY <1>1
  <2>2. \A q \in DOMAIN QueueNames : queues[q] = <<>>
    BY <1>1
  <2>3. \A q \in DOMAIN QueueNames : IsInjective(queues[q])
    BY <2>2 DEF IsInjective
  <2>4. \A q \in DOMAIN QueueNames : \A j : ~InQueue(q, j)
    BY <2>2 DEF InQueue, ToSet
  <2>5. \A c \in PoolConns : \A j : ~InConn(c, j)
    BY <1>4, <1>5 DEF InConn, C
  <2>6. \A j \in Calls : jobs[j].answers = <<>>
    BY <1>1
  <2>7. \A j \in Calls : JobPlace(j)
    BY <2>1, <2>4, <2>5, <2>6 DEF JobPlace
  <2> QED BY <1>4, <1>5, <2>1, <2>3, <2>7 DEF JobsKept, C
<1>9. BlocksKept
  BY <1>4, <1>5, <1>6 DEF BlocksKept, C
<1>10. \A c \in PoolConns : WorkerKept(C(c), shm.mem)
  BY <1>2, <1>4, <1>5 DEF C
<1>11. AnswersAreOwn
  BY <1>1 DEF AnswersAreOwn
<1> QED BY <1>7, <1>8, <1>9, <1>10, <1>11 DEF PoolIInv

\* MetaPool.PoolIInv, for any workload and any number of connections, pages and
\* blocks: a job waits in one queue, task or worker, a block that is taken is of
\* one worker, and a worker finds in its blocks what was written for it
\* (PGConnectionPool, BatchWorkerTask, SingleWorkerTask and FalconShmemAllocatorMalloc).
THEOREM PoolInvariance == PoolSpec => []PoolIInv
<1>1. PoolInit => PoolIInv
  BY PoolStarts
<1>2. PoolIInv /\ [PoolNext]_poolVars => PoolIInv'
  <2> SUFFICES ASSUME PoolIInv, [PoolNext]_poolVars PROVE PoolIInv'
    OBVIOUS
  <2>1. CASE \E j \in Calls : DispatchMetaServiceJob(j)
    BY <2>1, DispatchKept
  <2>2. CASE DequeueExec
    BY <2>2, DequeueKept
  <2>3. CASE GetPGConnection
    BY <2>3, GetConnKept
  <2>4. ASSUME NEW c \in PoolConns, Work(c) PROVE PoolIInv'
    <3>1. CASE StartWork(c)
      BY <3>1, StartKept, ServerMoves
    <3>2. CASE MallocLoadPage(c)
      BY <3>2, LoadKept, ServerMoves
    <3>3. CASE MallocSwap(c)
      BY <3>3, SwapKept
    <3>4. CASE MallocFill(c)
      BY <3>4, FillKept
    <3>5. CASE MetaCall(c)
      BY <3>5, CallKept, ServerMoves
    <3>6. CASE FreeBits(c)
      BY <3>6, FreeBitsKept
    <3>7. CASE FreeHint(c)
      BY <3>7, FreeHintKept
    <3>8. CASE ProcessResponse(c)
      BY <3>8, ResponseKept, ServerMoves
    <3>9. CASE WorkerFinishNotify(c)
      BY <3>9, FinishKept
    <3> QED BY <2>4, <3>1, <3>2, <3>3, <3>4, <3>5, <3>6, <3>7, <3>8, <3>9 DEF Work
  <2>5. CASE SigTerm \/ Destroyed
    BY <2>5, ServerMoves DEF SigTerm, Destroyed
  <2>6. CASE UNCHANGED poolVars
    BY <2>6, ServerMoves DEF poolVars
  <2> QED BY <2>1, <2>2, <2>3, <2>4, <2>5, <2>6 DEF PoolNext, Manage
<1> QED BY <1>1, <1>2, PTL DEF PoolSpec

\* MetaPool.PoolInv: a caller is answered at most once, with an error or with the
\* replies to its own requests in their order, though its job is merged with others
\* (BatchWorkerTask::DoWork), and when no worker has a task every block of shared
\* memory has been given back (FalconShmemAllocatorFree).
THEOREM PoolHolds == PoolSpec => []PoolInv
<1>1. PoolIInv => PoolInv
  <2> SUFFICES ASSUME PoolIInv, \A c \in PoolConns : C(c).pc \in {"idle", "ended"}, NEW p \in Pages
               PROVE  shm.bits[p] = {}
    BY DEF PoolInv, BlocksReturned, PoolIInv
  <2>1. \A c \in PoolConns : \A b : ~Has(C(c), p, b)
    BY DEF Has, HasParam, HasReply, Mallocs
  <2>2. \A b \in BlockSet : b \notin shm.bits[p]
    BY <2>1 DEF PoolIInv, BlocksKept, BlockSet
  <2>3. shm.bits[p] \subseteq BlockSet
    BY DEF PoolIInv, PoolTyped, ShmRec, BlockSet
  <2> QED BY <2>2, <2>3
<1> QED BY <1>1, PoolInvariance, PTL
=============================================================================
