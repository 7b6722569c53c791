------------------------------- MODULE MetaPool -------------------------------
(***************************************************************************)
(* The server's side of a metadata call: a job per call is put into the    *)
(* queue of its type, the pool manager merges jobs of a queue into tasks   *)
(* and gives each to an idle connection (connection_pool/                  *)
(* pg_connection_pool.cpp), whose worker passes the parameters to a        *)
(* backend, and takes the replies, through blocks of shared memory         *)
(* (falcon_worker_task.cpp, falcon_meta_call_by_serialized_shmem_internal, *)
(* utils/falcon_shmem_allocator.c).                                        *)
(*                                                                         *)
(* A request and a reply take a block each; a reply is its request.  An    *)
(* exception in a worker ends the whole process.                           *)
(***************************************************************************)
EXTENDS Integers, Sequences, FiniteSets, SequencesExt

CONSTANTS
    PoolConns,   \* the connections, 1 .. n
    BatchSize,   \* FalconConnectionPoolBatchSize
    PageBlocks,  \* blocks of a page, a power of two
    Workloads    \* [pages, errors, stop, calls]: pages of shared memory, how many tasks
                 \* may fail, whether SIGTERM may come, and calls[j] = [types, batch]
                 \* in the order in which they come

ASSUME PoolAssumption ==
    /\ BatchSize \in Nat \ {0} /\ PageBlocks \in Nat \ {0}
    /\ IsFiniteSet(PoolConns) /\ PoolConns = 1 .. Cardinality(PoolConns)
    /\ \A w \in Workloads : /\ w.pages \in Nat \ {0} /\ w.errors \in Nat
                            /\ w.calls \in Seq([types : Seq(STRING), batch : BOOLEAN])

VARIABLES
    load,      \* the workload
    queues,    \* supportBatchTaskList
    manager,   \* the manager: the next queue, and tasks that wait for a connection
    connPool,  \* the queue of idle connections
    conn,      \* the connections' workers, with their backends
    shm,       \* shared memory: [bits, hints, mem] by page, by size, by page and block
    jobs,      \* of every call: [sent, answers]
    server     \* [death, term, errors]

poolVars == <<load, queues, manager, connPool, conn, shm, jobs, server>>

QueueNames == <<"mkdir", "create", "stat", "unlink", "open", "close", "single">>
Calls == DOMAIN load.calls
Pages == 0 .. load.pages - 1
Sizes == {n \in 1..PageBlocks : PageBlocks % n = 0}
NoAddr == [page |-> 0, block |-> 0, size |-> 0]
NoItem == [of |-> <<0, 0>>, sig |-> 0]
Failed == <<>>
NoConn ==
    [pc |-> "idle", task |-> <<>>, single |-> FALSE, for |-> "param", want |-> 1, scan |-> 0,
     start |-> 0, page |-> 0, seen |-> {}, full |-> FALSE, got |-> NoAddr,
     param |-> NoAddr, reply |-> NoAddr, items |-> <<>>]

PoolInit ==
    /\ load \in Workloads
    /\ queues = [q \in DOMAIN QueueNames |-> <<>>]
    /\ manager = [at |-> 1, tasks |-> <<>>]
    /\ connPool = [c \in PoolConns |-> c]
    /\ conn = [c \in PoolConns |-> NoConn]
    /\ shm = [bits |-> [p \in Pages |-> {}], hints |-> [n \in Sizes |-> 0],
              mem |-> [p \in Pages |-> [b \in 0 .. PageBlocks - 1 |-> NoItem]]]
    /\ jobs = [j \in Calls |-> [sent |-> FALSE, answers |-> <<>>]]
    /\ server = [death |-> "none", term |-> "no", errors |-> load.errors]

Alive == server.death = "none"
C(c) == conn[c]
ConnAt(c, pc) == Alive /\ C(c).pc = pc
SetConn(c, r) == conn' = [conn EXCEPT ![c] = r]

-----------------------------------------------------------------------------
(* The pool.                                                                *)

Types(j) == load.calls[j].types
QueueOf(j) ==
    CHOOSE q \in DOMAIN QueueNames :
        QueueNames[q] = IF load.calls[j].batch /\ Types(j)[1] \in ToSet(QueueNames) THEN Types(j)[1] ELSE "single"

\* A call without a request is dropped, and its caller waits for its own timeout.
DispatchMetaServiceJob(j) ==
    /\ Alive /\ ~jobs[j].sent /\ \A i \in 1 .. j - 1 : jobs[i].sent
    /\ jobs' = [jobs EXCEPT ![j].sent = TRUE]
    /\ queues' = IF Types(j) = <<>> THEN queues ELSE [queues EXCEPT ![QueueOf(j)] = Append(@, j)]
    /\ UNCHANGED <<load, manager, connPool, conn, shm, server>>

\* The manager's round through the queues: the next one that is not empty.
NextQueue ==
    LET turn(q) == (q - manager.at + Len(QueueNames)) % Len(QueueNames)
        ready == {q \in DOMAIN QueueNames : queues[q] # <<>>} IN
    CHOOSE q \in ready : \A r \in ready : turn(q) <= turn(r)

Least(a, b) == IF a < b THEN a ELSE b

\* BatchDequeueExec and SingleDequeueExec: the queue's size is a guess, so fewer
\* jobs may come out than are in it.
DequeueExec ==
    /\ Alive /\ server.term # "stopped" /\ manager.tasks = <<>> /\ \E q \in DOMAIN queues : queues[q] # <<>>
    /\ \E k \in 1 .. Least(Len(queues[NextQueue]), BatchSize) :
         LET taken == SubSeq(queues[NextQueue], 1, k)
             single == QueueNames[NextQueue] = "single" IN
         /\ manager' = [at |-> (NextQueue % Len(QueueNames)) + 1,
                        tasks |-> IF single THEN [i \in 1..k |-> [jobs |-> <<taken[i]>>, single |-> TRUE]]
                                  ELSE <<[jobs |-> taken, single |-> FALSE]>>]
         /\ queues' = [queues EXCEPT ![NextQueue] = SubSeq(@, k + 1, Len(@))]
    /\ UNCHANGED <<load, connPool, conn, shm, jobs, server>>

\* GetPGConnection waits for an idle connection; a worker that has ended never
\* takes what is put into its queue.
GetPGConnection ==
    /\ Alive /\ manager.tasks # <<>> /\ connPool # <<>>
    /\ LET c == Head(connPool)
           t == Head(manager.tasks) IN
       conn' = IF C(c).pc # "idle" THEN conn
               ELSE [conn EXCEPT ![c] = [NoConn EXCEPT !.pc = "start", !.task = t.jobs, !.single = t.single]]
    /\ connPool' = Tail(connPool) /\ manager' = [manager EXCEPT !.tasks = Tail(@)]
    /\ UNCHANGED <<load, queues, shm, jobs, server>>

-----------------------------------------------------------------------------
(* Shared memory.                                                           *)

Block(b, n) == b .. b + n - 1
FreeBlocks(bits, n) ==
    {b \in 0 .. PageBlocks - n : b % n = 0 /\ Block(b, n) \cap bits = {}}
\* GetNextPowerOfTwo, at most a page.
GetNextPowerOfTwo(n) == CHOOSE s \in Sizes : s >= n /\ \A r \in Sizes : r >= n => s <= r

\* FalconShmemAllocatorMalloc up to the load of the hint.
Malloc(r, n, for) ==
    LET hint == shm.hints[GetNextPowerOfTwo(n)] IN
    [r EXCEPT !.pc = "load", !.want = GetNextPowerOfTwo(n), !.for = for, !.scan = 0, !.start = hint, !.page = hint]
Dies(why) == server' = [server EXCEPT !.death = why] /\ UNCHANGED <<conn, shm>>

\* The bitmap of the next page, of a scan from the hint and one from the start.
\* A worker that gets nothing throws, a backend reports an error.
MallocLoadPage(c) ==
    /\ ConnAt(c, "load")
    /\ \/ /\ C(c).page \in Pages
          /\ SetConn(c, [C(c) EXCEPT !.pc = "cas", !.seen = shm.bits[C(c).page], !.full = FALSE])
          /\ UNCHANGED <<shm, server>>
       \/ /\ C(c).page \notin Pages /\ C(c).scan = 0
          /\ SetConn(c, [C(c) EXCEPT !.scan = 1, !.page = 0]) /\ UNCHANGED <<shm, server>>
       \/ C(c).page \notin Pages /\ C(c).scan = 1 /\ C(c).for = "param" /\ Dies("memory")
       \/ /\ C(c).page \notin Pages /\ C(c).scan = 1 /\ C(c).for = "reply"
          /\ SetConn(c, [C(c) EXCEPT !.pc = "freeparam", !.items = Failed]) /\ UNCHANGED <<shm, server>>
    /\ UNCHANGED <<load, queues, manager, connPool, jobs>>

\* Mutant: the bitmap is stored without a comparison.
SwapsBlindly(c) == TRUE

Swaps(c) == shm.bits[C(c).page] = C(c).seen

\* The compare-and-swap that takes the first free block of the size.
MallocSwap(c) ==
    /\ ConnAt(c, "cas")
    /\ LET r == C(c)
           n == r.want
           free == FreeBlocks(r.seen, n)
           b == CHOOSE x \in free : \A y \in free : x <= y
           full == r.full \/ (n # PageBlocks /\ r.page = 0 /\ b + n = PageBlocks) IN
       \/ free = {} /\ SetConn(c, [r EXCEPT !.pc = "load", !.page = @ + 1]) /\ UNCHANGED shm
       \/ /\ free # {} /\ Swaps(c)
          /\ shm' = [shm EXCEPT !.bits[r.page] = r.seen \cup Block(b, n)]
          /\ SetConn(c, [r EXCEPT !.pc = "got", !.full = full, !.got = [page |-> r.page, block |-> b, size |-> n]])
       \/ /\ free # {} /\ ~Swaps(c)
          /\ SetConn(c, [r EXCEPT !.full = full, !.seen = shm.bits[r.page]]) /\ UNCHANGED shm
    /\ UNCHANGED <<load, queues, manager, connPool, jobs, server>>

Written(a, items, sig) ==
    [shm.mem EXCEPT ![a.page] = [b \in DOMAIN @ |->
        IF b - a.block + 1 \in DOMAIN items THEN [of |-> items[b - a.block + 1], sig |-> sig] ELSE @[b]]]
Own(j) == [i \in DOMAIN Types(j) |-> <<j, i>>]
Requests(task) ==
    LET all[k \in 0 .. Len(task)] == IF k = 0 THEN <<>> ELSE all[k - 1] \o Own(task[k]) IN all[Len(task)]
Signature(r) == r.task[1]

\* The hint, which others may have moved, and then the block is filled.
MallocFill(c) ==
    /\ ConnAt(c, "got")
    /\ LET r == C(c)
           at == shm.hints[r.want]
           hint == IF r.scan = 0
                   THEN IF (r.full \/ r.page # r.start) /\ at = r.start
                        THEN r.page + (IF r.full THEN 1 ELSE 0) ELSE at
                   ELSE IF r.full THEN at ELSE Least(at, r.page)
           items == IF r.for = "param" THEN Requests(r.task) ELSE r.items IN
       /\ shm' = [shm EXCEPT !.hints[r.want] = hint, !.mem = Written(r.got, items, Signature(r))]
       /\ SetConn(c, IF r.for = "param" THEN [r EXCEPT !.pc = "send", !.param = r.got]
                     ELSE [r EXCEPT !.pc = "freeparam", !.reply = r.got])
    /\ UNCHANGED <<load, queues, manager, connPool, jobs, server>>

\* FalconShmemAllocatorFree: the bits, and then the hint.
FreeBits(c) ==
    /\ Alive /\ C(c).pc \in {"freeparam", "freereply"}
    /\ LET a == IF C(c).pc = "freeparam" THEN C(c).param ELSE C(c).reply IN
       /\ shm' = [shm EXCEPT !.bits[a.page] = @ \ Block(a.block, a.size)]
       /\ SetConn(c, [C(c) EXCEPT !.pc = IF @ = "freeparam" THEN "hintparam" ELSE "hintreply"])
    /\ UNCHANGED <<load, queues, manager, connPool, jobs, server>>
FreeHint(c) ==
    /\ Alive /\ C(c).pc \in {"hintparam", "hintreply"}
    /\ LET a == IF C(c).pc = "hintparam" THEN C(c).param ELSE C(c).reply IN
       /\ shm' = [shm EXCEPT !.hints[a.size] = Least(@, a.page)]
       /\ SetConn(c, [C(c) EXCEPT !.pc = IF @ = "hintparam" THEN "answer" ELSE "return"])
    /\ UNCHANGED <<load, queues, manager, connPool, jobs, server>>

-----------------------------------------------------------------------------
(* The worker of a connection, and its backend.                             *)

\* DoWork up to the allocation of the parameters' block.
StartWork(c) ==
    /\ ConnAt(c, "start")
    /\ LET n == Len(Requests(C(c).task)) IN
       \/ n > PageBlocks /\ Dies("size")
       \/ n <= PageBlocks /\ SetConn(c, Malloc(C(c), n, "param")) /\ UNCHANGED <<shm, server>>
    /\ UNCHANGED <<load, queues, manager, connPool, jobs>>

\* One statement per group of equal types and per plain command, in one query;
\* PQsendQuery's 1 is compared with their number.
Plain(r) == r.single /\ Types(r.task[1])[1] = "plain"
OneStatement(r) ==
    LET t == Types(r.task[1]) IN
    r.single => \A i, k \in DOMAIN t : t[i] = t[k] /\ (i # k => t[i] # "plain")

Read(a, n) == [i \in 1..n |-> shm.mem[a.page][a.block + i - 1]]
Of(items) == [i \in DOMAIN items |-> items[i].of]

\* The backend handles what the block holds.  It may fail, and then it has no reply.
MetaCall(c) ==
    /\ ConnAt(c, "send")
    /\ LET r == C(c)
           items == Of(Read(r.param, Len(Requests(r.task)))) IN
       \/ ~OneStatement(r) /\ Dies("statements")
       \/ /\ OneStatement(r) /\ UNCHANGED <<shm, server>>
          /\ SetConn(c, IF Plain(r) THEN [r EXCEPT !.pc = "freeparam", !.items = items]
                        ELSE Malloc([r EXCEPT !.items = items], Len(items), "reply"))
       \/ /\ OneStatement(r) /\ server.errors > 0
          /\ server' = [server EXCEPT !.errors = @ - 1]
          /\ SetConn(c, [r EXCEPT !.pc = "freeparam", !.items = Failed]) /\ UNCHANGED shm
    /\ UNCHANGED <<load, queues, manager, connPool, jobs>>

\* What each job of the task gets of the replies: its own number of them, in turn.
Share(task, k, items) ==
    LET first == Len(Requests(SubSeq(task, 1, k - 1))) IN
    SubSeq(items, first + 1, first + Len(Types(task[k])))

Answer(task, items) ==
    jobs' = [j \in Calls |->
        IF j \notin ToSet(task) THEN jobs[j]
        ELSE [jobs[j] EXCEPT !.answers = Append(@,
                IF items = Failed THEN Failed ELSE Share(task, CHOOSE k \in DOMAIN task : task[k] = j, items))]]

\* A task of merged jobs answers them from the block; a single one copies the
\* replies, after it has compared the signature, and answers in the end.
ProcessResponse(c) ==
    /\ ConnAt(c, "answer")
    /\ LET r == C(c)
           block == Read(r.reply, Len(r.items))
           items == IF r.reply = NoAddr THEN r.items ELSE Of(block)
           next == [r EXCEPT !.items = items, !.pc = IF r.reply = NoAddr THEN "return" ELSE "freereply"] IN
       \/ /\ r.single /\ UNCHANGED jobs
          /\ IF r.reply # NoAddr /\ block[1].sig # Signature(r) THEN Dies("signature")
             ELSE SetConn(c, next) /\ UNCHANGED <<shm, server>>
       \/ ~r.single /\ Answer(r.task, items) /\ SetConn(c, next) /\ UNCHANGED <<shm, server>>
    /\ UNCHANGED <<load, queues, manager, connPool>>

\* BackgroundWorker's end of a turn.
WorkerFinishNotify(c) ==
    /\ ConnAt(c, "return")
    /\ IF C(c).single THEN Answer(C(c).task, C(c).items) ELSE UNCHANGED jobs
    /\ connPool' = Append(connPool, c)
    /\ SetConn(c, [NoConn EXCEPT !.pc = IF server.term = "stopping" THEN "ended" ELSE "idle"])
    /\ UNCHANGED <<load, queues, manager, shm, server>>

-----------------------------------------------------------------------------
(* SIGTERM.                                                                 *)

\* Destroy gives the queues some time, stops the workers, and waits for each: one
\* that is idle waits for a task, not for the flag.
SigTerm ==
    /\ Alive /\ load.stop /\ server.term = "no"
    /\ server' = [server EXCEPT !.term = "stopping"]
    /\ UNCHANGED <<load, queues, manager, connPool, conn, shm, jobs>>
Destroyed ==
    /\ Alive /\ server.term = "stopping" /\ \A c \in PoolConns : C(c).pc = "ended"
    /\ manager.tasks = <<>> /\ \A q \in DOMAIN queues : queues[q] = <<>>
    /\ server' = [server EXCEPT !.term = "stopped"]
    /\ UNCHANGED <<load, queues, manager, connPool, conn, shm, jobs>>

-----------------------------------------------------------------------------
Work(c) ==
    \/ StartWork(c) \/ MallocLoadPage(c) \/ MallocSwap(c) \/ MallocFill(c)
    \/ MetaCall(c) \/ FreeBits(c) \/ FreeHint(c) \/ ProcessResponse(c) \/ WorkerFinishNotify(c)
Manage == DequeueExec \/ GetPGConnection
PoolNext ==
    \/ \E j \in Calls : DispatchMetaServiceJob(j)
    \/ Manage \/ (\E c \in PoolConns : Work(c)) \/ SigTerm \/ Destroyed

PoolSpec == PoolInit /\ [][PoolNext]_poolVars

\* The manager's thread, the workers' threads and the backends run.
PoolFairness == WF_poolVars(Manage) /\ \A c \in PoolConns : WF_poolVars(Work(c))

-----------------------------------------------------------------------------
\* A caller is answered once, with an error or with the replies to its own
\* requests in their order, whoever its job was merged with and whoever had the
\* same blocks before.
AnswersAreOwn ==
    \A j \in Calls : jobs[j].answers \in {<<>>, <<Failed>>, <<Own(j)>>}

\* No path through a worker or a backend leaves a block behind.
BlocksReturned ==
    (\A c \in PoolConns : C(c).pc \in {"idle", "ended"}) => \A p \in Pages : shm.bits[p] = {}

\* The process ends for want of memory only where the workers can fill it: with two
\* pages for each connection there is a block for everyone, though a scan sees the
\* pages one after the other and starts from a hint that others move.
EndsOnlyIfFull == server.death = "memory" => load.pages < 2 * Cardinality(PoolConns)

\* Merging jobs and sharing memory are seen by no caller: answers are the caller's
\* own, and every block comes back.
PoolInv == AnswersAreOwn /\ BlocksReturned

(* The inductive invariant.  A job waits in one place, in a queue, in a      *)
(* task or with a worker, and has no answer yet.                             *)

NoTask == {"idle", "ended"}
GaveAnswers(r) == r.pc \in NoTask \/ (~r.single /\ r.pc \in {"freereply", "hintreply", "return"})
InQueue(q, j) == j \in ToSet(queues[q])
InTask(i, j) == j \in ToSet(manager.tasks[i].jobs)
InConn(c, j) == ~GaveAnswers(C(c)) /\ j \in ToSet(C(c).task)
JobWaits(j) == jobs[j].sent /\ jobs[j].answers = <<>>
JobPlace(j) ==
    /\ jobs[j].sent \/ jobs[j].answers = <<>>
    /\ (\E q \in DOMAIN QueueNames : InQueue(q, j)) => JobWaits(j)
    /\ (\E i \in DOMAIN manager.tasks : InTask(i, j)) => JobWaits(j)
    /\ (\E c \in PoolConns : InConn(c, j)) => JobWaits(j)
    /\ \A p, q \in DOMAIN QueueNames : InQueue(p, j) /\ InQueue(q, j) => p = q
    /\ \A i, k \in DOMAIN manager.tasks : InTask(i, j) /\ InTask(k, j) => i = k
    /\ \A c, d \in PoolConns : InConn(c, j) /\ InConn(d, j) => c = d
    /\ \A q \in DOMAIN QueueNames, i \in DOMAIN manager.tasks : ~(InQueue(q, j) /\ InTask(i, j))
    /\ \A q \in DOMAIN QueueNames, c \in PoolConns : ~(InQueue(q, j) /\ InConn(c, j))
    /\ \A i \in DOMAIN manager.tasks, c \in PoolConns : ~(InTask(i, j) /\ InConn(c, j))
JobsKept ==
    /\ \A q \in DOMAIN QueueNames : IsInjective(queues[q])
    /\ \A i \in DOMAIN manager.tasks : IsInjective(manager.tasks[i].jobs)
    /\ \A c \in PoolConns : IsInjective(C(c).task)
    /\ \A j \in Calls : JobPlace(j)

(* A block whose bit is set is of one worker, and what the worker wrote is   *)
(* there until it was read.                                                  *)

InAddr(a, p, b) == a.page = p /\ a.block <= b /\ b < a.block + a.size
Mallocs == {"load", "cas", "got"}
HasParam(r) == r.pc \in {"send", "freeparam"} \/ (r.pc \in Mallocs /\ r.for = "reply")
HasReply(r) == r.pc \in {"freeparam", "hintparam", "answer", "freereply"} /\ r.reply # NoAddr
Has(r, p, b) ==
    \/ HasParam(r) /\ InAddr(r.param, p, b)
    \/ r.pc = "got" /\ InAddr(r.got, p, b)
    \/ HasReply(r) /\ InAddr(r.reply, p, b)
BlocksKept ==
    /\ \A p \in Pages, b \in 0 .. PageBlocks - 1 : b \in shm.bits[p] <=> \E c \in PoolConns : Has(C(c), p, b)
    /\ \A c, d \in PoolConns : \A p \in Pages, b \in 0 .. PageBlocks - 1 : Has(C(c), p, b) /\ Has(C(d), p, b) => c = d

Addr(a) == a.page \in Pages /\ a.size > 0 /\ a.block + a.size <= PageBlocks
Stored(mem, a, items) ==
    /\ Len(items) <= a.size
    /\ \A i \in DOMAIN items : mem[a.page][a.block + i - 1].of = items[i]
Apart(a, e) == \A p \in Pages, b \in 0 .. PageBlocks - 1 : ~(InAddr(a, p, b) /\ InAddr(e, p, b))
ToWrite(r) == IF r.for = "param" THEN Requests(r.task) ELSE r.items
WorkerKept(r, mem) ==
    /\ r.pc \notin NoTask => r.task # <<>>
    /\ HasParam(r) => Addr(r.param)
    /\ r.pc = "got" => Addr(r.got) /\ Len(ToWrite(r)) <= r.got.size
    /\ r.reply # NoAddr => Addr(r.reply)
    /\ r.pc \in {"start", "send"} \cup Mallocs => r.reply = NoAddr
    /\ r.pc \in {"freereply", "hintreply"} => r.reply # NoAddr
    /\ HasParam(r) /\ r.pc = "got" => Apart(r.param, r.got)
    /\ HasParam(r) /\ HasReply(r) => Apart(r.param, r.reply)
    /\ r.pc \in {"load", "cas"} => Len(ToWrite(r)) <= r.want
    /\ r.pc \in Mallocs \cup {"send"} => Len(Requests(r.task)) <= PageBlocks
    /\ r.pc \in Mallocs /\ r.for = "reply" => r.items = Requests(r.task)
    /\ r.pc \in {"freeparam", "hintparam", "answer", "freereply", "hintreply", "return"} =>
          r.items \in {Failed, Requests(r.task)}
    /\ r.pc = "send" => Stored(mem, r.param, Requests(r.task))
    /\ r.pc \in {"freeparam", "hintparam", "answer"} /\ r.reply # NoAddr => Stored(mem, r.reply, r.items)

AddrRec == [page : Nat, block : Nat, size : Nat]
ConnPcs ==
    NoTask \cup Mallocs \cup
    {"start", "send", "freeparam", "hintparam", "answer", "freereply", "hintreply", "return"}
ConnRec ==
    [pc : ConnPcs, task : Seq(Calls), single : BOOLEAN, for : {"param", "reply"}, want : Nat \ {0},
     scan : {0, 1}, start : Nat, page : Nat, seen : SUBSET (0 .. PageBlocks - 1), full : BOOLEAN,
     got : AddrRec, param : AddrRec, reply : AddrRec, items : Seq(Nat \X Nat)]
ShmRec ==
    [bits : [Pages -> SUBSET (0 .. PageBlocks - 1)], hints : [Sizes -> Nat],
     mem : [Pages -> [0 .. PageBlocks - 1 -> [of : Nat \X Nat, sig : Nat]]]]
PoolTyped ==
    /\ load \in Workloads
    /\ queues \in [DOMAIN QueueNames -> Seq(Calls)]
    /\ manager \in [at : Nat, tasks : Seq([jobs : Seq(Calls) \ {<<>>}, single : BOOLEAN])]
    /\ connPool \in Seq(PoolConns)
    /\ conn \in [PoolConns -> ConnRec]
    /\ shm \in ShmRec
    /\ \A c \in PoolConns : C(c).pc \in Mallocs => C(c).want \in Sizes
    /\ \A c \in PoolConns : C(c).pc \in {"cas", "got"} => C(c).page \in Pages
    /\ DOMAIN jobs = Calls /\ \A j \in Calls : DOMAIN jobs[j] = {"sent", "answers"}
PoolIInv ==
    /\ PoolTyped /\ JobsKept /\ BlocksKept /\ (\A c \in PoolConns : WorkerKept(C(c), shm.mem)) /\ AnswersAreOwn

\* No job that was put into a queue waits for its answer, unless the process ends,
\* which it does for want of memory only if that can be full.
JobsAnswered ==
    /\ EndsOnlyIfFull
    /\ ~Alive \/ server.term # "no" \/ \A j \in Calls : jobs[j].sent /\ Types(j) # <<>> => jobs[j].answers # <<>>
=============================================================================
