--------------------------- MODULE TwoPhaseCommit ---------------------------
(***************************************************************************)
(* The distributed transaction of a metadata operation that the CN (server *)
(* 0) runs on several workers: exec, prepare, local commit, remote commit  *)
(* or abort (falcon/distributed_backend/remote_comm_falcon.c, driven by    *)
(* the callbacks of falcon/transaction/transaction.c), the connections a   *)
(* backend keeps from one transaction to the next                          *)
(* (falcon/metadb/foreign_server.c), and the daemon that resolves prepared *)
(* transactions left behind (falcon/transaction/transaction_cleanup.c).    *)
(*                                                                         *)
(* A backend sends one command on each of its connections and waits for    *)
(* the results one connection at a time; a worker answers on its own.  A   *)
(* transaction's writes on a worker are abstracted to one status.          *)
(***************************************************************************)
EXTENDS Naturals, FiniteSets

CONSTANTS
    Backends,     \* the CN's backends that run metadata operations
    Txns,         \* transactions, each run at most once
    Workers,      \* the workers
    Plans,        \* what a transaction may do: [parts, localWrite]
    Faults,       \* which failures may happen
    MaxFaults,    \* bound: how many failures a behaviour may have
    MaxPerBackend \* bound: how many transactions one backend runs; from the
                  \* third on, one could meet a connection that is still inside
                  \* another's transaction, which the model has no state for

NoTxn == "no transaction"

NoPlan == [parts |-> {}, localWrite |-> FALSE]

\* "renew" is an update of the foreign server table, "lateRenew" one that a
\* backend meets only when it prepares.
FaultKinds == {"worker", "local", "break", "renew", "lateRenew", "crash"}

ASSUME ConstantsOK ==
    /\ NoTxn \notin Txns
    /\ Plans \subseteq [parts: (SUBSET Workers) \ {{}}, localWrite: BOOLEAN]
    /\ Faults \subseteq FaultKinds
    /\ MaxFaults \in Nat /\ MaxPerBackend \in 0..2

VARIABLES
    pc, cur,      \* a backend's step, and its transaction
    ran,          \* how many transactions a backend has begun
    await,        \* the workers whose result it has not fetched yet
    gid,          \* RemoteTransactionGid is set
    failed,       \* a PREPARE failed (errorMsg is not empty)
    tstate,       \* transactionState of each connection, or "BAD"
    chan,         \* the command or the result on each connection
    orphans,      \* commands whose connection broke before they were executed
    plan,         \* the plan of each transaction
    local,        \* the transaction's outcome on the CN itself
    work,         \* its status on each worker
    newRows,      \* rows of falcon_distributed_transaction, not committed
    rows,         \* rows that are committed
    inprogress,   \* InprogressTransactions, in the CN's shared memory
    cl,           \* the cleanup daemon
    faults,       \* failures so far
    twoPhase,     \* history: transactions for which PREPARE was chosen
    dirty         \* history: transactions that used a connection another
                  \* transaction had left in a state other than NONE

backendVars == <<pc, cur, ran, await, gid, failed, newRows>>
connVars == <<tstate, chan, orphans>>
history == <<twoPhase, dirty>>
vars == <<backendVars, connVars, plan, local, work, rows, inprogress, cl,
          faults, history>>

-----------------------------------------------------------------------------
Commands == {"BEGIN", "EXEC", "PREPARE", "COMMIT", "ROLLBACK",
             "COMMIT PREPARED", "ROLLBACK PREPARED"}

Quiet == [cmd |-> "none", txn |-> NoTxn]

WorkStatus == {"none", "open", "prepared", "committed", "aborted"}

CleanerIdle == [at |-> "idle", todo |-> {}, w |-> NoTxn,
                A |-> {}, B |-> {}, C |-> {}, D |-> {}, deleted |-> {},
                stale |-> {}]

TypeOK ==
    /\ pc \in [Backends -> {"idle", "begin", "exec", "precommit", "prepare",
                            "local", "postcommit", "commit", "abort",
                            "rollback", "finish"}]
    /\ cur \in [Backends -> Txns \cup {NoTxn}]
    /\ ran \in [Backends -> 0..MaxPerBackend]
    /\ await \in [Backends -> SUBSET Workers]
    /\ gid \in [Backends -> BOOLEAN]
    /\ failed \in [Backends -> BOOLEAN]
    /\ newRows \in [Backends -> SUBSET (Workers \X Txns)]
    /\ tstate \in [Backends -> [Workers -> {"NONE", "WRITE", "PREPARE", "BAD"}]]
    /\ chan \in [Backends -> [Workers ->
          [cmd: Commands \cup {"none", "ok", "fail", "lost"}, txn: Txns \cup {NoTxn}]]]
    /\ orphans \subseteq [w: Workers, cmd: Commands, txn: Txns]
    /\ plan \in [Txns -> Plans \cup {NoPlan}]
    /\ local \in [Txns -> {"none", "active", "committed", "aborted"}]
    /\ work \in [Workers -> [Txns -> WorkStatus]]
    /\ rows \subseteq Workers \X Txns
    /\ inprogress \subseteq Txns
    /\ faults \in 0..MaxFaults
    /\ twoPhase \subseteq Txns /\ dirty \subseteq Txns
    /\ cl \in [at: {"idle", "next", "B", "C", "D", "scan"},
               todo: SUBSET Workers, w: Workers \cup {NoTxn},
               A: SUBSET Txns, B: SUBSET Txns, C: SUBSET Txns, D: SUBSET Txns,
               deleted: SUBSET (Workers \X Txns), stale: SUBSET Workers]

Init ==
    /\ pc = [b \in Backends |-> "idle"]
    /\ cur = [b \in Backends |-> NoTxn]
    /\ ran = [b \in Backends |-> 0]
    /\ await = [b \in Backends |-> {}]
    /\ gid = [b \in Backends |-> FALSE]
    /\ failed = [b \in Backends |-> FALSE]
    /\ newRows = [b \in Backends |-> {}]
    /\ tstate = [b \in Backends |-> [w \in Workers |-> "NONE"]]
    /\ chan = [b \in Backends |-> [w \in Workers |-> Quiet]]
    /\ orphans = {}
    /\ plan = [t \in Txns |-> NoPlan]
    /\ local = [t \in Txns |-> "none"]
    /\ work = [w \in Workers |-> [t \in Txns |-> "none"]]
    /\ rows = {}
    /\ inprogress = {}
    /\ cl = CleanerIdle
    /\ faults = 0
    /\ twoPhase = {} /\ dirty = {}

-----------------------------------------------------------------------------
\* A failure of kind k happens in this step, or none does.
Fault(k) ==
    /\ k \in Faults
    /\ faults < MaxFaults
    /\ faults' = faults + 1

Parts(b) == plan[cur[b]].parts

\* Workers that lose the connection's open transaction roll it back.
CloseSessions(W, t) ==
    [w \in Workers |->
        IF w \in W /\ work[w][t] = "open"
          THEN [work[w] EXCEPT ![t] = "aborted"] ELSE work[w]]

\* GetForeignServerConnection: a connection that is BAD is opened again, and so
\* is one in R, whose server the foreign server table now gives another
\* address; a new connection's transactionState is NONE.
Connected(b, R) ==
    [w \in Workers |->
        IF w \in Parts(b) /\ (tstate[b][w] = "BAD" \/ w \in R)
          THEN "NONE" ELSE tstate[b][w]]

\* The connections of b that an update of the foreign server table replaces.
Renewed(b, R) ==
    /\ R \subseteq Parts(b)
    /\ IF R = {} THEN UNCHANGED faults
       ELSE Fault(IF pc[b] = "precommit" THEN "lateRenew" ELSE "renew")
    /\ work' = CloseSessions(R, cur[b])

\* The commands of the function cmds, one for each worker in its domain, after
\* the results left on the transaction's other connections are drained.
Send(b, cmds) ==
    /\ \A w \in Parts(b) : chan[b][w].cmd \notin Commands
    /\ chan' = [chan EXCEPT ![b] =
          [w \in Workers |->
              IF w \in DOMAIN cmds THEN [cmd |-> cmds[w], txn |-> cur[b]]
              ELSE IF w \in Parts(b) THEN Quiet ELSE @[w]]]
    /\ await' = [await EXCEPT ![b] = DOMAIN cmds]

Goto(b, step) == pc' = [pc EXCEPT ![b] = step]

HasResult(b, w) == w \in await[b] /\ chan[b][w].cmd \in {"ok", "fail", "lost"}

\* A fetched result: the connection is quiet, or broken.
Fetched(b, w, state) ==
    /\ chan' = [chan EXCEPT ![b][w] = Quiet]
    /\ await' = [await EXCEPT ![b] = @ \ {w}]
    /\ tstate' = [tstate EXCEPT ![b][w] =
          IF chan[b][w].cmd = "lost" THEN "BAD" ELSE state]

-----------------------------------------------------------------------------
(* A backend starts an operation; the CN's own writes are the local        *)
(* transaction.                                                            *)
Begin(b, t, p) ==
    /\ pc[b] = "idle"
    /\ ran[b] < MaxPerBackend
    /\ local[t] = "none"
    /\ Goto(b, "begin")
    /\ cur' = [cur EXCEPT ![b] = t]
    /\ ran' = [ran EXCEPT ![b] = @ + 1]
    /\ plan' = [plan EXCEPT ![t] = p]
    /\ local' = [local EXCEPT ![t] = "active"]
    /\ UNCHANGED <<await, gid, failed, newRows, connVars, work, rows,
                   inprogress, cl, faults, history>>

(* FalconSendCommandAndWaitForResult, sending: BEGIN goes first only when  *)
(* the connection's transactionState is NONE.                              *)
SendExec(b, R) ==
    LET ts == Connected(b, R) IN
    /\ pc[b] = "begin"
    /\ Renewed(b, R)
    /\ Send(b, [w \in Parts(b) |-> IF ts[w] = "NONE" THEN "BEGIN" ELSE "EXEC"])
    /\ tstate' = [tstate EXCEPT ![b] =
          [w \in Workers |-> IF w \in Parts(b) /\ ts[w] = "NONE"
                               THEN "WRITE" ELSE ts[w]]]
    /\ dirty' = IF \E w \in Parts(b) : ts[w] # "NONE"
                  THEN dirty \cup {cur[b]} ELSE dirty
    /\ Goto(b, "exec")
    /\ UNCHANGED <<cur, ran, gid, failed, newRows, orphans, plan, local, rows,
                   inprogress, cl, twoPhase>>

(* FalconSendCommandAndWaitForResult, waiting: the first error raises.     *)
FetchExec(b, w) ==
    /\ pc[b] = "exec"
    /\ HasResult(b, w)
    /\ Fetched(b, w, tstate[b][w])
    /\ Goto(b, IF chan[b][w].cmd # "ok" THEN "abort"
               ELSE IF await[b] = {w} THEN "precommit" ELSE "exec")
    /\ UNCHANGED <<cur, ran, gid, failed, newRows, orphans, plan, local, work,
                   rows, inprogress, cl, faults, history>>

\* Mutants: the CN's own writes do not count; AddInprogressTransaction is
\* forgotten; a failed PREPARE does not raise; no row is written.
NeedTwoPhaseWithoutLocal(b, W) == Cardinality(W) >= 2

StartTwoPhaseUnlisted(b) ==
    /\ gid' = [gid EXCEPT ![b] = TRUE]
    /\ twoPhase' = twoPhase \cup {cur[b]}
    /\ UNCHANGED inprogress

FetchPrepareIgnoringErrors(b, w) ==
    LET ok == chan[b][w].cmd = "ok" IN
    /\ pc[b] = "prepare"
    /\ HasResult(b, w)
    /\ Fetched(b, w, IF ok THEN "PREPARE" ELSE tstate[b][w])
    /\ newRows' = IF ok THEN [newRows EXCEPT ![b] = @ \cup {<<w, cur[b]>>}]
                        ELSE newRows
    /\ Goto(b, IF await[b] # {w} THEN "prepare" ELSE "local")
    /\ UNCHANGED <<cur, ran, gid, failed, orphans, plan, local, work, rows,
                   inprogress, cl, faults, history>>

FetchPrepareWithoutRow(b, w) ==
    LET ok == chan[b][w].cmd = "ok" IN
    /\ pc[b] = "prepare"
    /\ HasResult(b, w)
    /\ Fetched(b, w, IF ok THEN "PREPARE" ELSE tstate[b][w])
    /\ failed' = [failed EXCEPT ![b] = @ \/ ~ ok]
    /\ Goto(b, IF await[b] # {w} THEN "prepare"
               ELSE IF failed'[b] THEN "abort" ELSE "local")
    /\ UNCHANGED <<cur, ran, gid, newRows, orphans, plan, local, work, rows,
                   inprogress, cl, faults, history>>

\* FalconRemoteCommandPrepare, its decision: 2PC when two servers write.
NeedTwoPhase(b, W) ==
    Cardinality(W) + (IF plan[cur[b]].localWrite THEN 1 ELSE 0) >= 2

\* AddInprogressTransaction comes before the first PREPARE.
StartTwoPhase(b) ==
    /\ gid' = [gid EXCEPT ![b] = TRUE]
    /\ inprogress' = inprogress \cup {cur[b]}
    /\ twoPhase' = twoPhase \cup {cur[b]}

(* FalconRemoteCommandPrepare, up to the commands sent.                    *)
PreCommit(b, R) ==
    LET ts == Connected(b, R)
        W == {w \in Parts(b) : ts[w] = "WRITE"}
    IN
    /\ pc[b] = "precommit"
    /\ Renewed(b, R)
    /\ tstate' = [tstate EXCEPT ![b] = ts]
    /\ IF NeedTwoPhase(b, W)
         THEN /\ StartTwoPhase(b)
              /\ Send(b, [w \in W |-> "PREPARE"])
              /\ Goto(b, "prepare")
         ELSE /\ Goto(b, "local")
              /\ UNCHANGED <<gid, inprogress, twoPhase, chan, await>>
    /\ UNCHANGED <<cur, ran, failed, newRows, orphans, plan, local, rows, cl,
                   dirty>>

(* The same when sending to f raises an error: only the workers of S, sent *)
(* to before, have their PREPARE, and no result is fetched.                *)
PreCommitSendFails(b, f, S) ==
    LET W == {w \in Parts(b) : tstate[b][w] = "WRITE"} IN
    /\ pc[b] = "precommit"
    /\ NeedTwoPhase(b, W)
    /\ f \in W /\ S \subseteq W \ {f}
    /\ Fault("break")
    /\ StartTwoPhase(b)
    /\ Send(b, [w \in S |-> "PREPARE"])
    /\ tstate' = [tstate EXCEPT ![b][f] = "BAD"]
    /\ work' = CloseSessions({f}, cur[b])
    /\ Goto(b, "abort")
    /\ UNCHANGED <<cur, ran, failed, newRows, orphans, plan, local, rows, cl,
                   dirty>>

(* FalconRemoteCommandPrepare, waiting: a worker that prepared gets a row  *)
(* (Write2PCRecord, part of the local transaction), and errors are raised  *)
(* after the last result.                                                  *)
FetchPrepare(b, w) ==
    LET ok == chan[b][w].cmd = "ok" IN
    /\ pc[b] = "prepare"
    /\ HasResult(b, w)
    /\ Fetched(b, w, IF ok THEN "PREPARE" ELSE tstate[b][w])
    /\ newRows' = IF ok THEN [newRows EXCEPT ![b] = @ \cup {<<w, cur[b]>>}]
                        ELSE newRows
    /\ failed' = [failed EXCEPT ![b] = @ \/ ~ ok]
    /\ Goto(b, IF await[b] # {w} THEN "prepare"
               ELSE IF failed'[b] THEN "abort" ELSE "local")
    /\ UNCHANGED <<cur, ran, gid, orphans, plan, local, work, rows, inprogress,
                   cl, faults, history>>

(* The local transaction commits, with the rows it wrote.                  *)
LocalCommit(b) ==
    /\ pc[b] = "local"
    /\ local' = [local EXCEPT ![cur[b]] = "committed"]
    /\ rows' = rows \cup newRows[b]
    /\ newRows' = [newRows EXCEPT ![b] = {}]
    /\ Goto(b, "postcommit")
    /\ UNCHANGED <<cur, ran, await, gid, failed, connVars, plan, work,
                   inprogress, cl, faults, history>>

(* An error on the CN before its commit.                                   *)
LocalError(b) ==
    /\ pc[b] \in {"precommit", "local"}
    /\ Fault("local")
    /\ Goto(b, "abort")
    /\ UNCHANGED <<cur, ran, await, gid, failed, newRows, connVars, plan, local,
                   work, rows, inprogress, cl, history>>

\* The command that ends the transaction on a connection in state s.
CommitCommand(s) == IF s = "PREPARE" THEN "COMMIT PREPARED" ELSE "COMMIT"

RollbackCommand(s) == IF s = "PREPARE" THEN "ROLLBACK PREPARED" ELSE "ROLLBACK"

(* FalconRemoteCommandCommit, sending.                                     *)
PostCommit(b, R) ==
    LET ts == Connected(b, R)
        W == {w \in Parts(b) : ts[w] \in {"WRITE", "PREPARE"}}
    IN
    /\ pc[b] = "postcommit"
    /\ Renewed(b, R)
    /\ tstate' = [tstate EXCEPT ![b] = ts]
    /\ Send(b, [w \in W |-> CommitCommand(ts[w])])
    /\ Goto(b, IF W = {} THEN "finish" ELSE "commit")
    /\ UNCHANGED <<cur, ran, gid, failed, newRows, orphans, plan, local, rows,
                   inprogress, cl, history>>

(* The same when sending to f fails: a warning, and the function returns.  *)
PostCommitSendFails(b, f, S) ==
    LET W == {w \in Parts(b) : tstate[b][w] \in {"WRITE", "PREPARE"}} IN
    /\ pc[b] = "postcommit"
    /\ f \in W /\ S \subseteq W \ {f}
    /\ Fault("break")
    /\ Send(b, [w \in S |-> CommitCommand(tstate[b][w])])
    /\ tstate' = [tstate EXCEPT ![b][f] = "BAD"]
    /\ work' = CloseSessions({f}, cur[b])
    /\ Goto(b, "finish")
    /\ UNCHANGED <<cur, ran, gid, failed, newRows, orphans, plan, local, rows,
                   inprogress, cl, history>>

(* FalconRemoteCommandCommit, waiting: transactionState is reset after a   *)
(* good result, and a bad one returns at once.                             *)
FetchCommit(b, w) ==
    LET ok == chan[b][w].cmd = "ok" IN
    /\ pc[b] = "commit"
    /\ HasResult(b, w)
    /\ Fetched(b, w, IF ok THEN "NONE" ELSE tstate[b][w])
    /\ Goto(b, IF ok /\ await[b] # {w} THEN "commit" ELSE "finish")
    /\ UNCHANGED <<cur, ran, gid, failed, newRows, orphans, plan, local, work,
                   rows, inprogress, cl, faults, history>>

(* FalconRemoteCommandAbort, sending, after the local abort.               *)
Abort(b, R) ==
    LET ts == Connected(b, R)
        W == {w \in Parts(b) : ts[w] \in {"WRITE", "PREPARE"}}
    IN
    /\ pc[b] = "abort"
    /\ Renewed(b, R)
    /\ local' = [local EXCEPT ![cur[b]] = "aborted"]
    /\ newRows' = [newRows EXCEPT ![b] = {}]
    /\ tstate' = [tstate EXCEPT ![b] = ts]
    /\ Send(b, [w \in W |-> RollbackCommand(ts[w])])
    /\ Goto(b, IF W = {} THEN "finish" ELSE "rollback")
    /\ UNCHANGED <<cur, ran, gid, failed, orphans, plan, rows, inprogress, cl,
                   history>>

(* FalconRemoteCommandAbort, waiting: transactionState is reset whatever   *)
(* the result.                                                             *)
FetchRollback(b, w) ==
    /\ pc[b] = "rollback"
    /\ HasResult(b, w)
    /\ Fetched(b, w, "NONE")
    /\ Goto(b, IF await[b] = {w} THEN "finish" ELSE "rollback")
    /\ UNCHANGED <<cur, ran, gid, failed, newRows, orphans, plan, local, work,
                   rows, inprogress, cl, faults, history>>

(* ClearRemoteTransactionGid and ClearRemoteConnectionCommand.             *)
Finish(b) ==
    /\ pc[b] = "finish"
    /\ inprogress' = IF gid[b] THEN inprogress \ {cur[b]} ELSE inprogress
    /\ gid' = [gid EXCEPT ![b] = FALSE]
    /\ failed' = [failed EXCEPT ![b] = FALSE]
    /\ cur' = [cur EXCEPT ![b] = NoTxn]
    /\ await' = [await EXCEPT ![b] = {}]
    /\ Goto(b, "idle")
    /\ UNCHANGED <<ran, newRows, connVars, plan, local, work, rows, cl, faults,
                   history>>

-----------------------------------------------------------------------------
(* PostgreSQL on a worker (external): what a command does to the status of *)
(* the transaction.  BEGIN stands for BEGIN and the operation after it;    *)
(* EXEC is the operation alone, which then commits by itself.  PREPARE,    *)
(* COMMIT and ROLLBACK without a transaction only give a warning.          *)
Done(cmd, s) ==
    CASE cmd = "BEGIN" -> "open"
      [] cmd = "EXEC" -> "committed"
      [] cmd = "PREPARE" /\ s = "open" -> "prepared"
      [] cmd = "COMMIT" /\ s = "open" -> "committed"
      [] cmd = "ROLLBACK" /\ s = "open" -> "aborted"
      [] cmd = "COMMIT PREPARED" /\ s = "prepared" -> "committed"
      [] cmd = "ROLLBACK PREPARED" /\ s = "prepared" -> "aborted"
      [] OTHER -> s

\* COMMIT PREPARED and ROLLBACK PREPARED fail when there is no such gid.
Reply(cmd, s) ==
    IF cmd \in {"COMMIT PREPARED", "ROLLBACK PREPARED"} /\ s # "prepared"
      THEN "fail" ELSE "ok"

\* The worker executes the command that is on the connection.
Answer(b, w) ==
    LET m == chan[b][w] IN
    /\ m.cmd \in Commands
    /\ work' = [work EXCEPT ![w][m.txn] = Done(m.cmd, @)]
    /\ chan' = [chan EXCEPT ![b][w].cmd = Reply(m.cmd, work[w][m.txn])]
    /\ UNCHANGED <<backendVars, tstate, orphans, plan, local, rows, inprogress,
                   cl, faults, history>>

\* The command fails on the worker, and its transaction with it.
WorkerFails(b, w) ==
    LET m == chan[b][w] IN
    /\ \/ m.cmd \in {"BEGIN", "EXEC"}
       \/ m.cmd \in {"PREPARE", "COMMIT"} /\ work[w][m.txn] = "open"
    /\ Fault("worker")
    /\ work' = [work EXCEPT ![w][m.txn] = "aborted"]
    /\ chan' = [chan EXCEPT ![b][w].cmd = "fail"]
    /\ UNCHANGED <<backendVars, tstate, orphans, plan, local, rows, inprogress,
                   cl, history>>

\* The commands on the connections of S that a worker may still execute when
\* the connection is gone.  A transaction that was only begun dies with it.
LeftBehind(S) ==
    {[w |-> c[2], cmd |-> chan[c[1]][c[2]].cmd, txn |-> chan[c[1]][c[2]].txn] :
        c \in {d \in S : chan[d[1]][d[2]].cmd \in Commands \ {"BEGIN"}}}

\* The connection breaks before b has fetched the result.
ConnBreak(b, w) ==
    LET m == chan[b][w] IN
    /\ w \in await[b]
    /\ m.cmd \in Commands \cup {"ok", "fail"}
    /\ Fault("break")
    /\ orphans' = orphans \cup LeftBehind({<<b, w>>})
    /\ work' = IF LeftBehind({<<b, w>>}) = {} THEN CloseSessions({w}, m.txn)
                                              ELSE work
    /\ chan' = [chan EXCEPT ![b][w].cmd = "lost"]
    /\ UNCHANGED <<backendVars, tstate, plan, local, rows, inprogress, cl,
                   history>>

\* The worker executes such a command, or never sees it; then the session ends.
OrphanRun(o) ==
    /\ o \in orphans
    /\ orphans' = orphans \ {o}
    /\ work' = [work EXCEPT ![o.w][o.txn] = Done(o.cmd, @)]
    /\ UNCHANGED <<backendVars, tstate, chan, plan, local, rows, inprogress, cl,
                   faults, history>>

OrphanDrop(o) ==
    /\ o \in orphans
    /\ orphans' = orphans \ {o}
    /\ work' = CloseSessions({o.w}, o.txn)
    /\ UNCHANGED <<backendVars, tstate, chan, plan, local, rows, inprogress, cl,
                   faults, history>>

(* The CN crashes and restarts: what was in memory is gone, with it        *)
(* InprogressTransactions and the connections; what committed stays.       *)
Crash ==
    LET left == LeftBehind(Backends \X Workers) IN
    /\ Fault("crash")
    /\ pc' = [b \in Backends |-> "idle"]
    /\ cur' = [b \in Backends |-> NoTxn]
    /\ await' = [b \in Backends |-> {}]
    /\ gid' = [b \in Backends |-> FALSE]
    /\ failed' = [b \in Backends |-> FALSE]
    /\ newRows' = [b \in Backends |-> {}]
    /\ tstate' = [b \in Backends |-> [w \in Workers |-> "NONE"]]
    /\ chan' = [b \in Backends |-> [w \in Workers |-> Quiet]]
    /\ orphans' = orphans \cup left
    /\ local' = [t \in Txns |-> IF local[t] = "active" THEN "aborted" ELSE local[t]]
    /\ work' = [w \in Workers |-> [t \in Txns |->
          IF work[w][t] = "open" /\ ~ \E o \in orphans' : o.w = w /\ o.txn = t
            THEN "aborted" ELSE work[w][t]]]
    /\ inprogress' = {}
    /\ cl' = CleanerIdle
    /\ UNCHANGED <<ran, plan, rows, history>>

-----------------------------------------------------------------------------
(* The cleanup daemon.  It reads the set A of the transactions prepared on *)
(* the worker, then the set B of those in progress here, the rows C, and   *)
(* the prepared transactions again, D.  Then it ends the transactions of   *)
(* C and of A one at a time.                                               *)
Prepared(w) == {t \in Txns : work[w][t] = "prepared"}

\* The worker cl.w is done: all of C and of A \ B has been looked at.
WorkerDone ==
    \/ cl.at = "next"
    \/ cl.at = "scan" /\ cl.C = {} /\ cl.A \subseteq cl.B

cleanerOnly == <<backendVars, connVars, plan, local, inprogress, history>>

CleanStart ==
    /\ cl.at = "idle"
    /\ cl' = [CleanerIdle EXCEPT !.at = "next", !.todo = Workers]
    /\ UNCHANGED <<cleanerOnly, work, rows, faults>>

\* A command that could not be sent to a worker before is sent again now, and
\* the first result of all, perhaps that worker's, is taken for w's.
ReadA(w, source) ==
    /\ WorkerDone
    /\ w \in cl.todo
    /\ source \in {w} \cup cl.stale
    /\ cl' = [cl EXCEPT !.at = "B", !.todo = @ \ {w}, !.w = w,
                        !.A = Prepared(source), !.stale = {}]
    /\ UNCHANGED <<cleanerOnly, work, rows, faults>>

ReadB ==
    /\ cl.at = "B"
    /\ cl' = [cl EXCEPT !.at = "C", !.B = inprogress]
    /\ UNCHANGED <<cleanerOnly, work, rows, faults>>

ReadC ==
    /\ cl.at = "C"
    /\ cl' = [cl EXCEPT !.at = "D",
                        !.C = {t \in Txns : <<cl.w, t>> \in rows \ cl.deleted}]
    /\ UNCHANGED <<cleanerOnly, work, rows, faults>>

ReadD ==
    /\ cl.at = "D"
    /\ cl' = [cl EXCEPT !.at = "scan", !.D = Prepared(cl.w)]
    /\ UNCHANGED <<cleanerOnly, work, rows, faults>>

\* CommitOrRollbackPreparedTransaction; an error ends the work on this worker.
Resolve(cmd, t, next) ==
    /\ work' = [work EXCEPT ![cl.w][t] = Done(cmd, @)]
    /\ cl' = IF Reply(cmd, work[cl.w][t]) = "ok" THEN next
                                                 ELSE [cl EXCEPT !.at = "next"]

\* Mutants: a transaction in A and D is taken for committed; what is in A is
\* rolled back without a look at B.
ScanCWithoutCommit(x) ==
    /\ cl.at = "scan"
    /\ x \in cl.C
    /\ cl' = [cl EXCEPT !.C = @ \ {x}, !.A = @ \ {x}]
    /\ UNCHANGED <<cleanerOnly, work, rows, faults>>

SweepAIgnoringB(y) ==
    /\ cl.at = "scan" /\ cl.C = {}
    /\ y \in cl.A
    /\ Resolve("ROLLBACK PREPARED", y, [cl EXCEPT !.A = @ \ {y}])
    /\ UNCHANGED <<cleanerOnly, rows, faults>>

(* The loop over C: leave a transaction that is in B, commit one that is   *)
(* in A and D, leave one that is only in D, and drop the row of the rest.  *)
ScanC(x) ==
    LET rest == [cl EXCEPT !.C = @ \ {x}]
        noA == [rest EXCEPT !.A = @ \ {x}]
    IN
    /\ cl.at = "scan"
    /\ x \in cl.C
    /\ IF x \notin cl.B /\ x \in cl.A /\ x \in cl.D
         THEN Resolve("COMMIT PREPARED", x, noA)
         ELSE /\ cl' = IF x \in cl.B \/ x \in cl.D THEN rest
                       ELSE [noA EXCEPT !.deleted = @ \cup {<<cl.w, x>>}]
              /\ UNCHANGED work
    /\ UNCHANGED <<cleanerOnly, rows, faults>>

(* The loop over A: what is left of it and is not in B has no row, so it   *)
(* is rolled back.                                                         *)
SweepA(y) ==
    /\ cl.at = "scan" /\ cl.C = {}
    /\ y \in cl.A \ cl.B
    /\ Resolve("ROLLBACK PREPARED", y, [cl EXCEPT !.A = @ \ {y}])
    /\ UNCHANGED <<cleanerOnly, rows, faults>>

(* An error on the daemon's connection to the worker: PG_CATCH goes on     *)
(* with the next one, and keeps the rows deleted so far.  A command that   *)
(* was not sent stays in remoteCommandList.                                *)
CleanFail(w, unsent) ==
    /\ \/ WorkerDone /\ w \in cl.todo
       \/ cl.at \in {"D", "scan"} /\ ~ WorkerDone /\ w = cl.w
    /\ Fault("break")
    /\ cl' = [cl EXCEPT !.at = "next", !.todo = @ \ {w},
                        !.stale = IF unsent THEN @ \cup {w} ELSE @]
    /\ UNCHANGED <<cleanerOnly, work, rows>>

\* The daemon's transaction commits, and with it the deletions.
CleanEnd ==
    /\ WorkerDone
    /\ cl.todo = {}
    /\ rows' = rows \ cl.deleted
    /\ cl' = CleanerIdle
    /\ UNCHANGED <<cleanerOnly, work, faults>>

\* The same after a command that ends a prepared transaction was sent.
CleanLose(t) ==
    LET toCommit == t \in (cl.A \cap cl.C \cap cl.D) \ cl.B
        toRollBack == cl.C = {} /\ t \in cl.A \ cl.B
        cmd == IF toCommit THEN "COMMIT PREPARED" ELSE "ROLLBACK PREPARED"
    IN
    /\ cl.at = "scan"
    /\ toCommit \/ toRollBack
    /\ Fault("break")
    /\ orphans' = orphans \cup {[w |-> cl.w, cmd |-> cmd, txn |-> t]}
    /\ cl' = [cl EXCEPT !.at = "next"]
    /\ UNCHANGED <<backendVars, tstate, chan, plan, local, work, rows,
                   inprogress, history>>

\* The daemon's transaction fails at its end; the daemon is started again.
CleanAbort ==
    /\ WorkerDone
    /\ cl.todo = {}
    /\ Fault("break")
    /\ cl' = CleanerIdle
    /\ UNCHANGED <<cleanerOnly, work, rows>>

-----------------------------------------------------------------------------
Step(b) ==
    \/ SendExec(b, {}) \/ PreCommit(b, {}) \/ PostCommit(b, {}) \/ Abort(b, {})
    \/ LocalCommit(b) \/ Finish(b)
    \/ \E w \in Workers :
          \/ FetchExec(b, w) \/ FetchPrepare(b, w)
          \/ FetchCommit(b, w) \/ FetchRollback(b, w)

Renew(b) ==
    \E R \in (SUBSET Workers) \ {{}} :
        SendExec(b, R) \/ PreCommit(b, R) \/ PostCommit(b, R) \/ Abort(b, R)

SendFails(b) ==
    \E f \in Workers, S \in SUBSET Workers :
        PreCommitSendFails(b, f, S) \/ PostCommitSendFails(b, f, S)

Daemon ==
    \/ CleanStart \/ ReadB \/ ReadC \/ ReadD \/ CleanEnd
    \/ \E w, s \in Workers : ReadA(w, s)
    \/ \E t \in Txns : ScanC(t) \/ SweepA(t)

DaemonFails ==
    \/ CleanAbort
    \/ \E w \in Workers, u \in BOOLEAN : CleanFail(w, u)
    \/ \E t \in Txns : CleanLose(t)

OrphanResolved == \E o \in orphans : OrphanRun(o) \/ OrphanDrop(o)

Next ==
    \/ \E b \in Backends, t \in Txns, p \in Plans : Begin(b, t, p)
    \/ \E b \in Backends : Step(b)
    \/ \E b \in Backends : Renew(b)
    \/ \E b \in Backends : SendFails(b) \/ LocalError(b)
    \/ \E b \in Backends, w \in Workers : Answer(b, w)
    \/ \E b \in Backends, w \in Workers : WorkerFails(b, w) \/ ConnBreak(b, w)
    \/ OrphanResolved
    \/ Crash
    \/ Daemon
    \/ DaemonFails

Spec == Init /\ [][Next]_vars

(* A backend runs to the end of its transaction, a worker answers, and the *)
(* daemon runs again every minute; failures are never owed.                *)
FairSpec ==
    /\ Spec
    /\ \A b \in Backends : WF_vars(Step(b))
    /\ \A b \in Backends, w \in Workers : WF_vars(Answer(b, w))
    /\ WF_vars(OrphanResolved)
    /\ WF_vars(Daemon)

-----------------------------------------------------------------------------
\* Transactions that went through PREPARE on connections in a clean state.
Clean(t) == t \in twoPhase \ dirty

(* A distributed operation is all or nothing: while the CN has not         *)
(* committed it no worker has, and once the CN has, every worker of it has *)
(* its part prepared or committed (FalconRemoteCommandPrepare,             *)
(* FalconRemoteCommandCommit, CleanupPreparedTransactions).                *)
CleanAtomicity ==
    \A t \in Txns : Clean(t) => \A w \in plan[t].parts :
        IF local[t] = "committed" THEN work[w][t] \in {"prepared", "committed"}
                                  ELSE work[w][t] # "committed"

(* InprogressTransactions lists every transaction that is prepared         *)
(* somewhere and not yet decided, and only transactions of backends that   *)
(* still run them; a row stands for a committed transaction whose part is  *)
(* prepared or committed (AddInprogressTransaction, ClearRemoteTransaction *)
(* Gid, Write2PCRecord).  The daemon's decisions rest on these facts.      *)
Bookkeeping ==
    /\ \A t \in Txns, w \in Workers :
          work[w][t] = "prepared" /\ local[t] = "active" => t \in inprogress
    /\ \A t \in inprogress : \E b \in Backends : cur[b] = t /\ gid[b]
    /\ \A r \in rows : local[r[2]] = "committed"
                     /\ work[r[1]][r[2]] \in {"prepared", "committed"}

\* All of it in one invariant.
Inv == TypeOK /\ CleanAtomicity /\ Bookkeeping

(* A worker that still has a committed operation only prepared has its row *)
(* in falcon_distributed_transaction: without it the daemon would roll the *)
(* operation back (Write2PCRecord, and the deletion of rows in             *)
(* CleanupPreparedTransactions).                                           *)
RecoveryPossible ==
    \A t \in Txns, w \in Workers :
        local[t] = "committed" /\ work[w][t] = "prepared"
            => <<w, t>> \in rows

(* The daemon never ends a transaction whose backend still counts it as in *)
(* progress, though the set B it looks at is from an earlier moment        *)
(* (GetActiveTransactionSet before the loops).  A crash of the CN, which   *)
(* stops the daemon too, empties the set.                                  *)
DaemonLeavesActive ==
    [][\A t \in Txns, w \in Workers :
          t \in inprogress \cap inprogress' /\ work'[w][t] # work[w][t]
              => cl' = cl]_vars

\* Why these hold (TwoPhaseCommitProofs).  A backend and its transaction: the
\* step says what the CN has decided, and gid that PREPARE was chosen.
BackendSound(b) ==
    LET t == cur[b] IN
    /\ pc[b] = "idle" <=> t = NoTxn
    /\ pc[b] = "idle" => ~ gid[b]
    /\ pc[b] \in {"begin", "exec", "precommit", "prepare", "local", "abort"}
          => local[t] = "active"
    /\ pc[b] \in {"postcommit", "commit"} => local[t] = "committed"
    /\ pc[b] = "rollback" => local[t] = "aborted"
    /\ pc[b] = "finish" => local[t] \in {"committed", "aborted"}
    /\ gid[b] => t \in inprogress
    /\ t \in twoPhase => gid[b]
    /\ pc[b] \in {"begin", "exec", "precommit"} => ~ gid[b]
    /\ pc[b] = "prepare" => gid[b]
    /\ failed[b] => pc[b] \in {"prepare", "abort", "rollback", "finish"}
    /\ pc[b] \in {"idle", "begin", "precommit", "local"} => await[b] = {}
    /\ pc[b] \in {"exec", "prepare"} => await[b] # {} /\ await[b] \subseteq Parts(b)
    /\ newRows[b] # {} => pc[b] \in {"prepare", "local", "abort"}
    /\ \A r \in newRows[b] : r[2] = t

Control ==
    /\ \A b \in Backends : BackendSound(b)
    /\ \A b, c \in Backends : cur[b] = cur[c] /\ cur[b] # NoTxn => b = c
    /\ \A t \in inprogress : \E b \in Backends : cur[b] = t /\ gid[b]
    /\ \A t \in twoPhase : local[t] # "none" /\ (local[t] = "active" => t \in inprogress)
    /\ \A r \in rows : local[r[2]] = "committed"
    /\ \A t \in Txns : local[t] = "none" <=> plan[t] = NoPlan

\* A command on a connection goes with the step of its backend or, when the
\* backend is past it, with the outcome.
MessageSound(b, w) ==
    LET m == chan[b][w] IN
    /\ m.cmd # "none" => m.txn \in Txns /\ local[m.txn] # "none"
    /\ m.cmd # "none" => \A c \in Backends : cur[c] = m.txn => c = b
    /\ m.cmd \in {"BEGIN", "EXEC"} =>
          /\ cur[b] = m.txn /\ pc[b] \in {"exec", "abort"} /\ w \in Parts(b)
          /\ pc[b] = "exec" => w \in await[b]
          /\ m.cmd = "EXEC" => m.txn \in dirty
    /\ m.cmd = "PREPARE" =>
          /\ cur[b] = m.txn /\ pc[b] \in {"prepare", "abort"} /\ w \in Parts(b)
          /\ pc[b] = "prepare" => w \in await[b]
          /\ gid[b] /\ m.txn \in twoPhase
    /\ m.cmd \in {"COMMIT", "COMMIT PREPARED"} => local[m.txn] = "committed"
    /\ m.cmd \in {"ROLLBACK", "ROLLBACK PREPARED"} => local[m.txn] = "aborted"
    /\ w \in await[b] /\ pc[b] \in {"exec", "prepare"} =>
          /\ m.txn = cur[b]
          /\ m.cmd \in {"ok", "fail", "lost"} \cup
                (IF pc[b] = "exec" THEN {"BEGIN", "EXEC"} ELSE {"PREPARE"})

Messages == \A b \in Backends, w \in Workers : MessageSound(b, w)

\* The transaction of b cannot commit any more, because of worker w.
Doomed(b, w) ==
    \/ pc[b] \in {"abort", "rollback", "finish"}
    \/ w \in await[b] /\ chan[b][w].cmd = "lost"
    \/ w \notin await[b] /\ failed[b]

OrphanSound(o) ==
    /\ o.cmd # "BEGIN"
    /\ o.cmd \in {"COMMIT", "COMMIT PREPARED"} => local[o.txn] = "committed"
    /\ o.cmd = "ROLLBACK" => local[o.txn] = "aborted"
    /\ o.cmd = "ROLLBACK PREPARED" => local[o.txn] \in {"committed", "aborted"}
    /\ o.cmd \in {"PREPARE", "EXEC"} =>
          /\ local[o.txn] \in {"active", "aborted"}
          /\ \A b \in Backends : cur[b] = o.txn => Doomed(b, o.w)
          /\ o.txn \in IF o.cmd = "PREPARE" THEN twoPhase ELSE dirty

\* The daemon's sets: what it may roll back is no longer in progress.
CleanerSound ==
    /\ cl.A \subseteq twoPhase
    /\ cl.at \in {"B", "C", "D", "scan"} => cl.w \in Workers
    /\ cl.at \in {"C", "D", "scan"} => (cl.A \ cl.B) \cap inprogress = {}
    /\ cl.at \in {"D", "scan"} => \A t \in cl.C : <<cl.w, t>> \in rows
    /\ cl.deleted \subseteq rows

Decisions ==
    /\ \A o \in orphans : OrphanSound(o)
    /\ \A t \in Txns, w \in Workers : work[w][t] = "prepared" => t \in twoPhase
    /\ CleanerSound

\* How far the workers are with the transaction of b.
PhaseSound(b) ==
    LET t == cur[b]
        clean == t \notin dirty /\ "lateRenew" \notin Faults
    IN
    /\ pc[b] = "begin" => \A w \in Workers : work[w][t] = "none"
    /\ pc[b] = "exec" =>
          /\ t \notin dirty => \A w \in Parts(b) : tstate[b][w] = "WRITE"
          /\ \A w \in Parts(b) : w \notin await[b] \/ chan[b][w].cmd = "ok"
                => work[w][t] \in {"open", "committed"}
    /\ pc[b] = "precommit" => \A w \in Parts(b) :
          /\ t \notin dirty => tstate[b][w] = "WRITE"
          /\ work[w][t] \in {"open", "committed"}
    /\ pc[b] = "prepare" =>
          /\ \A w \in await[b] :
                /\ chan[b][w].cmd = "PREPARE" => work[w][t] \in {"open", "committed"}
                /\ chan[b][w].cmd = "ok" => work[w][t] \in {"prepared", "committed"}
          /\ \A w \in Workers : work[w][t] = "prepared" =>
                failed[b] \/ w \in await[b] \/ <<w, t>> \in newRows[b]
          /\ clean => \A w \in Parts(b) :
                failed[b] \/ w \in await[b] \/ work[w][t] = "prepared"
    /\ pc[b] = "local" =>
          /\ \A w \in Workers : work[w][t] = "prepared" => <<w, t>> \in newRows[b]
          /\ clean /\ gid[b] => \A w \in Parts(b) : work[w][t] = "prepared"
    /\ pc[b] \in {"prepare", "local"} => \A r \in newRows[b] :
          work[r[1]][t] \in {"prepared", "committed"}

\* What the daemon sees of the workers, and what it may still do there.
CleanerSees ==
    /\ cl.at \in {"D", "scan"} => \A t \in cl.A \ (cl.B \cup cl.C) :
          local[t] = "committed" => work[cl.w][t] # "prepared"
    /\ cl.at = "scan" => \A t \in cl.C \ cl.D : work[cl.w][t] = "committed"
    /\ \A r \in cl.deleted : work[r[1]][r[2]] = "committed"
    /\ \A o \in orphans : o.cmd = "ROLLBACK PREPARED" /\ local[o.txn] = "committed"
          => work[o.w][o.txn] # "prepared"

Statuses ==
    /\ \A t \in Txns, w \in Workers :
          /\ local[t] = "none" => work[w][t] = "none"
          /\ work[w][t] = "committed" => local[t] = "committed" \/ t \in dirty
    /\ \A r \in rows : work[r[1]][r[2]] \in {"prepared", "committed"}
    /\ RecoveryPossible
    /\ "lateRenew" \notin Faults => CleanAtomicity
    /\ \A b \in Backends : PhaseSound(b)
    /\ CleanerSees

IInv == TypeOK /\ Control /\ Messages /\ Decisions /\ Statuses

(* No operation stays prepared on a worker, where it keeps its row locks   *)
(* for ever: the backend or the daemon ends it, whatever failed before     *)
(* (FalconDaemon2PCFailureCleanupProcessMain).                             *)
PreparedResolved ==
    \A t \in Txns, w \in Workers :
        work[w][t] = "prepared" ~> work[w][t] \in {"committed", "aborted"}

(* Every distributed operation is all or nothing, whatever its plan and    *)
(* whatever its connections were used for before: no server discards what  *)
(* the CN committed, and none keeps what the CN aborted.                   *)
Atomicity ==
    \A t \in Txns : \A w \in plan[t].parts :
        /\ local[t] = "committed" => work[w][t] # "aborted"
        /\ local[t] = "aborted" => work[w][t] # "committed"

-----------------------------------------------------------------------------
\* What the CN's own transaction and a worker's part of it stand for.
outcomeBar ==
    [t \in Txns |-> IF local[t] \in {"none", "active"} THEN "undecided"
                                                     ELSE local[t]]

PartBar(s) ==
    CASE s \in {"none", "open"} -> "working"
      [] s = "prepared" -> "prepared"
      [] s = "committed" -> "applied"
      [] s = "aborted" -> "discarded"

partBar ==
    [t \in Txns |-> [w \in Workers |->
        IF w \in plan[t].parts THEN PartBar(work[w][t]) ELSE "out"]]

AC == INSTANCE AtomicCommit
        WITH Servers <- Workers, outcome <- outcomeBar, part <- partBar

(* The protocol with its failures and its daemon implements atomic         *)
(* commitment when each transaction needs PREPARE and starts on clean      *)
(* connections (FalconTransactionCallback, remote_comm_falcon.c and        *)
(* transaction_cleanup.c together).                                        *)
ImplementsAtomicCommit == AC!Spec

=============================================================================
