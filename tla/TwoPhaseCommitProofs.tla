------------------------ MODULE TwoPhaseCommitProofs ------------------------
(***************************************************************************)
(* Proofs about TwoPhaseCommit, for any number of backends, transactions   *)
(* and workers, any plans and any failures.                                *)
(***************************************************************************)
EXTENDS TwoPhaseCommit, FiniteSetTheorems, TLAPS

ConnState == {"NONE", "WRITE", "PREPARE", "BAD"}

Wire == [cmd: Commands \cup {"none", "ok", "fail", "lost"}, txn: Txns \cup {NoTxn}]

(* The commands sent are well-typed messages.                              *)
LEMMA SendType ==
    ASSUME TypeOK, NEW b \in Backends, NEW W \in SUBSET Workers,
           NEW cmds \in [W -> Commands], Send(b, cmds)
    PROVE  /\ chan' \in [Backends -> [Workers -> Wire]]
           /\ await' \in [Backends -> SUBSET Workers]
<1>1. DOMAIN cmds = W
    OBVIOUS
<1>2. Quiet \in Wire
    BY DEF Quiet, Wire
<1>3. cur[b] \in Txns \cup {NoTxn}
    BY DEF TypeOK
<1>4. \A w \in W : [cmd |-> cmds[w], txn |-> cur[b]] \in Wire
    BY <1>3 DEF Wire
<1>5. chan \in [Backends -> [Workers -> Wire]]
    BY DEF TypeOK, Wire
<1>6. [w \in Workers |-> IF w \in DOMAIN cmds THEN [cmd |-> cmds[w], txn |-> cur[b]]
              ELSE IF w \in Parts(b) THEN Quiet ELSE chan[b][w]] \in [Workers -> Wire]
    BY <1>1, <1>2, <1>4, <1>5
<1>7. chan' \in [Backends -> [Workers -> Wire]]
    BY <1>5, <1>6 DEF Send
<1>8. await' \in [Backends -> SUBSET Workers]
    BY <1>1 DEF Send, TypeOK
<1> QED BY <1>7, <1>8

\* Where each command goes, one connection at a time.
Sent(b, W, cmds) ==
    /\ \A c \in Backends, w \in Workers :
          /\ c # b => chan'[c][w] = chan[c][w]
          /\ c = b => IF w \in W
                        THEN chan'[c][w].cmd = cmds[w] /\ chan'[c][w].txn = cur[b]
                        ELSE chan'[c][w] = IF w \in Parts(b) THEN Quiet ELSE chan[b][w]
    /\ \A c \in Backends : await'[c] = IF c = b THEN W ELSE await[c]
    /\ \A w \in Parts(b) : chan[b][w].cmd \notin Commands

(* This is what Send does.                                                 *)
LEMMA SendFacts ==
    ASSUME TypeOK, NEW b \in Backends, NEW W \in SUBSET Workers,
           NEW cmds \in [W -> Commands], Send(b, cmds)
    PROVE  Sent(b, W, cmds)
<1>1. DOMAIN cmds = W
    OBVIOUS
<1> QED BY <1>1 DEF Send, Sent, TypeOK

(* The parts of sessions that end are statuses.                            *)
LEMMA CloseType ==
    ASSUME TypeOK, NEW R, NEW t \in Txns \cup {NoTxn}
    PROVE  CloseSessions(R, t) \in [Workers -> [Txns -> WorkStatus]]
BY DEF CloseSessions, TypeOK, WorkStatus

(* A connection that is opened again has a state.                          *)
LEMMA ConnectedType ==
    ASSUME TypeOK, NEW b \in Backends, NEW R
    PROVE  Connected(b, R) \in [Workers -> ConnState]
BY DEF Connected, TypeOK, ConnState

(* A failure counts.                                                       *)
LEMMA FaultType ==
    ASSUME TypeOK, NEW k, Fault(k)
    PROVE  faults' \in 0..MaxFaults
BY ConstantsOK DEF Fault, TypeOK

(* Renewing connections counts faults and loses statuses within their types. *)
LEMMA RenewedType ==
    ASSUME TypeOK, NEW b \in Backends, NEW R, Renewed(b, R)
    PROVE  /\ faults' \in 0..MaxFaults
           /\ work' \in [Workers -> [Txns -> WorkStatus]]
<1>1. cur[b] \in Txns \cup {NoTxn}
    BY DEF TypeOK
<1>2. faults \in 0 .. MaxFaults
    BY DEF TypeOK
<1> QED BY <1>1, <1>2, FaultType, CloseType DEF Renewed

(* The workers of a backend's transaction.                                 *)
LEMMA PartsType ==
    ASSUME TypeOK, NEW b \in Backends, cur[b] \in Txns
    PROVE  Parts(b) \subseteq Workers
<1>1. plan[cur[b]] \in Plans \cup {NoPlan}
    BY DEF TypeOK
<1>2. \A p \in Plans \cup {NoPlan} : p.parts \subseteq Workers
    BY ConstantsOK DEF NoPlan
<1> QED BY <1>1, <1>2 DEF Parts

PcType == {"idle", "begin", "exec", "precommit", "prepare", "local", "postcommit",
           "commit", "abort", "rollback", "finish"}

\* The transaction of a backend, of a message and the daemon's worker are
\* there when they are needed.
Bound ==
    /\ \A b \in Backends : pc[b] # "idle" => cur[b] \in Txns
    /\ \A b \in Backends, w \in Workers :
          chan[b][w].cmd # "none" => chan[b][w].txn \in Txns
    /\ cl.at \in {"B", "C", "D", "scan"} => cl.w \in Workers

TypeInv == TypeOK /\ Bound

(* An operation begins.                                                    *)
LEMMA BeginType ==
    ASSUME TypeInv, NEW b \in Backends, NEW t \in Txns, NEW p \in Plans, Begin(b, t, p)
    PROVE  TypeInv'
<1>1. ran' \in [Backends -> 0..MaxPerBackend]
    BY ConstantsOK DEF TypeInv, TypeOK, Begin
<1>2. /\ plan' \in [Txns -> Plans \cup {NoPlan}]
      /\ pc' \in [Backends -> PcType] /\ cur' \in [Backends -> Txns \cup {NoTxn}]
      /\ local' \in [Txns -> {"none", "active", "committed", "aborted"}]
    BY DEF TypeInv, TypeOK, Begin, Goto, PcType
<1>3. TypeOK'
    BY <1>1, <1>2 DEF TypeInv, TypeOK, Begin, PcType, connVars, history
<1>4. Bound'
    BY DEF TypeInv, Bound, TypeOK, Begin, Goto, connVars
<1> QED BY <1>3, <1>4 DEF TypeInv

(* What the steps that send commands have in common.                       *)
LEMMA SendBound ==
    ASSUME TypeInv, NEW b \in Backends, NEW W \in SUBSET Workers, NEW s \in PcType,
           NEW cmds \in [W -> Commands], Send(b, cmds), Goto(b, s), pc[b] # "idle",
           cur' = cur, cl' = cl
    PROVE  Bound'
<1>1. cur[b] \in Txns
    BY DEF TypeInv, Bound
<1>2. \A c \in Backends, w \in Workers :
          chan'[c][w].cmd # "none" => chan'[c][w].txn \in Txns
  <2>1. Sent(b, W, cmds)
    BY SendFacts DEF TypeInv
  <2> QED BY <1>1, <2>1 DEF TypeInv, Bound, Quiet, Sent
<1>3. \A c \in Backends : pc'[c] # "idle" => cur'[c] \in Txns
    BY <1>1 DEF TypeInv, Bound, Goto, TypeOK
<1> QED BY <1>2, <1>3 DEF Bound, TypeInv

(* The same for those that fetch a result.                                 *)
LEMMA FetchType ==
    ASSUME TypeInv, NEW b \in Backends, NEW w \in Workers, NEW s \in PcType,
           NEW state \in ConnState,
           Fetched(b, w, state), Goto(b, s), pc[b] # "idle", cur' = cur, cl' = cl
    PROVE  /\ Bound'
           /\ chan' \in [Backends -> [Workers -> Wire]]
           /\ await' \in [Backends -> SUBSET Workers]
           /\ tstate' \in [Backends -> [Workers -> ConnState]]
           /\ pc' \in [Backends -> PcType]
<1>1. chan \in [Backends -> [Workers -> Wire]] /\ Quiet \in Wire
    BY DEF TypeInv, TypeOK, Wire, Quiet
<1>2. tstate \in [Backends -> [Workers -> ConnState]]
    BY DEF TypeInv, TypeOK, ConnState
<1>3. /\ chan' \in [Backends -> [Workers -> Wire]]
      /\ await' \in [Backends -> SUBSET Workers]
    BY <1>1 DEF TypeInv, TypeOK, Fetched
<1>4. tstate' \in [Backends -> [Workers -> ConnState]]
  <2>1. (IF chan[b][w].cmd = "lost" THEN "BAD" ELSE state) \in ConnState
    BY DEF ConnState
  <2> QED BY <1>2, <2>1 DEF Fetched
<1>5. pc' \in [Backends -> PcType]
    BY DEF TypeInv, TypeOK, PcType, Goto
<1>6. \A c \in Backends : pc'[c] # "idle" => cur'[c] \in Txns
    BY DEF TypeInv, Bound, Goto, TypeOK
<1>7. \A c \in Backends, v \in Workers :
          chan'[c][v].cmd # "none" => chan'[c][v].txn \in Txns
    BY <1>1 DEF TypeInv, Bound, Fetched, Quiet
<1> QED BY <1>3, <1>4, <1>5, <1>6, <1>7 DEF Bound, TypeInv

(* FalconSendCommandAndWaitForResult sends.                                *)
LEMMA SendExecType ==
    ASSUME TypeInv, NEW b \in Backends, NEW R \in SUBSET Workers, SendExec(b, R)
    PROVE  TypeInv'
<1> DEFINE ts == Connected(b, R)
           cmds == [w \in Parts(b) |-> IF ts[w] = "NONE" THEN "BEGIN" ELSE "EXEC"]
<1>1. cur[b] \in Txns /\ Parts(b) \subseteq Workers /\ ts \in [Workers -> ConnState]
    BY PartsType, ConnectedType DEF TypeInv, Bound, SendExec
<1>2. cmds \in [Parts(b) -> Commands] /\ Send(b, cmds)
    BY DEF Commands, SendExec
<1>3. /\ chan' \in [Backends -> [Workers -> Wire]]
      /\ await' \in [Backends -> SUBSET Workers]
    BY <1>1, <1>2, SendType DEF TypeInv
<1>4. Bound'
    BY <1>1, <1>2, SendBound DEF SendExec, PcType
<1>5. tstate' \in [Backends -> [Workers -> ConnState]]
  <2>1. [w \in Workers |-> IF w \in Parts(b) /\ ts[w] = "NONE"
                               THEN "WRITE" ELSE ts[w]] \in [Workers -> ConnState]
    BY <1>1 DEF ConnState
  <2> QED BY <2>1 DEF TypeInv, TypeOK, ConnState, SendExec
<1>6. faults' \in 0..MaxFaults /\ work' \in [Workers -> [Txns -> WorkStatus]]
    BY RenewedType DEF SendExec, TypeInv
<1>7. pc' \in [Backends -> PcType] /\ dirty' \subseteq Txns
    BY <1>1 DEF TypeInv, TypeOK, PcType, SendExec, Goto
<1>8. TypeOK'
    BY <1>3, <1>5, <1>6, <1>7 DEF TypeInv, TypeOK, SendExec, Wire, ConnState, PcType
<1> QED BY <1>4, <1>8 DEF TypeInv

(* FalconSendCommandAndWaitForResult fetches.                              *)
LEMMA FetchExecType ==
    ASSUME TypeInv, NEW b \in Backends, NEW w \in Workers, FetchExec(b, w)
    PROVE  TypeInv'
<1>1. PICK s \in PcType : Goto(b, s)
    BY DEF FetchExec, PcType
<1>2. tstate[b][w] \in ConnState
    BY DEF TypeInv, TypeOK, ConnState
<1>3. /\ Bound'
      /\ chan' \in [Backends -> [Workers -> Wire]]
      /\ await' \in [Backends -> SUBSET Workers]
      /\ tstate' \in [Backends -> [Workers -> ConnState]]
      /\ pc' \in [Backends -> PcType]
    BY <1>1, <1>2, FetchType DEF FetchExec
<1> QED BY <1>3 DEF TypeInv, TypeOK, FetchExec, Wire, ConnState, PcType, history

(* FalconRemoteCommandPrepare sends.                                       *)
LEMMA PreCommitType ==
    ASSUME TypeInv, NEW b \in Backends, NEW R \in SUBSET Workers, PreCommit(b, R)
    PROVE  TypeInv'
<1> DEFINE ts == Connected(b, R)
           W == {w \in Parts(b) : ts[w] = "WRITE"}
           cmds == [w \in W |-> "PREPARE"]
<1>1. cur[b] \in Txns /\ W \subseteq Workers /\ ts \in [Workers -> ConnState]
    BY PartsType, ConnectedType DEF TypeInv, Bound, PreCommit
<1>2. cmds \in [W -> Commands]
    BY DEF Commands
<1>3. /\ chan' \in [Backends -> [Workers -> Wire]]
      /\ await' \in [Backends -> SUBSET Workers]
      /\ Bound'
      /\ pc' \in [Backends -> PcType]
      /\ gid' \in [Backends -> BOOLEAN]
      /\ inprogress' \subseteq Txns /\ twoPhase' \subseteq Txns
  <2>1. CASE NeedTwoPhase(b, W)
    <3>1. Send(b, cmds) /\ StartTwoPhase(b) /\ Goto(b, "prepare")
      BY <2>1 DEF PreCommit
    <3>2. /\ chan' \in [Backends -> [Workers -> Wire]]
          /\ await' \in [Backends -> SUBSET Workers]
      BY <1>1, <1>2, <3>1, SendType DEF TypeInv
    <3>3. Bound'
      BY <1>1, <1>2, <3>1, SendBound DEF PreCommit, PcType
    <3> QED BY <1>1, <3>1, <3>2, <3>3 DEF TypeInv, TypeOK, Goto, PcType, StartTwoPhase
  <2>2. CASE ~ NeedTwoPhase(b, W)
    <3>1. Goto(b, "local") /\ UNCHANGED <<gid, inprogress, twoPhase, chan, await>>
      BY <2>2 DEF PreCommit
    <3>2. cur' = cur /\ cl' = cl
      BY DEF PreCommit
    <3> QED BY <1>1, <3>1, <3>2 DEF TypeInv, TypeOK, Bound, Goto, PcType, Wire
  <2> QED BY <2>1, <2>2
<1>4. tstate' \in [Backends -> [Workers -> ConnState]]
    BY <1>1 DEF TypeInv, TypeOK, ConnState, PreCommit
<1>5. faults' \in 0..MaxFaults /\ work' \in [Workers -> [Txns -> WorkStatus]]
    BY RenewedType DEF PreCommit, TypeInv
<1> QED BY <1>3, <1>4, <1>5 DEF TypeInv, TypeOK, PreCommit, Wire, ConnState, PcType

(* The same when a PREPARE cannot be sent.                                 *)
LEMMA PreCommitSendFailsType ==
    ASSUME TypeInv, NEW b \in Backends, NEW f \in Workers, NEW S \in SUBSET Workers,
           PreCommitSendFails(b, f, S)
    PROVE  TypeInv'
<1> DEFINE cmds == [w \in S |-> "PREPARE"]
<1>1. cur[b] \in Txns
    BY DEF TypeInv, Bound, PreCommitSendFails
<1>2. cmds \in [S -> Commands] /\ Send(b, cmds)
    BY DEF Commands, PreCommitSendFails
<1>3. /\ chan' \in [Backends -> [Workers -> Wire]]
      /\ await' \in [Backends -> SUBSET Workers]
    BY <1>2, SendType DEF TypeInv
<1>4. Bound'
    BY <1>1, <1>2, SendBound DEF PreCommitSendFails, PcType
<1>5. /\ tstate' \in [Backends -> [Workers -> ConnState]]
      /\ pc' \in [Backends -> PcType]
      /\ gid' \in [Backends -> BOOLEAN]
      /\ inprogress' \subseteq Txns /\ twoPhase' \subseteq Txns
    BY <1>1 DEF TypeInv, TypeOK, PreCommitSendFails, ConnState, Goto, PcType, StartTwoPhase
<1>6. faults' \in 0..MaxFaults /\ work' \in [Workers -> [Txns -> WorkStatus]]
    BY <1>1, CloseType, FaultType DEF PreCommitSendFails, TypeInv
<1> QED BY <1>3, <1>4, <1>5, <1>6
        DEF TypeInv, TypeOK, PreCommitSendFails, Wire, ConnState, PcType

(* FalconRemoteCommandPrepare fetches.                                     *)
LEMMA FetchPrepareType ==
    ASSUME TypeInv, NEW b \in Backends, NEW w \in Workers, FetchPrepare(b, w)
    PROVE  TypeInv'
<1>1. PICK s \in PcType : Goto(b, s)
    BY DEF FetchPrepare, PcType
<1>2. PICK state \in ConnState : Fetched(b, w, state)
  <2>1. tstate[b][w] \in ConnState
    BY DEF TypeInv, TypeOK, ConnState
  <2> QED BY <2>1 DEF FetchPrepare, ConnState
<1>3. /\ Bound'
      /\ chan' \in [Backends -> [Workers -> Wire]]
      /\ await' \in [Backends -> SUBSET Workers]
      /\ tstate' \in [Backends -> [Workers -> ConnState]]
      /\ pc' \in [Backends -> PcType]
    BY <1>1, <1>2, FetchType DEF FetchPrepare
<1>4. cur[b] \in Txns
    BY DEF TypeInv, Bound, FetchPrepare
<1>5. newRows' \in [Backends -> SUBSET (Workers \X Txns)]
    BY <1>4 DEF TypeInv, TypeOK, FetchPrepare
<1>6. failed' \in [Backends -> BOOLEAN]
    BY DEF TypeInv, TypeOK, FetchPrepare
<1> QED BY <1>3, <1>5, <1>6
        DEF TypeInv, TypeOK, FetchPrepare, Wire, ConnState, PcType, history

(* The local commit.                                                       *)
LEMMA LocalCommitType ==
    ASSUME TypeInv, NEW b \in Backends, LocalCommit(b)
    PROVE  TypeInv'
<1>1. cur[b] \in Txns
    BY DEF TypeInv, Bound, LocalCommit
<1>2. /\ newRows' \in [Backends -> SUBSET (Workers \X Txns)]
      /\ rows' \subseteq Workers \X Txns
      /\ pc' \in [Backends -> PcType]
      /\ local' \in [Txns -> {"none", "active", "committed", "aborted"}]
    BY <1>1 DEF TypeInv, TypeOK, LocalCommit, Goto, PcType
<1>3. Bound'
    BY <1>1 DEF TypeInv, TypeOK, Bound, LocalCommit, Goto, connVars
<1> QED BY <1>2, <1>3 DEF TypeInv, TypeOK, LocalCommit, PcType, connVars, history

(* A local error.                                                          *)
LEMMA LocalErrorType ==
    ASSUME TypeInv, NEW b \in Backends, LocalError(b)
    PROVE  TypeInv'
<1>1. faults' \in 0..MaxFaults
    BY FaultType DEF TypeInv, LocalError
<1>2. pc' \in [Backends -> PcType]
    BY DEF TypeInv, TypeOK, LocalError, Goto, PcType
<1>3. Bound'
    BY DEF TypeInv, TypeOK, Bound, LocalError, Goto, connVars
<1> QED BY <1>1, <1>2, <1>3 DEF TypeInv, TypeOK, LocalError, PcType, connVars, history

(* FalconRemoteCommandCommit sends.                                        *)
LEMMA PostCommitType ==
    ASSUME TypeInv, NEW b \in Backends, NEW R \in SUBSET Workers, PostCommit(b, R)
    PROVE  TypeInv'
<1> DEFINE ts == Connected(b, R)
           W == {w \in Parts(b) : ts[w] \in {"WRITE", "PREPARE"}}
           cmds == [w \in W |-> CommitCommand(ts[w])]
<1>1. W \subseteq Workers /\ ts \in [Workers -> ConnState]
    BY PartsType, ConnectedType DEF TypeInv, Bound, PostCommit
<1>2. cmds \in [W -> Commands] /\ Send(b, cmds)
    BY DEF Commands, CommitCommand, PostCommit
<1>3. /\ chan' \in [Backends -> [Workers -> Wire]]
      /\ await' \in [Backends -> SUBSET Workers]
    BY <1>1, <1>2, SendType DEF TypeInv
<1>4. PICK s \in PcType : Goto(b, s)
    BY DEF PcType, PostCommit
<1>5. Bound'
    BY <1>1, <1>2, <1>4, SendBound DEF PostCommit
<1>6. /\ tstate' \in [Backends -> [Workers -> ConnState]]
      /\ pc' \in [Backends -> PcType]
    BY <1>1, <1>4 DEF TypeInv, TypeOK, PostCommit, ConnState, Goto, PcType
<1>7. faults' \in 0..MaxFaults /\ work' \in [Workers -> [Txns -> WorkStatus]]
    BY RenewedType DEF PostCommit, TypeInv
<1> QED BY <1>3, <1>5, <1>6, <1>7
        DEF TypeInv, TypeOK, PostCommit, Wire, ConnState, PcType, history

(* The same when a command cannot be sent.                                 *)
LEMMA PostCommitSendFailsType ==
    ASSUME TypeInv, NEW b \in Backends, NEW f \in Workers, NEW S \in SUBSET Workers,
           PostCommitSendFails(b, f, S)
    PROVE  TypeInv'
<1> DEFINE cmds == [w \in S |-> CommitCommand(tstate[b][w])]
<1>1. cur[b] \in Txns
    BY DEF TypeInv, Bound, PostCommitSendFails
<1>2. cmds \in [S -> Commands] /\ Send(b, cmds)
    BY DEF Commands, CommitCommand, PostCommitSendFails
<1>3. /\ chan' \in [Backends -> [Workers -> Wire]]
      /\ await' \in [Backends -> SUBSET Workers]
    BY <1>2, SendType DEF TypeInv
<1>4. Bound'
    BY <1>1, <1>2, SendBound DEF PostCommitSendFails, PcType
<1>5. /\ tstate' \in [Backends -> [Workers -> ConnState]]
      /\ pc' \in [Backends -> PcType]
    BY <1>1 DEF TypeInv, TypeOK, PostCommitSendFails, ConnState, Goto, PcType
<1>6. faults' \in 0..MaxFaults /\ work' \in [Workers -> [Txns -> WorkStatus]]
    BY <1>1, CloseType, FaultType DEF PostCommitSendFails, TypeInv
<1> QED BY <1>3, <1>4, <1>5, <1>6
        DEF TypeInv, TypeOK, PostCommitSendFails, Wire, ConnState, PcType, history

(* FalconRemoteCommandCommit fetches.                                      *)
LEMMA FetchCommitType ==
    ASSUME TypeInv, NEW b \in Backends, NEW w \in Workers, FetchCommit(b, w)
    PROVE  TypeInv'
<1>1. PICK s \in PcType : Goto(b, s)
    BY DEF FetchCommit, PcType
<1>2. PICK state \in ConnState : Fetched(b, w, state)
  <2>1. tstate[b][w] \in ConnState
    BY DEF TypeInv, TypeOK, ConnState
  <2> QED BY <2>1 DEF FetchCommit, ConnState
<1>3. /\ Bound'
      /\ chan' \in [Backends -> [Workers -> Wire]]
      /\ await' \in [Backends -> SUBSET Workers]
      /\ tstate' \in [Backends -> [Workers -> ConnState]]
      /\ pc' \in [Backends -> PcType]
    BY <1>1, <1>2, FetchType DEF FetchCommit
<1> QED BY <1>3 DEF TypeInv, TypeOK, FetchCommit, Wire, ConnState, PcType, history

(* FalconRemoteCommandAbort sends.                                         *)
LEMMA AbortType ==
    ASSUME TypeInv, NEW b \in Backends, NEW R \in SUBSET Workers, Abort(b, R)
    PROVE  TypeInv'
<1> DEFINE ts == Connected(b, R)
           W == {w \in Parts(b) : ts[w] \in {"WRITE", "PREPARE"}}
           cmds == [w \in W |-> RollbackCommand(ts[w])]
<1>1. cur[b] \in Txns /\ W \subseteq Workers /\ ts \in [Workers -> ConnState]
    BY PartsType, ConnectedType DEF TypeInv, Bound, Abort
<1>2. cmds \in [W -> Commands] /\ Send(b, cmds)
    BY DEF Commands, RollbackCommand, Abort
<1>3. /\ chan' \in [Backends -> [Workers -> Wire]]
      /\ await' \in [Backends -> SUBSET Workers]
    BY <1>1, <1>2, SendType DEF TypeInv
<1>4. PICK s \in PcType : Goto(b, s)
    BY DEF PcType, Abort
<1>5. Bound'
    BY <1>1, <1>2, <1>4, SendBound DEF Abort
<1>6. /\ tstate' \in [Backends -> [Workers -> ConnState]]
      /\ pc' \in [Backends -> PcType]
      /\ local' \in [Txns -> {"none", "active", "committed", "aborted"}]
      /\ newRows' \in [Backends -> SUBSET (Workers \X Txns)]
    BY <1>1, <1>4 DEF TypeInv, TypeOK, Abort, ConnState, Goto, PcType
<1>7. faults' \in 0..MaxFaults /\ work' \in [Workers -> [Txns -> WorkStatus]]
    BY RenewedType DEF Abort, TypeInv
<1> QED BY <1>3, <1>5, <1>6, <1>7
        DEF TypeInv, TypeOK, Abort, Wire, ConnState, PcType, history

(* FalconRemoteCommandAbort fetches.                                       *)
LEMMA FetchRollbackType ==
    ASSUME TypeInv, NEW b \in Backends, NEW w \in Workers, FetchRollback(b, w)
    PROVE  TypeInv'
<1>1. PICK s \in PcType : Goto(b, s)
    BY DEF FetchRollback, PcType
<1>2. "NONE" \in ConnState
    BY DEF ConnState
<1>3. /\ Bound'
      /\ chan' \in [Backends -> [Workers -> Wire]]
      /\ await' \in [Backends -> SUBSET Workers]
      /\ tstate' \in [Backends -> [Workers -> ConnState]]
      /\ pc' \in [Backends -> PcType]
    BY <1>1, <1>2, FetchType DEF FetchRollback
<1> QED BY <1>3 DEF TypeInv, TypeOK, FetchRollback, Wire, ConnState, PcType, history

(* A transaction ends.                                                     *)
LEMMA FinishType ==
    ASSUME TypeInv, NEW b \in Backends, Finish(b)
    PROVE  TypeInv'
<1>1. /\ pc' \in [Backends -> PcType] /\ cur' \in [Backends -> Txns \cup {NoTxn}]
      /\ gid' \in [Backends -> BOOLEAN] /\ failed' \in [Backends -> BOOLEAN]
      /\ await' \in [Backends -> SUBSET Workers]
      /\ inprogress' \subseteq Txns
    BY DEF TypeInv, TypeOK, Finish, Goto, PcType
<1>2. Bound'
    BY DEF TypeInv, TypeOK, Bound, Finish, Goto, connVars
<1> QED BY <1>1, <1>2 DEF TypeInv, TypeOK, Finish, PcType, connVars, history

(* A worker executes commands only.                                        *)
LEMMA DoneType ==
    ASSUME NEW cmd, NEW s \in WorkStatus
    PROVE  Done(cmd, s) \in WorkStatus
BY DEF Done, WorkStatus

(* The status of one part changes.                                         *)
LEMMA WorkType ==
    ASSUME TypeOK, NEW w, NEW t, NEW s,
           (w \in Workers /\ t \in Txns) => s \in WorkStatus,
           work' = [work EXCEPT ![w][t] = s]
    PROVE  work' \in [Workers -> [Txns -> WorkStatus]]
BY DEF TypeOK

\* A result takes the place of the command on one connection.
ResultAt(b, w, r) ==
    /\ \A c \in Backends, v \in Workers : (c # b \/ v # w) => chan'[c][v] = chan[c][v]
    /\ chan'[b][w].cmd = r /\ chan'[b][w].txn = chan[b][w].txn

(* This is what the steps of a worker and of the network do.               *)
LEMMA ResultType ==
    ASSUME TypeInv, NEW b \in Backends, NEW w \in Workers,
           chan[b][w].cmd # "none",
           NEW r \in {"ok", "fail", "lost"}, chan' = [chan EXCEPT ![b][w].cmd = r],
           pc' = pc, cur' = cur, cl' = cl
    PROVE  /\ chan' \in [Backends -> [Workers -> Wire]]
           /\ Bound'
           /\ ResultAt(b, w, r)
<1>1. chan \in [Backends -> [Workers -> Wire]]
    BY DEF TypeInv, TypeOK, Wire
<1>2. chan[b][w] \in Wire
    BY <1>1
<1>3. [chan[b][w] EXCEPT !.cmd = r] \in Wire
    BY <1>2 DEF Wire
<1>4. chan' = [chan EXCEPT ![b] = [chan[b] EXCEPT ![w] = [chan[b][w] EXCEPT !.cmd = r]]]
    OBVIOUS
<1>5. chan' \in [Backends -> [Workers -> Wire]]
    BY <1>1, <1>3, <1>4
<1>6. \A c \in Backends, v \in Workers :
                IF c = b /\ v = w
                  THEN chan'[c][v] = [chan[b][w] EXCEPT !.cmd = r]
                  ELSE chan'[c][v] = chan[c][v]
    BY <1>1, <1>4
<1>7. [chan[b][w] EXCEPT !.cmd = r].cmd = r /\
      [chan[b][w] EXCEPT !.cmd = r].txn = chan[b][w].txn
    BY <1>2 DEF Wire
<1>8. chan[b][w].txn \in Txns
    BY DEF TypeInv, Bound
<1>9. Bound'
    BY <1>6, <1>7, <1>8 DEF TypeInv, Bound
<1> QED BY <1>5, <1>6, <1>7, <1>9 DEF ResultAt

(* A worker answers.                                                       *)
LEMMA AnswerType ==
    ASSUME TypeInv, NEW b \in Backends, NEW w \in Workers, Answer(b, w)
    PROVE  TypeInv'
<1>1. chan[b][w].cmd # "none"
    BY DEF Answer, Commands
<1>2. PICK r \in {"ok", "fail", "lost"} : chan' = [chan EXCEPT ![b][w].cmd = r]
    BY DEF Answer, Reply
<1>3. chan' \in [Backends -> [Workers -> Wire]] /\ Bound'
    BY <1>1, <1>2, ResultType DEF Answer, backendVars
<1>4. work' \in [Workers -> [Txns -> WorkStatus]]
  <2>1. chan[b][w].txn \in Txns
    BY <1>1 DEF TypeInv, Bound
  <2>2. work[w][chan[b][w].txn] \in WorkStatus
    BY <2>1 DEF TypeInv, TypeOK
  <2> QED BY <2>2, WorkType, DoneType DEF Answer, TypeInv
<1> QED BY <1>3, <1>4 DEF TypeInv, TypeOK, Answer, backendVars, Wire, history

(* A command fails.                                                        *)
LEMMA WorkerFailsType ==
    ASSUME TypeInv, NEW b \in Backends, NEW w \in Workers, WorkerFails(b, w)
    PROVE  TypeInv'
<1>1. chan[b][w].cmd # "none"
    BY DEF WorkerFails
<1>2. chan' \in [Backends -> [Workers -> Wire]] /\ Bound'
    BY <1>1, ResultType DEF WorkerFails, backendVars
<1>3. work' \in [Workers -> [Txns -> WorkStatus]]
    BY WorkType DEF WorkerFails, TypeInv, WorkStatus
<1>4. faults' \in 0..MaxFaults
    BY FaultType DEF WorkerFails, TypeInv
<1> QED BY <1>2, <1>3, <1>4 DEF TypeInv, TypeOK, WorkerFails, backendVars, Wire, history

(* The commands left behind are commands of transactions.                  *)
LEMMA LeftBehindType ==
    ASSUME TypeInv, NEW S \in SUBSET (Backends \X Workers)
    PROVE  LeftBehind(S) \subseteq [w: Workers, cmd: Commands, txn: Txns]
<1> SUFFICES ASSUME NEW d \in S, chan[d[1]][d[2]].cmd \in Commands \ {"BEGIN"}
             PROVE  [w |-> d[2], cmd |-> chan[d[1]][d[2]].cmd,
                     txn |-> chan[d[1]][d[2]].txn] \in [w: Workers, cmd: Commands, txn: Txns]
    BY DEF LeftBehind
<1>1. d[1] \in Backends /\ d[2] \in Workers
    OBVIOUS
<1>2. chan[d[1]][d[2]].txn \in Txns
    BY <1>1 DEF TypeInv, Bound, Commands
<1> QED BY <1>1, <1>2

(* A connection breaks.                                                    *)
LEMMA ConnBreakType ==
    ASSUME TypeInv, NEW b \in Backends, NEW w \in Workers, ConnBreak(b, w)
    PROVE  TypeInv'
<1>1. chan[b][w].cmd # "none"
    BY DEF ConnBreak, Commands
<1>2. chan' \in [Backends -> [Workers -> Wire]] /\ Bound'
    BY <1>1, ResultType DEF ConnBreak, backendVars
<1>3. work' \in [Workers -> [Txns -> WorkStatus]]
  <2>1. chan[b][w].txn \in Txns
    BY <1>1 DEF TypeInv, Bound
  <2>2. work' = work \/ work' = CloseSessions({w}, chan[b][w].txn)
    BY DEF ConnBreak
  <2>3. work \in [Workers -> [Txns -> WorkStatus]]
    BY DEF TypeInv, TypeOK
  <2> QED BY <2>1, <2>2, <2>3, CloseType DEF TypeInv
<1>4. faults' \in 0..MaxFaults
    BY FaultType DEF ConnBreak, TypeInv
<1>5. orphans' \subseteq [w: Workers, cmd: Commands, txn: Txns]
  <2>1. LeftBehind({<<b, w>>}) \subseteq [w: Workers, cmd: Commands, txn: Txns]
    BY LeftBehindType
  <2> QED BY <2>1 DEF TypeInv, TypeOK, ConnBreak
<1> QED BY <1>2, <1>3, <1>4, <1>5 DEF TypeInv, TypeOK, ConnBreak, backendVars, Wire, history

(* A command whose connection is gone is executed, or not.                 *)
LEMMA OrphanType ==
    ASSUME TypeInv, NEW o, OrphanRun(o) \/ OrphanDrop(o)
    PROVE  TypeInv'
<1>1. o \in orphans /\ o \in [w: Workers, cmd: Commands, txn: Txns]
    BY DEF TypeInv, TypeOK, OrphanRun, OrphanDrop
<1>2. work' \in [Workers -> [Txns -> WorkStatus]]
  <2>1. CASE OrphanRun(o)
    <3>1. work[o.w][o.txn] \in WorkStatus
      BY <1>1 DEF TypeInv, TypeOK
    <3> QED BY <2>1, <3>1, WorkType, DoneType DEF OrphanRun, TypeInv
  <2>2. CASE OrphanDrop(o)
    BY <1>1, <2>2, CloseType DEF OrphanDrop, TypeInv
  <2> QED BY <2>1, <2>2
<1>3. /\ orphans' \subseteq orphans /\ pc' = pc /\ cur' = cur /\ ran' = ran
      /\ await' = await /\ gid' = gid /\ failed' = failed /\ newRows' = newRows
      /\ tstate' = tstate /\ chan' = chan /\ plan' = plan /\ local' = local
      /\ rows' = rows /\ inprogress' = inprogress /\ cl' = cl /\ faults' = faults
      /\ twoPhase' = twoPhase /\ dirty' = dirty
    BY DEF OrphanRun, OrphanDrop, backendVars, history
<1>4. Bound'
    BY <1>3 DEF TypeInv, Bound
<1>5. TypeOK'
    BY <1>2, <1>3 DEF TypeInv, TypeOK
<1> QED BY <1>4, <1>5 DEF TypeInv

\* The daemon, and what it has read.
Cleaner == [at: {"idle", "next", "B", "C", "D", "scan"},
            todo: SUBSET Workers, w: Workers \cup {NoTxn},
            A: SUBSET Txns, B: SUBSET Txns, C: SUBSET Txns, D: SUBSET Txns,
            deleted: SUBSET (Workers \X Txns), stale: SUBSET Workers]

(* The daemon between two cycles.                                          *)
LEMMA CleanerIdleType == CleanerIdle \in Cleaner /\ CleanerIdle.at = "idle"
BY DEF CleanerIdle, Cleaner

(* The CN crashes.                                                         *)
LEMMA CrashType ==
    ASSUME TypeInv, Crash
    PROVE  TypeInv'
<1>1. /\ pc' \in [Backends -> PcType] /\ cur' \in [Backends -> Txns \cup {NoTxn}]
      /\ gid' \in [Backends -> BOOLEAN] /\ failed' \in [Backends -> BOOLEAN]
      /\ await' \in [Backends -> SUBSET Workers]
      /\ newRows' \in [Backends -> SUBSET (Workers \X Txns)]
      /\ inprogress' \subseteq Txns
    BY DEF Crash, PcType
<1>2. /\ tstate' \in [Backends -> [Workers -> ConnState]]
      /\ chan' \in [Backends -> [Workers -> Wire]]
    BY DEF Crash, ConnState, Wire, Quiet
<1>3. orphans' \subseteq [w: Workers, cmd: Commands, txn: Txns]
  <2>1. LeftBehind(Backends \X Workers) \subseteq [w: Workers, cmd: Commands, txn: Txns]
    BY LeftBehindType
  <2> QED BY <2>1 DEF TypeInv, TypeOK, Crash
<1>4. /\ local' \in [Txns -> {"none", "active", "committed", "aborted"}]
      /\ work' \in [Workers -> [Txns -> WorkStatus]]
    BY DEF TypeInv, TypeOK, Crash, WorkStatus
<1>5. faults' \in 0..MaxFaults
    BY FaultType DEF TypeInv, Crash
<1>6. cl' \in Cleaner /\ cl'.at = "idle"
    BY CleanerIdleType DEF Crash
<1>7. Bound'
    BY <1>6 DEF Bound, Crash, Quiet
<1>8. ran' = ran /\ plan' = plan /\ rows' = rows /\ twoPhase' = twoPhase /\ dirty' = dirty
    BY DEF Crash, history
<1>9. TypeOK'
    BY <1>1, <1>2, <1>3, <1>4, <1>5, <1>6, <1>8
       DEF TypeInv, TypeOK, PcType, ConnState, Wire, Cleaner
<1> QED BY <1>7, <1>9 DEF TypeInv

(* What the daemon's steps have in common.                                 *)
LEMMA CleanerType ==
    ASSUME TypeInv, UNCHANGED <<backendVars, tstate, chan, plan, local, inprogress, history>>,
           orphans' \subseteq [w: Workers, cmd: Commands, txn: Txns],
           cl' \in Cleaner, cl'.at \in {"B", "C", "D", "scan"} => cl'.w \in Workers,
           work' \in [Workers -> [Txns -> WorkStatus]], rows' \subseteq Workers \X Txns,
           faults' \in 0..MaxFaults
    PROVE  TypeInv'
<1>1. Bound'
    BY DEF TypeInv, Bound, backendVars
<1>2. TypeOK'
    BY DEF TypeInv, TypeOK, Cleaner, backendVars, history
<1> QED BY <1>1, <1>2 DEF TypeInv

(* The daemon reads.                                                       *)
LEMMA ReadType ==
    ASSUME TypeInv, CleanStart \/ ReadB \/ ReadC \/ ReadD
                    \/ \E w, s \in Workers : ReadA(w, s)
    PROVE  TypeInv'
<1>1. cl \in Cleaner /\ (cl.at \in {"B", "C", "D", "scan"} => cl.w \in Workers)
    BY DEF TypeInv, TypeOK, Bound, Cleaner
<1>2. inprogress \subseteq Txns
    BY DEF TypeInv, TypeOK
<1>3. cl' \in Cleaner /\ (cl'.at \in {"B", "C", "D", "scan"} => cl'.w \in Workers)
  <2>1. CASE CleanStart
    BY <2>1 DEF CleanStart, CleanerIdle, Cleaner
  <2>2. CASE ReadB
    BY <1>1, <1>2, <2>2 DEF ReadB, Cleaner
  <2>3. CASE ReadC
    BY <1>1, <2>3 DEF ReadC, Cleaner
  <2>4. CASE ReadD
    BY <1>1, <2>4 DEF ReadD, Cleaner, Prepared
  <2>5. ASSUME NEW w \in Workers, NEW s \in Workers, ReadA(w, s)
        PROVE  cl' \in Cleaner /\ cl'.w \in Workers
    <3>1. Prepared(s) \in SUBSET Txns
      BY DEF Prepared
    <3> QED BY <1>1, <2>5, <3>1 DEF ReadA, Cleaner
  <2> QED BY <2>1, <2>2, <2>3, <2>4, <2>5
<1>4. UNCHANGED <<backendVars, connVars, plan, local, inprogress, history, work, rows, faults>>
    BY DEF CleanStart, ReadA, ReadB, ReadC, ReadD, cleanerOnly
<1> QED BY <1>3, <1>4, CleanerType DEF connVars, TypeInv, TypeOK

(* The daemon ends a prepared transaction.                                 *)
LEMMA ResolveType ==
    ASSUME TypeInv, NEW cmd, NEW t \in Txns, NEW next \in Cleaner,
           cl.at = "scan", next.w = cl.w, Resolve(cmd, t, next)
    PROVE  /\ cl' \in Cleaner
           /\ cl'.at \in {"B", "C", "D", "scan"} => cl'.w \in Workers
           /\ work' \in [Workers -> [Txns -> WorkStatus]]
<1>1. cl \in Cleaner /\ cl.w \in Workers
    BY DEF TypeInv, TypeOK, Bound, Cleaner
<1>2. work[cl.w][t] \in WorkStatus
    BY <1>1 DEF TypeInv, TypeOK
<1>3. work' \in [Workers -> [Txns -> WorkStatus]]
    BY <1>2, WorkType, DoneType DEF TypeInv, Resolve
<1>4. cl' = next \/ cl' = [cl EXCEPT !.at = "next"]
    BY DEF Resolve
<1> QED BY <1>1, <1>3, <1>4 DEF Cleaner

(* The daemon's loops.                                                     *)
LEMMA ScanType ==
    ASSUME TypeInv, NEW t \in Txns, ScanC(t) \/ SweepA(t)
    PROVE  TypeInv'
<1>1. cl \in Cleaner /\ cl.at = "scan" /\ cl.w \in Workers
    BY DEF TypeInv, TypeOK, Bound, Cleaner, ScanC, SweepA
<1> DEFINE rest == [cl EXCEPT !.C = @ \ {t}]
           noA == [rest EXCEPT !.A = @ \ {t}]
           swept == [cl EXCEPT !.A = @ \ {t}]
           dropped == [noA EXCEPT !.deleted = @ \cup {<<cl.w, t>>}]
<1>2. /\ rest \in Cleaner /\ noA \in Cleaner /\ swept \in Cleaner /\ dropped \in Cleaner
      /\ rest.w = cl.w /\ noA.w = cl.w /\ swept.w = cl.w /\ dropped.w = cl.w
  <2>1. rest \in Cleaner /\ rest.w = cl.w /\ swept \in Cleaner /\ swept.w = cl.w
    BY <1>1 DEF Cleaner
  <2> HIDE DEF rest
  <2>2. noA \in Cleaner /\ noA.w = cl.w
    BY <2>1 DEF Cleaner
  <2> HIDE DEF noA
  <2>3. dropped \in Cleaner /\ dropped.w = cl.w
    BY <1>1, <2>2 DEF Cleaner
  <2> QED BY <2>1, <2>2, <2>3
<1>3. \/ Resolve("COMMIT PREPARED", t, noA)
      \/ Resolve("ROLLBACK PREPARED", t, swept)
      \/ (cl' = rest \/ cl' = dropped) /\ UNCHANGED work
    BY DEF ScanC, SweepA
<1> HIDE DEF rest, noA, swept, dropped
<1>4. /\ cl' \in Cleaner
      /\ cl'.at \in {"B", "C", "D", "scan"} => cl'.w \in Workers
      /\ work' \in [Workers -> [Txns -> WorkStatus]]
  <2>1. CASE Resolve("COMMIT PREPARED", t, noA)
    BY <1>1, <1>2, <2>1, ResolveType
  <2>2. CASE Resolve("ROLLBACK PREPARED", t, swept)
    BY <1>1, <1>2, <2>2, ResolveType
  <2>3. CASE (cl' = rest \/ cl' = dropped) /\ UNCHANGED work
    BY <1>1, <1>2, <2>3 DEF TypeInv, TypeOK
  <2> QED BY <1>3, <2>1, <2>2, <2>3
<1>5. UNCHANGED <<backendVars, connVars, plan, local, inprogress, history, rows, faults>>
    BY DEF ScanC, SweepA, cleanerOnly
<1> QED BY <1>4, <1>5, CleanerType DEF connVars, TypeInv, TypeOK

(* The daemon ends its cycle, or fails.                                    *)
LEMMA CleanEndType ==
    ASSUME TypeInv, CleanEnd \/ DaemonFails
    PROVE  TypeInv'
<1>1. cl \in Cleaner /\ (cl.at \in {"B", "C", "D", "scan"} => cl.w \in Workers)
    BY DEF TypeInv, TypeOK, Bound, Cleaner
<1>2. CASE CleanEnd
  <2>1. UNCHANGED <<backendVars, connVars, plan, local, inprogress, history, work, faults>>
        /\ rows' \subseteq rows /\ cl' = CleanerIdle
    BY <1>2 DEF CleanEnd, cleanerOnly
  <2> QED BY <2>1, CleanerType, CleanerIdleType DEF connVars, TypeInv, TypeOK
<1>3. CASE CleanAbort
  <2>1. UNCHANGED <<backendVars, connVars, plan, local, inprogress, history, work, rows>>
        /\ cl' = CleanerIdle /\ Fault("break")
    BY <1>3 DEF CleanAbort, cleanerOnly
  <2>2. faults' \in 0..MaxFaults
    BY <2>1, FaultType DEF TypeInv
  <2> QED BY <2>1, <2>2, CleanerType, CleanerIdleType DEF connVars, TypeInv, TypeOK
<1>4. ASSUME NEW w \in Workers, NEW u \in BOOLEAN, CleanFail(w, u) PROVE TypeInv'
  <2>1. UNCHANGED <<backendVars, connVars, plan, local, inprogress, history, work, rows>>
        /\ Fault("break")
    BY <1>4 DEF CleanFail, cleanerOnly
  <2>2. cl' \in Cleaner /\ cl'.at = "next"
    BY <1>1, <1>4 DEF CleanFail, Cleaner
  <2>3. faults' \in 0..MaxFaults
    BY <2>1, FaultType DEF TypeInv
  <2> QED BY <2>1, <2>2, <2>3, CleanerType DEF connVars, TypeInv, TypeOK
<1>5. ASSUME NEW t \in Txns, CleanLose(t) PROVE TypeInv'
  <2>1. UNCHANGED <<backendVars, tstate, chan, plan, local, inprogress, history, work, rows>>
        /\ Fault("break")
    BY <1>5 DEF CleanLose
  <2>2. cl' \in Cleaner /\ cl'.at = "next"
    BY <1>1, <1>5 DEF CleanLose, Cleaner
  <2>3. orphans' \subseteq [w: Workers, cmd: Commands, txn: Txns]
    <3>1. PICK cmd \in Commands : orphans' = orphans \cup {[w |-> cl.w, cmd |-> cmd, txn |-> t]}
      BY <1>5 DEF CleanLose, Commands
    <3>2. cl.w \in Workers
      BY <1>1, <1>5 DEF CleanLose
    <3> QED BY <3>1, <3>2 DEF TypeInv, TypeOK
  <2>4. faults' \in 0..MaxFaults
    BY <2>1, FaultType DEF TypeInv
  <2> QED BY <2>1, <2>2, <2>3, <2>4, CleanerType DEF TypeInv, TypeOK
<1> QED BY <1>2, <1>3, <1>4, <1>5 DEF DaemonFails

(* Every step of the program keeps the types.                              *)
LEMMA TypeStep ==
    ASSUME TypeInv, [Next]_vars
    PROVE  TypeInv'
<1>1. CASE UNCHANGED vars
    BY <1>1 DEF TypeInv, TypeOK, Bound, vars, backendVars, connVars, history
<1>2. ASSUME NEW b \in Backends, Step(b) PROVE TypeInv'
  <2>1. {} \in SUBSET Workers
    OBVIOUS
  <2> QED BY <1>2, <2>1, SendExecType, PreCommitType, PostCommitType, AbortType,
             LocalCommitType, FinishType, FetchExecType, FetchPrepareType,
             FetchCommitType, FetchRollbackType DEF Step
<1>3. ASSUME NEW b \in Backends, Renew(b) PROVE TypeInv'
    BY <1>3, SendExecType, PreCommitType, PostCommitType, AbortType DEF Renew
<1>4. ASSUME NEW b \in Backends, SendFails(b) \/ LocalError(b) PROVE TypeInv'
    BY <1>4, PreCommitSendFailsType, PostCommitSendFailsType, LocalErrorType DEF SendFails
<1>5. CASE Daemon
    BY <1>5, ReadType, ScanType, CleanEndType DEF Daemon
<1> QED BY <1>1, <1>2, <1>3, <1>4, <1>5, BeginType, AnswerType, WorkerFailsType,
           ConnBreakType, OrphanType, CrashType, CleanEndType
        DEF Next, OrphanResolved

-----------------------------------------------------------------------------
\* A step of b leaves the other backends and their transactions alone.
Others(b) ==
    /\ \A c \in Backends \ {b} :
          /\ pc'[c] = pc[c] /\ cur'[c] = cur[c] /\ gid'[c] = gid[c]
          /\ failed'[c] = failed[c] /\ await'[c] = await[c] /\ newRows'[c] = newRows[c]
    /\ \A t \in Txns : t # cur[b] =>
          /\ local'[t] = local[t] /\ plan'[t] = plan[t]
          /\ t \in inprogress' <=> t \in inprogress
          /\ t \in twoPhase' <=> t \in twoPhase

(* Then what is said of the other backends still holds.                    *)
LEMMA OthersSound ==
    ASSUME TypeInv, TypeInv', Control, NEW b \in Backends, Others(b),
           pc[b] # "idle", NEW c \in Backends, c # b
    PROVE  BackendSound(c)'
<1>1. cur[b] \in Txns /\ BackendSound(c) /\ NoTxn \notin Txns
    BY ConstantsOK DEF TypeInv, Bound, Control
<1>2. cur[c] # cur[b]
    BY <1>1 DEF Control, BackendSound
<1>3. /\ pc'[c] = pc[c] /\ cur'[c] = cur[c] /\ gid'[c] = gid[c]
      /\ failed'[c] = failed[c] /\ await'[c] = await[c] /\ newRows'[c] = newRows[c]
    BY DEF Others
<1>4. CASE cur[c] = NoTxn
  <2>1. pc[c] = "idle"
    BY <1>1, <1>4 DEF BackendSound
  <2>2. cur[c] \notin twoPhase' /\ ~ gid[c] /\ newRows[c] = {}
    BY <1>1, <1>4, <2>1 DEF BackendSound, TypeInv, TypeOK
  <2> QED BY <1>1, <1>3, <1>4, <2>1, <2>2 DEF BackendSound
<1>5. CASE cur[c] \in Txns
  <2>1. /\ local'[cur[c]] = local[cur[c]] /\ plan'[cur[c]] = plan[cur[c]]
        /\ cur[c] \in inprogress' <=> cur[c] \in inprogress
        /\ cur[c] \in twoPhase' <=> cur[c] \in twoPhase
    BY <1>2, <1>5 DEF Others
  <2> QED BY <1>1, <1>3, <2>1 DEF BackendSound, Parts
<1> QED BY <1>4, <1>5 DEF TypeInv, TypeOK

(* A step of b inside its transaction keeps Control.                       *)
LEMMA ControlFrame ==
    ASSUME TypeInv, TypeInv', Control, NEW b \in Backends, Others(b),
           pc[b] # "idle", cur' = cur, BackendSound(b)',
           cur[b] \in inprogress' => gid'[b],
           cur[b] \in twoPhase' /\ local'[cur[b]] = "active" => cur[b] \in inprogress',
           local'[cur[b]] # "none", plan' = plan,
           \A r \in rows' : (r \in rows /\ r[2] # cur[b]) \/ local'[r[2]] = "committed"
    PROVE  Control'
<1>1. cur[b] \in Txns
    BY DEF TypeInv, Bound
<1>2. \A c \in Backends : BackendSound(c)'
    BY OthersSound
<1>3. \A t \in inprogress' : \E c \in Backends : cur'[c] = t /\ gid'[c]
  <2>1. ASSUME NEW t \in inprogress', t # cur[b]
        PROVE  \E c \in Backends : cur'[c] = t /\ gid'[c]
    <3>1. t \in inprogress
      BY <2>1 DEF Others, TypeInv, TypeOK
    <3>2. PICK c \in Backends : cur[c] = t /\ gid[c]
      BY <3>1 DEF Control
    <3> QED BY <2>1, <3>2 DEF Others
  <2> QED BY <2>1
<1>4. ASSUME NEW t \in twoPhase'
      PROVE  local'[t] # "none" /\ (local'[t] = "active" => t \in inprogress')
  <2>1. CASE t # cur[b]
    <3>1. t \in Txns
      BY DEF TypeInv, TypeOK
    <3> QED BY <2>1, <3>1 DEF Control, Others
  <2> QED BY <2>1
<1>5. \A r \in rows' : local'[r[2]] = "committed"
  <2>1. ASSUME NEW r \in rows', r \in rows, r[2] # cur[b] PROVE local'[r[2]] = "committed"
    <3>1. r[2] \in Txns /\ local[r[2]] = "committed"
      BY <2>1 DEF TypeInv, TypeOK, Control
    <3> QED BY <2>1, <3>1 DEF Others
  <2> QED BY <2>1
<1>6. \A t \in Txns : local'[t] = "none" <=> plan'[t] = NoPlan
  <2>1. local[cur[b]] # "none"
    BY DEF TypeInv, TypeOK, Control, BackendSound
  <2> QED BY <1>1, <2>1 DEF Control, Others
<1> QED BY <1>2, <1>3, <1>4, <1>5, <1>6 DEF Control

(* So does a step of a worker or of the daemon.                            *)
LEMMA ControlStays ==
    ASSUME TypeInv, Control,
           UNCHANGED <<backendVars, plan, local, inprogress, twoPhase>>, rows' \subseteq rows
    PROVE  Control'
<1>1. /\ pc' = pc /\ cur' = cur /\ gid' = gid /\ failed' = failed /\ await' = await
      /\ newRows' = newRows /\ plan' = plan /\ local' = local
      /\ inprogress' = inprogress /\ twoPhase' = twoPhase
    BY DEF backendVars
<1>2. \A b \in Backends : BackendSound(b)'
    BY <1>1 DEF Control, BackendSound, Parts
<1> QED BY <1>1, <1>2 DEF Control

(* FalconSendCommandAndWaitForResult and Control.                          *)
LEMMA SendExecControl ==
    ASSUME TypeInv, TypeInv', Control, NEW b \in Backends, NEW R \in SUBSET Workers,
           SendExec(b, R)
    PROVE  Control'
<1>1. cur[b] \in Txns /\ Parts(b) \subseteq Workers /\ BackendSound(b) /\ pc[b] = "begin"
    BY PartsType DEF TypeInv, Bound, SendExec, Control
<1>2. /\ pc' = [pc EXCEPT ![b] = "exec"] /\ await' = [await EXCEPT ![b] = Parts(b)]
      /\ UNCHANGED <<cur, gid, failed, newRows, plan, local, rows, inprogress, twoPhase>>
    BY DEF SendExec, Goto, Send
<1>3. Parts(b) # {}
  <2>1. plan[cur[b]] \in Plans \cup {NoPlan}
    BY <1>1 DEF TypeInv, TypeOK
  <2>2. plan[cur[b]] # NoPlan
    BY <1>1 DEF Control, BackendSound
  <2> QED BY <2>1, <2>2, ConstantsOK DEF Parts
<1>4. Others(b)
    BY <1>2 DEF Others, TypeInv, TypeOK
<1>5. BackendSound(b)'
    BY <1>1, <1>2, <1>3 DEF BackendSound, Parts, TypeInv, TypeOK
<1> QED BY <1>1, <1>2, <1>4, <1>5, ControlFrame DEF BackendSound, Control

(* The first result that is bad raises.                                    *)
LEMMA FetchExecControl ==
    ASSUME TypeInv, TypeInv', Control, NEW b \in Backends, NEW w \in Workers,
           FetchExec(b, w)
    PROVE  Control'
<1>1. cur[b] \in Txns /\ BackendSound(b) /\ pc[b] = "exec" /\ w \in await[b]
    BY DEF TypeInv, Bound, FetchExec, HasResult, Control
<1>2. PICK s \in {"abort", "precommit", "exec"} :
         /\ pc' = [pc EXCEPT ![b] = s]
         /\ s = "precommit" => await[b] = {w}
         /\ s = "exec" => await[b] # {w}
    BY DEF FetchExec, Goto
<1>3. /\ await' = [await EXCEPT ![b] = await[b] \ {w}]
      /\ UNCHANGED <<cur, gid, failed, newRows, plan, local, rows, inprogress, twoPhase>>
    BY DEF FetchExec, Fetched, history
<1>4. Others(b)
    BY <1>2, <1>3 DEF Others, TypeInv, TypeOK
<1>5. BackendSound(b)'
  <2>1. /\ s = "precommit" => await'[b] = {}
        /\ s = "exec" => await'[b] # {} /\ await'[b] \subseteq Parts(b)
    BY <1>1, <1>2, <1>3 DEF BackendSound, TypeInv, TypeOK
  <2> QED BY <1>1, <1>2, <1>3, <2>1 DEF BackendSound, Parts, TypeInv, TypeOK
<1> QED BY <1>1, <1>3, <1>4, <1>5, ControlFrame DEF BackendSound, Control

(* PREPARE is chosen, or not.                                              *)
LEMMA PreCommitControl ==
    ASSUME TypeInv, TypeInv', Control, NEW b \in Backends, NEW R \in SUBSET Workers,
           PreCommit(b, R)
    PROVE  Control'
<1> DEFINE W == {w \in Parts(b) : Connected(b, R)[w] = "WRITE"}
<1>1. cur[b] \in Txns /\ BackendSound(b) /\ pc[b] = "precommit"
    BY DEF TypeInv, Bound, PreCommit, Control
<1>2. UNCHANGED <<cur, failed, newRows, plan, local, rows>>
    BY DEF PreCommit
<1>3. CASE NeedTwoPhase(b, W)
  <2>1. /\ pc' = [pc EXCEPT ![b] = "prepare"] /\ await' = [await EXCEPT ![b] = W]
        /\ gid' = [gid EXCEPT ![b] = TRUE]
        /\ inprogress' = inprogress \cup {cur[b]} /\ twoPhase' = twoPhase \cup {cur[b]}
    BY <1>3 DEF PreCommit, Goto, Send, StartTwoPhase
  <2>2. W # {}
    <3>1. ASSUME W = {} PROVE FALSE
      <4>1. Cardinality(W) = 0
        BY <3>1, FS_EmptySet
      <4> QED BY <1>3, <4>1 DEF NeedTwoPhase
    <3> QED BY <3>1
  <2> HIDE DEF W
  <2>3. W \subseteq Parts(b)
    BY DEF W
  <2>4. Others(b)
    BY <1>2, <2>1 DEF Others, TypeInv, TypeOK
  <2>5. BackendSound(b)'
    BY <1>1, <1>2, <2>1, <2>2, <2>3 DEF BackendSound, Parts, TypeInv, TypeOK
  <2>6. gid'[b] /\ cur[b] \in inprogress'
    BY <2>1 DEF TypeInv, TypeOK
  <2> QED BY <1>1, <1>2, <2>4, <2>5, <2>6, ControlFrame DEF BackendSound, Control
<1>4. CASE ~ NeedTwoPhase(b, W)
  <2>1. /\ pc' = [pc EXCEPT ![b] = "local"]
        /\ UNCHANGED <<gid, inprogress, twoPhase, chan, await>>
    BY <1>4 DEF PreCommit, Goto
  <2>2. Others(b)
    BY <1>2, <2>1 DEF Others, TypeInv, TypeOK
  <2>3. BackendSound(b)'
    BY <1>1, <1>2, <2>1 DEF BackendSound, Parts, TypeInv, TypeOK
  <2> QED BY <1>1, <1>2, <2>1, <2>2, <2>3, ControlFrame DEF BackendSound, Control
<1> QED BY <1>3, <1>4

(* A PREPARE cannot be sent.                                               *)
LEMMA PreCommitSendFailsControl ==
    ASSUME TypeInv, TypeInv', Control, NEW b \in Backends, NEW f \in Workers,
           NEW S \in SUBSET Workers, PreCommitSendFails(b, f, S)
    PROVE  Control'
<1>1. cur[b] \in Txns /\ BackendSound(b) /\ pc[b] = "precommit"
    BY DEF TypeInv, Bound, PreCommitSendFails, Control
<1>2. /\ pc' = [pc EXCEPT ![b] = "abort"] /\ await' = [await EXCEPT ![b] = S]
      /\ gid' = [gid EXCEPT ![b] = TRUE]
      /\ inprogress' = inprogress \cup {cur[b]} /\ twoPhase' = twoPhase \cup {cur[b]}
      /\ UNCHANGED <<cur, failed, newRows, plan, local, rows>>
    BY DEF PreCommitSendFails, Goto, Send, StartTwoPhase
<1>3. Others(b)
    BY <1>2 DEF Others, TypeInv, TypeOK
<1>4. BackendSound(b)'
    BY <1>1, <1>2 DEF BackendSound, Parts, TypeInv, TypeOK
<1>5. gid'[b] /\ cur[b] \in inprogress'
    BY <1>2 DEF TypeInv, TypeOK
<1> QED BY <1>1, <1>2, <1>3, <1>4, <1>5, ControlFrame DEF BackendSound, Control

(* The results of PREPARE.                                                 *)
LEMMA FetchPrepareControl ==
    ASSUME TypeInv, TypeInv', Control, NEW b \in Backends, NEW w \in Workers,
           FetchPrepare(b, w)
    PROVE  Control'
<1>1. cur[b] \in Txns /\ BackendSound(b) /\ pc[b] = "prepare" /\ w \in await[b]
    BY DEF TypeInv, Bound, FetchPrepare, HasResult, Control
<1>2. PICK s \in {"abort", "local", "prepare"} :
         /\ pc' = [pc EXCEPT ![b] = s]
         /\ s \in {"abort", "local"} => await[b] = {w}
         /\ s = "local" => ~ failed'[b]
         /\ s = "prepare" => await[b] # {w}
    BY DEF FetchPrepare, Goto
<1>3. /\ await' = [await EXCEPT ![b] = await[b] \ {w}]
      /\ UNCHANGED <<cur, gid, plan, local, rows, inprogress, twoPhase>>
      /\ newRows' = [newRows EXCEPT ![b] = newRows[b] \cup {<<w, cur[b]>>}]
         \/ newRows' = newRows
      /\ \A c \in Backends \ {b} : failed'[c] = failed[c]
    BY DEF FetchPrepare, Fetched, history, TypeInv, TypeOK
<1>4. /\ \A c \in Backends \ {b} : newRows'[c] = newRows[c]
      /\ \A r \in newRows'[b] : r \in newRows[b] \/ r[2] = cur[b]
    BY <1>3 DEF TypeInv, TypeOK
<1>5. Others(b)
    BY <1>2, <1>3, <1>4 DEF Others, TypeInv, TypeOK
<1>6. BackendSound(b)'
  <2>1. /\ s = "local" => await'[b] = {}
        /\ s = "prepare" => await'[b] # {} /\ await'[b] \subseteq Parts(b)
    BY <1>1, <1>2, <1>3 DEF BackendSound, TypeInv, TypeOK
  <2>2. \A r \in newRows'[b] : r[2] = cur[b]
    BY <1>1, <1>4 DEF BackendSound
  <2>3. pc'[b] = s
    BY <1>2 DEF TypeInv, TypeOK
  <2> QED BY <1>1, <1>2, <1>3, <2>1, <2>2, <2>3 DEF BackendSound, Parts
<1>7. \A r \in rows' : (r \in rows /\ r[2] # cur[b]) \/ local'[r[2]] = "committed"
    BY <1>3 DEF Control
<1> QED BY <1>1, <1>3, <1>5, <1>6, <1>7, ControlFrame DEF BackendSound, Control

(* The local commit decides.                                               *)
LEMMA LocalCommitControl ==
    ASSUME TypeInv, TypeInv', Control, NEW b \in Backends, LocalCommit(b)
    PROVE  Control'
<1>1. cur[b] \in Txns /\ BackendSound(b) /\ pc[b] = "local"
    BY DEF TypeInv, Bound, LocalCommit, Control
<1>2. /\ pc' = [pc EXCEPT ![b] = "postcommit"]
      /\ local' = [local EXCEPT ![cur[b]] = "committed"]
      /\ newRows' = [newRows EXCEPT ![b] = {}] /\ rows' = rows \cup newRows[b]
      /\ UNCHANGED <<cur, await, gid, failed, plan, inprogress, twoPhase>>
    BY DEF LocalCommit, Goto, history
<1>3. Others(b)
    BY <1>2 DEF Others, TypeInv, TypeOK
<1>4. BackendSound(b)'
    BY <1>1, <1>2 DEF BackendSound, Parts, TypeInv, TypeOK
<1>5. local'[cur[b]] = "committed" /\ pc'[b] = "postcommit"
    BY <1>1, <1>2 DEF TypeInv, TypeOK
<1>6. \A r \in rows' : (r \in rows /\ r[2] # cur[b]) \/ local'[r[2]] = "committed"
    BY <1>1, <1>2, <1>5 DEF BackendSound
<1>7. cur[b] \in inprogress' => gid'[b]
    BY <1>1, <1>2 DEF Control, BackendSound
<1> QED BY <1>1, <1>2, <1>3, <1>4, <1>5, <1>6, <1>7, ControlFrame

(* A local error leads to the abort.                                       *)
LEMMA LocalErrorControl ==
    ASSUME TypeInv, TypeInv', Control, NEW b \in Backends, LocalError(b)
    PROVE  Control'
<1>1. cur[b] \in Txns /\ BackendSound(b) /\ pc[b] \in {"precommit", "local"}
    BY DEF TypeInv, Bound, LocalError, Control
<1>2. /\ pc' = [pc EXCEPT ![b] = "abort"]
      /\ UNCHANGED <<cur, await, gid, failed, newRows, plan, local, rows, inprogress, twoPhase>>
    BY DEF LocalError, Goto, history
<1>3. Others(b)
    BY <1>2 DEF Others, TypeInv, TypeOK
<1>4. BackendSound(b)'
    BY <1>1, <1>2 DEF BackendSound, Parts, TypeInv, TypeOK
<1> QED BY <1>1, <1>2, <1>3, <1>4, ControlFrame DEF BackendSound, Control

(* FalconRemoteCommandCommit sends; its answers change nothing here.       *)
LEMMA PostCommitControl ==
    ASSUME TypeInv, TypeInv', Control, NEW b \in Backends,
           \/ \E R \in SUBSET Workers : PostCommit(b, R)
           \/ \E f \in Workers, S \in SUBSET Workers : PostCommitSendFails(b, f, S)
           \/ \E w \in Workers : FetchCommit(b, w)
    PROVE  Control'
<1>1. cur[b] \in Txns /\ BackendSound(b) /\ pc[b] \in {"postcommit", "commit"}
    BY DEF TypeInv, Bound, PostCommit, PostCommitSendFails, FetchCommit, Control
<1>2. PICK s \in {"commit", "finish"} : pc' = [pc EXCEPT ![b] = s]
    BY DEF PostCommit, PostCommitSendFails, FetchCommit, Goto
<1>3. UNCHANGED <<cur, gid, failed, newRows, plan, local, rows, inprogress, twoPhase>>
    BY DEF PostCommit, PostCommitSendFails, FetchCommit, history
<1>4. \A c \in Backends \ {b} : await'[c] = await[c]
  <2>1. \E e : await' = [await EXCEPT ![b] = e]
    BY DEF PostCommit, PostCommitSendFails, FetchCommit, Fetched, Send
  <2> QED BY <2>1 DEF TypeInv, TypeOK
<1>5. Others(b)
    BY <1>2, <1>3, <1>4 DEF Others, TypeInv, TypeOK
<1>6. BackendSound(b)'
    BY <1>1, <1>2, <1>3 DEF BackendSound, TypeInv, TypeOK
<1> QED BY <1>1, <1>3, <1>5, <1>6, ControlFrame DEF BackendSound, Control

(* FalconRemoteCommandAbort after the local abort.                         *)
LEMMA AbortControl ==
    ASSUME TypeInv, TypeInv', Control, NEW b \in Backends, NEW R \in SUBSET Workers,
           Abort(b, R)
    PROVE  Control'
<1>1. cur[b] \in Txns /\ BackendSound(b) /\ pc[b] = "abort"
    BY DEF TypeInv, Bound, Abort, Control
<1>2. PICK s \in {"rollback", "finish"} : pc' = [pc EXCEPT ![b] = s]
    BY DEF Abort, Goto
<1>3. /\ local' = [local EXCEPT ![cur[b]] = "aborted"]
      /\ newRows' = [newRows EXCEPT ![b] = {}]
      /\ UNCHANGED <<cur, gid, failed, plan, rows, inprogress, twoPhase>>
    BY DEF Abort, history
<1>4. \A c \in Backends \ {b} : await'[c] = await[c]
    BY DEF Abort, Send, TypeInv, TypeOK
<1>5. Others(b)
    BY <1>2, <1>3, <1>4 DEF Others, TypeInv, TypeOK
<1>6. BackendSound(b)'
    BY <1>1, <1>2, <1>3 DEF BackendSound, TypeInv, TypeOK
<1>7. local'[cur[b]] = "aborted"
    BY <1>1, <1>3 DEF TypeInv, TypeOK
<1>8. \A r \in rows' : r \in rows /\ r[2] # cur[b]
    BY <1>1, <1>3 DEF Control, BackendSound
<1>9. cur[b] \in inprogress' => gid'[b]
    BY <1>1, <1>3 DEF Control, BackendSound
<1> QED BY <1>1, <1>3, <1>5, <1>6, <1>7, <1>8, <1>9, ControlFrame

(* The answers to ROLLBACK.                                                *)
LEMMA FetchRollbackControl ==
    ASSUME TypeInv, TypeInv', Control, NEW b \in Backends, NEW w \in Workers,
           FetchRollback(b, w)
    PROVE  Control'
<1>1. cur[b] \in Txns /\ BackendSound(b) /\ pc[b] = "rollback"
    BY DEF TypeInv, Bound, FetchRollback, Control
<1>2. PICK s \in {"rollback", "finish"} : pc' = [pc EXCEPT ![b] = s]
    BY DEF FetchRollback, Goto
<1>3. UNCHANGED <<cur, gid, failed, newRows, plan, local, rows, inprogress, twoPhase>>
    BY DEF FetchRollback, history
<1>4. \A c \in Backends \ {b} : await'[c] = await[c]
    BY DEF FetchRollback, Fetched, TypeInv, TypeOK
<1>5. Others(b)
    BY <1>2, <1>3, <1>4 DEF Others, TypeInv, TypeOK
<1>6. BackendSound(b)'
    BY <1>1, <1>2, <1>3 DEF BackendSound, TypeInv, TypeOK
<1> QED BY <1>1, <1>3, <1>5, <1>6, ControlFrame DEF BackendSound, Control

(* A transaction ends.                                                     *)
LEMMA FinishControl ==
    ASSUME TypeInv, TypeInv', Control, NEW b \in Backends, Finish(b)
    PROVE  Control'
<1>1. cur[b] \in Txns /\ BackendSound(b) /\ pc[b] = "finish" /\ NoTxn \notin Txns
    BY ConstantsOK DEF TypeInv, Bound, Finish, Control
<1>2. /\ pc' = [pc EXCEPT ![b] = "idle"] /\ cur' = [cur EXCEPT ![b] = NoTxn]
      /\ gid' = [gid EXCEPT ![b] = FALSE] /\ failed' = [failed EXCEPT ![b] = FALSE]
      /\ await' = [await EXCEPT ![b] = {}]
      /\ inprogress' = IF gid[b] THEN inprogress \ {cur[b]} ELSE inprogress
      /\ UNCHANGED <<newRows, plan, local, rows, twoPhase>>
    BY DEF Finish, Goto, history
<1>3. Others(b)
    BY <1>2 DEF Others, TypeInv, TypeOK
<1>4. cur[b] \notin inprogress'
    BY <1>1, <1>2 DEF Control, BackendSound
<1>5. BackendSound(b)'
    BY <1>1, <1>2 DEF BackendSound, TypeInv, TypeOK
<1>6. \A c \in Backends : BackendSound(c)'
    BY <1>1, <1>3, <1>5, OthersSound
<1>7. \A c, d \in Backends : cur'[c] = cur'[d] /\ cur'[c] # NoTxn => c = d
    BY <1>2 DEF Control, TypeInv, TypeOK
<1>8. \A t \in inprogress' : \E c \in Backends : cur'[c] = t /\ gid'[c]
  <2>1. ASSUME NEW t \in inprogress' PROVE \E c \in Backends : cur'[c] = t /\ gid'[c]
    <3>1. t \in inprogress /\ t # cur[b]
      BY <1>2, <1>4
    <3>2. PICK c \in Backends : cur[c] = t /\ gid[c]
      BY <3>1 DEF Control
    <3> QED BY <1>2, <3>1, <3>2 DEF TypeInv, TypeOK
  <2> QED BY <2>1
<1>9. \A t \in twoPhase' : local'[t] # "none" /\ (local'[t] = "active" => t \in inprogress')
    BY <1>1, <1>2 DEF Control, BackendSound
<1> QED BY <1>2, <1>6, <1>7, <1>8, <1>9 DEF Control

(* A transaction begins.                                                   *)
LEMMA BeginControl ==
    ASSUME TypeInv, TypeInv', Control, NEW b \in Backends, NEW t \in Txns, NEW p \in Plans,
           Begin(b, t, p)
    PROVE  Control'
<1>1. BackendSound(b) /\ pc[b] = "idle" /\ NoTxn \notin Txns /\ local[t] = "none"
    BY ConstantsOK DEF Begin, Control
<1>2. /\ pc' = [pc EXCEPT ![b] = "begin"] /\ cur' = [cur EXCEPT ![b] = t]
      /\ plan' = [plan EXCEPT ![t] = p] /\ local' = [local EXCEPT ![t] = "active"]
      /\ UNCHANGED <<await, gid, failed, newRows, rows, inprogress, twoPhase>>
    BY DEF Begin, Goto, history
<1>3. p # NoPlan
    BY ConstantsOK DEF NoPlan
<1>4. ASSUME NEW c \in Backends PROVE cur[c] # t
  <2>1. BackendSound(c) /\ pc[c] \in PcType
    BY DEF Control, TypeInv, TypeOK, PcType
  <2> QED BY <1>1, <2>1 DEF BackendSound, PcType
<1>5. t \notin twoPhase /\ t \notin inprogress
    BY <1>1, <1>4 DEF Control
<1>6. BackendSound(b)'
    BY <1>1, <1>2, <1>5 DEF BackendSound, TypeInv, TypeOK
<1>7. ASSUME NEW c \in Backends, c # b PROVE BackendSound(c)'
  <2>1. BackendSound(c) /\ cur'[c] = cur[c] /\ pc'[c] = pc[c] /\ cur[c] # t
    BY <1>2, <1>4, <1>7 DEF Control, TypeInv, TypeOK
  <2>2. CASE cur[c] = NoTxn
    BY <1>1, <1>2, <2>1, <2>2 DEF BackendSound
  <2>3. CASE cur[c] \in Txns
    <3>1. local'[cur[c]] = local[cur[c]] /\ plan'[cur[c]] = plan[cur[c]]
      BY <1>2, <2>1, <2>3 DEF TypeInv, TypeOK
    <3> QED BY <1>2, <2>1, <3>1 DEF BackendSound, Parts
  <2> QED BY <2>2, <2>3 DEF TypeInv, TypeOK
<1>8. \A c \in Backends : cur'[c] = IF c = b THEN t ELSE cur[c]
    BY <1>2 DEF TypeInv, TypeOK
<1>9. \A c, d \in Backends : cur'[c] = cur'[d] /\ cur'[c] # NoTxn => c = d
    BY <1>4, <1>8 DEF Control
<1>10. \A u \in inprogress' : \E c \in Backends : cur'[c] = u /\ gid'[c]
    BY <1>1, <1>2, <1>5, <1>8 DEF Control, BackendSound
<1>11. \A u \in Txns : u # t => local'[u] = local[u] /\ plan'[u] = plan[u]
    BY <1>2 DEF TypeInv, TypeOK
<1>12. local'[t] = "active" /\ plan'[t] = p
    BY <1>2 DEF TypeInv, TypeOK
<1>13. \A u \in Txns : local'[u] = "none" <=> plan'[u] = NoPlan
    BY <1>3, <1>11, <1>12 DEF Control
<1>14. \A u \in twoPhase' : local'[u] # "none" /\ (local'[u] = "active" => u \in inprogress')
    BY <1>2, <1>5, <1>11 DEF Control, TypeInv, TypeOK
<1>15. \A r \in rows' : local'[r[2]] = "committed"
  <2>1. ASSUME NEW r \in rows PROVE local'[r[2]] = "committed"
    <3>1. r[2] \in Txns /\ local[r[2]] = "committed"
      BY DEF TypeInv, TypeOK, Control
    <3> QED BY <1>1, <1>11, <3>1
  <2> QED BY <1>2, <2>1
<1> QED BY <1>6, <1>7, <1>9, <1>10, <1>13, <1>14, <1>15 DEF Control

(* After a crash no transaction is active.                                 *)
LEMMA CrashControl ==
    ASSUME TypeInv, TypeInv', Control, Crash
    PROVE  Control'
<1>1. \A b \in Backends : /\ pc'[b] = "idle" /\ cur'[b] = NoTxn /\ await'[b] = {}
                          /\ gid'[b] = FALSE /\ failed'[b] = FALSE /\ newRows'[b] = {}
    BY DEF Crash
<1>2. /\ inprogress' = {} /\ UNCHANGED <<plan, rows, twoPhase>>
      /\ \A t \in Txns : local'[t] = IF local[t] = "active" THEN "aborted" ELSE local[t]
    BY DEF Crash, history
<1>3. NoTxn \notin twoPhase'
    BY ConstantsOK, <1>2 DEF TypeInv, TypeOK
<1>4. \A b \in Backends : BackendSound(b)'
    BY <1>1, <1>3 DEF BackendSound
<1>5. \A t \in twoPhase' : local'[t] # "none" /\ (local'[t] = "active" => t \in inprogress')
    BY <1>2 DEF Control, TypeInv, TypeOK
<1>6. \A r \in rows' : local'[r[2]] = "committed"
  <2>1. ASSUME NEW r \in rows PROVE local'[r[2]] = "committed"
    <3>1. r[2] \in Txns /\ local[r[2]] = "committed"
      BY DEF TypeInv, TypeOK, Control
    <3> QED BY <1>2, <3>1
  <2> QED BY <1>2, <2>1
<1>7. \A t \in Txns : local'[t] = "none" <=> plan'[t] = NoPlan
    BY <1>2 DEF Control
<1> QED BY <1>1, <1>2, <1>4, <1>5, <1>6, <1>7 DEF Control

(* Every step keeps Control.                                               *)
LEMMA ControlStep ==
    ASSUME TypeInv, TypeInv', Control, [Next]_vars
    PROVE  Control'
<1>1. CASE UNCHANGED vars
    BY <1>1, ControlStays DEF vars, history
<1>2. ASSUME NEW b \in Backends, Step(b) \/ Renew(b) \/ SendFails(b) \/ LocalError(b)
      PROVE  Control'
  <2>1. {} \in SUBSET Workers
    OBVIOUS
  <2>2. CASE Step(b)
    BY <2>1, <2>2, SendExecControl, PreCommitControl, PostCommitControl, AbortControl,
       LocalCommitControl, FinishControl, FetchExecControl, FetchPrepareControl,
       FetchRollbackControl DEF Step
  <2>3. CASE Renew(b)
    BY <2>3, SendExecControl, PreCommitControl, PostCommitControl, AbortControl DEF Renew
  <2>4. CASE SendFails(b) \/ LocalError(b)
    BY <2>4, PreCommitSendFailsControl, PostCommitControl, LocalErrorControl DEF SendFails
  <2> QED BY <1>2, <2>2, <2>3, <2>4
<1>3. ASSUME NEW b \in Backends, NEW w \in Workers,
             Answer(b, w) \/ WorkerFails(b, w) \/ ConnBreak(b, w)
      PROVE  Control'
    BY <1>3, ControlStays DEF Answer, WorkerFails, ConnBreak, history
<1>4. CASE OrphanResolved
    BY <1>4, ControlStays DEF OrphanResolved, OrphanRun, OrphanDrop, history
<1>5. CASE Daemon \/ DaemonFails
  <2>1. UNCHANGED <<backendVars, plan, local, inprogress, twoPhase>> /\ rows' \subseteq rows
    BY <1>5 DEF Daemon, DaemonFails, CleanStart, ReadA, ReadB, ReadC, ReadD, CleanEnd,
                ScanC, SweepA, CleanAbort, CleanFail, CleanLose, cleanerOnly, history
  <2> QED BY <2>1, ControlStays
<1> QED BY <1>1, <1>2, <1>3, <1>4, <1>5, BeginControl, CrashControl DEF Next

-----------------------------------------------------------------------------
\* An outcome on the CN is final, and what a backend takes up is new.
LocalGrows ==
    /\ \A t \in Txns :
          \/ local'[t] = local[t]
          \/ local[t] = "none" /\ local'[t] = "active"
          \/ local[t] = "active" /\ local'[t] \in {"committed", "aborted"}
    /\ \A c \in Backends :
          cur'[c] \in Txns => cur'[c] = cur[c] \/ local[cur'[c]] = "none"

\* A step of b leaves the connections of the other backends alone.
OtherConnections(b) ==
    /\ \A c \in Backends \ {b} :
          /\ pc'[c] = pc[c] /\ cur'[c] = cur[c] /\ gid'[c] = gid[c] /\ await'[c] = await[c]
          /\ failed'[c] = failed[c] /\ newRows'[c] = newRows[c]
          /\ cur[c] \in Txns => plan'[cur[c]] = plan[cur[c]]
          /\ cur[c] \in dirty' <=> cur[c] \in dirty
          /\ \A w \in Workers : chan'[c][w] = chan[c][w] /\ tstate'[c][w] = tstate[c][w]
    /\ LocalGrows
    /\ twoPhase \subseteq twoPhase' /\ dirty \subseteq dirty'

(* Then what is said of the messages on them still holds.                  *)
LEMMA OtherMessages ==
    ASSUME TypeInv, Messages, NEW b \in Backends, OtherConnections(b),
           NEW c \in Backends, c # b, NEW w \in Workers
    PROVE  MessageSound(c, w)'
<1>1. /\ pc'[c] = pc[c] /\ cur'[c] = cur[c] /\ gid'[c] = gid[c] /\ await'[c] = await[c]
      /\ cur[c] \in Txns => plan'[cur[c]] = plan[cur[c]]
      /\ chan'[c][w] = chan[c][w]
    BY DEF OtherConnections
<1>2. MessageSound(c, w)
    BY DEF Messages
<1>3. chan[c][w].cmd # "none" => /\ chan[c][w].txn \in Txns
                                 /\ local[chan[c][w].txn] # "none"
    BY <1>2 DEF MessageSound
<1>4. chan[c][w].cmd # "none" =>
        LET t == chan[c][w].txn IN
        /\ local'[t] # "none"
        /\ local[t] \in {"committed", "aborted"} => local'[t] = local[t]
    BY <1>3 DEF OtherConnections, LocalGrows
<1>5. twoPhase \subseteq twoPhase' /\ dirty \subseteq dirty'
    BY DEF OtherConnections
<1>6. chan[c][w].cmd # "none" => \A d \in Backends : cur'[d] = chan[c][w].txn => d = c
  <2>1. \A d \in Backends : cur'[d] \in Txns => cur'[d] = cur[d] \/ local[cur'[d]] = "none"
    BY DEF OtherConnections, LocalGrows
  <2> QED BY <1>2, <1>3, <2>1 DEF MessageSound
<1> QED BY <1>1, <1>2, <1>3, <1>4, <1>5, <1>6 DEF MessageSound, Parts

(* An old message on a connection that a step of b does not use.           *)
LEMMA OldMessage ==
    ASSUME TypeInv, Messages, NEW b \in Backends, NEW w \in Workers, LocalGrows,
           chan'[b][w] = chan[b][w], pc[b] \notin {"exec", "prepare", "abort"},
           pc'[b] \in {"exec", "prepare"} => w \notin await'[b]
    PROVE  MessageSound(b, w)'
<1>1. MessageSound(b, w)
    BY DEF Messages
<1>2. chan[b][w].cmd # "none" => /\ chan[b][w].txn \in Txns
                                 /\ local[chan[b][w].txn] # "none"
    BY <1>1 DEF MessageSound
<1>3. chan[b][w].cmd # "none" =>
        LET t == chan[b][w].txn IN
        /\ local'[t] # "none"
        /\ local[t] \in {"committed", "aborted"} => local'[t] = local[t]
    BY <1>2 DEF LocalGrows
<1>4. chan[b][w].cmd # "none" => \A d \in Backends : cur'[d] = chan[b][w].txn => d = b
    BY <1>1, <1>2 DEF LocalGrows, MessageSound
<1> QED BY <1>1, <1>2, <1>3, <1>4 DEF MessageSound

(* A quiet connection.                                                     *)
LEMMA QuietMessage ==
    ASSUME NEW b \in Backends, NEW w \in Workers, chan'[b][w] = Quiet,
           pc'[b] \in {"exec", "prepare"} => w \notin await'[b]
    PROVE  MessageSound(b, w)'
<1>1. chan'[b][w].cmd = "none"
    BY DEF Quiet
<1> QED BY <1>1 DEF MessageSound

(* Every message, when a step of b is right on its own connections.        *)
LEMMA MessagesFrame ==
    ASSUME TypeInv, Messages, NEW b \in Backends, OtherConnections(b),
           \A w \in Workers : MessageSound(b, w)'
    PROVE  Messages'
BY OtherMessages DEF Messages

\* What a fetched result does to the connections.
FetchedAt(b, w, state) ==
    /\ \A c \in Backends, v \in Workers : (c # b \/ v # w) =>
          chan'[c][v] = chan[c][v] /\ tstate'[c][v] = tstate[c][v]
    /\ chan'[b][w] = Quiet
    /\ tstate'[b][w] = IF chan[b][w].cmd = "lost" THEN "BAD" ELSE state
    /\ \A c \in Backends : c # b => await'[c] = await[c]
    /\ await'[b] = await[b] \ {w}

(* This is what Fetched does.                                              *)
LEMMA FetchedFacts ==
    ASSUME TypeInv, NEW b \in Backends, NEW w \in Workers, NEW state, Fetched(b, w, state)
    PROVE  FetchedAt(b, w, state)
<1>1. /\ chan \in [Backends -> [Workers -> Wire]]
      /\ tstate \in [Backends -> [Workers -> ConnState]]
      /\ await \in [Backends -> SUBSET Workers]
    BY DEF TypeInv, TypeOK, Wire, ConnState
<1>2. \A c \in Backends, v \in Workers :
          chan'[c][v] = IF c = b /\ v = w THEN Quiet ELSE chan[c][v]
    BY <1>1 DEF Fetched
<1>3. \A c \in Backends, v \in Workers :
          tstate'[c][v] = IF c = b /\ v = w
                       THEN IF chan[b][w].cmd = "lost" THEN "BAD" ELSE state
                       ELSE tstate[c][v]
    BY <1>1 DEF Fetched
<1>4. \A c \in Backends : await'[c] = IF c = b THEN await[b] \ {w} ELSE await[c]
    BY <1>1 DEF Fetched
<1> QED BY <1>2, <1>3, <1>4 DEF FetchedAt

(* The connections of the others, when b opens its own again or not.       *)
LEMMA OthersConnected ==
    ASSUME TypeInv, NEW b \in Backends, NEW f, tstate' = [tstate EXCEPT ![b] = f]
    PROVE  \A c \in Backends \ {b} : \A w \in Workers : tstate'[c][w] = tstate[c][w]
BY DEF TypeInv, TypeOK

\* A step of the backend b other than Begin.
Moves(b) == Step(b) \/ Renew(b) \/ SendFails(b) \/ LocalError(b)

\* The actions behind it.
MovesAre(b) ==
    \/ \E R \in SUBSET Workers :
          SendExec(b, R) \/ PreCommit(b, R) \/ PostCommit(b, R) \/ Abort(b, R)
    \/ \E w \in Workers :
          FetchExec(b, w) \/ FetchPrepare(b, w) \/ FetchCommit(b, w) \/ FetchRollback(b, w)
    \/ \E f \in Workers, S \in SUBSET Workers :
          PreCommitSendFails(b, f, S) \/ PostCommitSendFails(b, f, S)
    \/ LocalCommit(b) \/ LocalError(b) \/ Finish(b)

(* They are all of them.                                                   *)
LEMMA MovesOf ==
    ASSUME NEW b \in Backends, Moves(b)
    PROVE  MovesAre(b)
<1>1. {} \in SUBSET Workers
    OBVIOUS
<1>2. CASE Step(b)
    BY <1>1, <1>2 DEF Step, MovesAre
<1>3. CASE Renew(b)
    BY <1>3 DEF Renew, MovesAre
<1>4. CASE SendFails(b) \/ LocalError(b)
    BY <1>4 DEF SendFails, MovesAre
<1> QED BY <1>2, <1>3, <1>4 DEF Moves

(* A backend's step changes one backend.                                   *)
LEMMA MovesOneBackend ==
    ASSUME TypeInv, TypeInv', NEW b \in Backends, Moves(b)
    PROVE  /\ \A c \in Backends \ {b} :
                 /\ pc'[c] = pc[c] /\ cur'[c] = cur[c] /\ gid'[c] = gid[c]
                 /\ await'[c] = await[c] /\ failed'[c] = failed[c]
                 /\ newRows'[c] = newRows[c]
                 /\ \A w \in Workers : chan'[c][w] = chan[c][w] /\ tstate'[c][w] = tstate[c][w]
           /\ plan' = plan /\ twoPhase \subseteq twoPhase' /\ dirty \subseteq dirty'
           /\ dirty' \subseteq dirty \cup {cur[b]}
           /\ twoPhase' \subseteq twoPhase \cup {cur[b]}
           /\ orphans' = orphans /\ cl' = cl
           /\ pc[b] # "idle"
<1>1. MovesAre(b)
    BY MovesOf
<1>2. /\ \E e : pc' = [pc EXCEPT ![b] = e]
      /\ cur' = cur \/ \E e : cur' = [cur EXCEPT ![b] = e]
      /\ gid' = gid \/ \E e : gid' = [gid EXCEPT ![b] = e]
      /\ failed' = failed \/ \E e : failed' = [failed EXCEPT ![b] = e]
      /\ newRows' = newRows \/ \E e : newRows' = [newRows EXCEPT ![b] = e]
      /\ plan' = plan /\ twoPhase \subseteq twoPhase' /\ dirty \subseteq dirty'
      /\ dirty' \subseteq dirty \cup {cur[b]} /\ twoPhase' \subseteq twoPhase \cup {cur[b]}
      /\ orphans' = orphans /\ cl' = cl
      /\ pc[b] # "idle"
    BY <1>1 DEF MovesAre, SendExec, PreCommit, PostCommit, Abort, FetchExec, FetchPrepare,
           FetchCommit, FetchRollback, PreCommitSendFails, PostCommitSendFails, LocalCommit,
           LocalError, Finish, Goto, StartTwoPhase, connVars, history
<1>3. /\ await' = await \/ \E e : await' = [await EXCEPT ![b] = e]
      /\ chan' = chan \/ \E e : chan' = [chan EXCEPT ![b] = e]
      /\ tstate' = tstate \/ \E e : tstate' = [tstate EXCEPT ![b] = e]
    BY <1>1 DEF MovesAre, SendExec, PreCommit, PostCommit, Abort, FetchExec, FetchPrepare,
           FetchCommit, FetchRollback, PreCommitSendFails, PostCommitSendFails, LocalCommit,
           LocalError, Finish, Send, Fetched, connVars
<1>4. \A c \in Backends \ {b} :
                 /\ pc'[c] = pc[c] /\ cur'[c] = cur[c] /\ gid'[c] = gid[c]
                 /\ await'[c] = await[c] /\ failed'[c] = failed[c]
                 /\ newRows'[c] = newRows[c]
    BY <1>2, <1>3 DEF TypeInv, TypeOK
<1>5. \A c \in Backends \ {b} : chan'[c] = chan[c] /\ tstate'[c] = tstate[c]
    BY <1>3 DEF TypeInv, TypeOK
<1> QED BY <1>2, <1>4, <1>5

(* Its transaction's outcome changes at most once.                         *)
LEMMA MovesLocal ==
    ASSUME TypeInv, Control, NEW b \in Backends, Moves(b)
    PROVE  /\ LocalGrows
           /\ \A t \in Txns : t # cur[b] => local'[t] = local[t]
           /\ cur[b] \in Txns
<1>1. BackendSound(b) /\ cur[b] \in Txns
    BY MovesOf DEF Control, TypeInv, Bound, MovesAre, SendExec, PreCommit, PostCommit, Abort,
       FetchExec, FetchPrepare, FetchCommit, FetchRollback, PreCommitSendFails,
       PostCommitSendFails, LocalCommit, LocalError, Finish
<1>2. \/ local' = local
      \/ LocalCommit(b) \/ \E R \in SUBSET Workers : Abort(b, R)
    BY MovesOf DEF MovesAre, SendExec, PreCommit, PostCommit,
       FetchExec, FetchPrepare, FetchCommit, FetchRollback, PreCommitSendFails,
       PostCommitSendFails, LocalError, Finish
<1>3. \/ local' = local
      \/ /\ local[cur[b]] = "active"
         /\ \E e \in {"committed", "aborted"} : local' = [local EXCEPT ![cur[b]] = e]
    BY <1>1, <1>2 DEF LocalCommit, Abort, BackendSound
<1>4. cur' = cur \/ cur' = [cur EXCEPT ![b] = NoTxn]
    BY MovesOf DEF MovesAre, SendExec, PreCommit, PostCommit, Abort,
       FetchExec, FetchPrepare, FetchCommit, FetchRollback, PreCommitSendFails,
       PostCommitSendFails, LocalCommit, LocalError, Finish
<1>5. \A c \in Backends : cur'[c] \in Txns => cur'[c] = cur[c]
    BY <1>4, ConstantsOK DEF TypeInv, TypeOK
<1> QED BY <1>1, <1>3, <1>5 DEF LocalGrows, TypeInv, TypeOK

(* So the connections of the other backends stay as they are.              *)
LEMMA MovesOthers ==
    ASSUME TypeInv, TypeInv', Control, NEW b \in Backends, Moves(b)
    PROVE  OtherConnections(b)
<1>1. cur[b] \in Txns /\ NoTxn \notin Txns
    BY ConstantsOK, MovesLocal
<1>2. \A c \in Backends \ {b} : cur[c] # cur[b]
    BY <1>1 DEF Control
<1>3. \A c \in Backends \ {b} : cur[c] \in dirty' <=> cur[c] \in dirty
    BY <1>2, MovesOneBackend
<1> QED BY <1>3, MovesOneBackend, MovesLocal DEF OtherConnections

(* The same when a transaction begins.                                     *)
LEMMA BeginOthers ==
    ASSUME TypeInv, NEW b \in Backends, NEW t \in Txns, NEW p \in Plans, Control,
           Begin(b, t, p)
    PROVE  OtherConnections(b)
<1>1. /\ pc' = [pc EXCEPT ![b] = "begin"] /\ cur' = [cur EXCEPT ![b] = t]
      /\ plan' = [plan EXCEPT ![t] = p] /\ local' = [local EXCEPT ![t] = "active"]
      /\ UNCHANGED <<await, gid, failed, newRows, chan, tstate, twoPhase, dirty>>
      /\ local[t] = "none"
    BY DEF Begin, Goto, history, connVars
<1>2. ASSUME NEW c \in Backends PROVE cur[c] # t
  <2>1. BackendSound(c) /\ pc[c] \in PcType /\ NoTxn \notin Txns
    BY ConstantsOK DEF Control, TypeInv, TypeOK, PcType
  <2> QED BY <1>1, <2>1 DEF BackendSound, PcType
<1>3. LocalGrows
    BY <1>1 DEF LocalGrows, TypeInv, TypeOK
<1>4. \A c \in Backends \ {b} : cur[c] \in Txns => plan'[cur[c]] = plan[cur[c]]
    BY <1>1, <1>2 DEF TypeInv, TypeOK
<1> QED BY <1>1, <1>3, <1>4 DEF OtherConnections, TypeInv, TypeOK

(* The commands of an operation go out.                                    *)
LEMMA SendExecMessages ==
    ASSUME TypeInv, TypeInv', Control, Messages, NEW b \in Backends,
           NEW R \in SUBSET Workers, SendExec(b, R), LocalGrows, NEW w \in Workers
    PROVE  MessageSound(b, w)'
<1> DEFINE ts == Connected(b, R)
           cmds == [v \in Parts(b) |-> IF ts[v] = "NONE" THEN "BEGIN" ELSE "EXEC"]
<1>1. /\ cur[b] \in Txns /\ Parts(b) \subseteq Workers /\ BackendSound(b) /\ pc[b] = "begin"
      /\ local[cur[b]] = "active"
    BY PartsType DEF TypeInv, Bound, SendExec, Control, BackendSound
<1>2. cmds \in [Parts(b) -> Commands] /\ Send(b, cmds)
    BY DEF Commands, SendExec
<1>3. Sent(b, Parts(b), cmds)
    BY <1>1, <1>2, SendFacts DEF TypeInv
<1>4. pc'[b] = "exec" /\ cur' = cur /\ local' = local /\ plan' = plan
    BY DEF SendExec, Goto, TypeInv, TypeOK
<1>5. await'[b] = Parts(b)
    BY <1>3 DEF Sent
<1>6. CASE w \in Parts(b)
  <2>1. /\ chan'[b][w].cmd \in {"BEGIN", "EXEC"} /\ chan'[b][w].txn = cur[b]
        /\ chan'[b][w].cmd = "EXEC" => ts[w] # "NONE"
    BY <1>3, <1>6 DEF Sent
  <2>2. ts[w] # "NONE" => cur[b] \in dirty'
    BY <1>6 DEF SendExec
  <2>3. \A d \in Backends : cur[d] = cur[b] => d = b
    BY <1>1, ConstantsOK DEF Control
  <2> QED BY <1>1, <1>4, <1>5, <1>6, <2>1, <2>2, <2>3 DEF MessageSound, Parts
<1>7. CASE w \notin Parts(b)
  <2>1. chan'[b][w] = chan[b][w]
    BY <1>3, <1>7 DEF Sent
  <2> QED BY <1>1, <1>5, <1>7, <2>1, OldMessage
<1> QED BY <1>6, <1>7

(* The results of an operation come in.                                    *)
LEMMA FetchMessages ==
    ASSUME TypeInv, TypeInv', Control, Messages, NEW b \in Backends,
           NEW v \in Workers, FetchExec(b, v) \/ FetchPrepare(b, v), NEW w \in Workers
    PROVE  MessageSound(b, w)'
<1>1. /\ BackendSound(b) /\ pc[b] \in {"exec", "prepare"} /\ v \in await[b]
      /\ MessageSound(b, w)
    BY DEF FetchExec, FetchPrepare, HasResult, Control, Messages
<1>2. /\ pc'[b] \in {pc[b], "abort", "precommit", "local"}
      /\ pc'[b] \in {"precommit", "local"} => await[b] = {v}
      /\ UNCHANGED <<cur, gid, plan, local, twoPhase, dirty>>
  <2>1. PICK s \in {"exec", "prepare", "abort", "precommit", "local"} :
           /\ pc' = [pc EXCEPT ![b] = s]
           /\ s \in {"exec", "prepare"} => s = pc[b]
           /\ s \in {"precommit", "local"} => await[b] = {v}
    BY DEF FetchExec, FetchPrepare, Goto
  <2>2. UNCHANGED <<cur, gid, plan, local, twoPhase, dirty>>
    BY DEF FetchExec, FetchPrepare, history
  <2> QED BY <1>1, <2>1, <2>2 DEF TypeInv, TypeOK
<1>3. PICK state : Fetched(b, v, state)
    BY DEF FetchExec, FetchPrepare
<1>4. /\ chan'[b][w] = IF w = v THEN Quiet ELSE chan[b][w]
      /\ await'[b] = await[b] \ {v}
  <2>1. FetchedAt(b, v, state)
    BY <1>3, FetchedFacts
  <2> QED BY <2>1 DEF FetchedAt
<1>5. CASE w = v
    BY <1>4, <1>5, QuietMessage
<1>6. CASE w # v
    BY <1>1, <1>2, <1>4, <1>6 DEF MessageSound, Parts
<1> QED BY <1>5, <1>6

(* PREPARE goes out.                                                       *)
LEMMA PreCommitMessages ==
    ASSUME TypeInv, TypeInv', Control, Messages, NEW b \in Backends,
           NEW W \in SUBSET Workers, W \subseteq Parts(b), pc[b] = "precommit",
           Send(b, [v \in W |-> "PREPARE"]), StartTwoPhase(b),
           pc'[b] \in {"prepare", "abort"}, UNCHANGED <<cur, plan, local>>,
           NEW w \in Workers
    PROVE  MessageSound(b, w)'
<1> DEFINE cmds == [v \in W |-> "PREPARE"]
<1>1. cur[b] \in Txns /\ BackendSound(b) /\ local[cur[b]] = "active"
    BY DEF TypeInv, Bound, Control, BackendSound
<1>2. cmds \in [W -> Commands]
    BY DEF Commands
<1>3. Sent(b, W, cmds)
    BY <1>2, SendFacts DEF TypeInv
<1>4. await'[b] = W /\ gid'[b] /\ cur[b] \in twoPhase'
    BY <1>3 DEF Sent, StartTwoPhase, TypeInv, TypeOK
<1>5. LocalGrows
    BY DEF LocalGrows
<1>6. CASE w \in W
  <2>1. chan'[b][w].cmd = "PREPARE" /\ chan'[b][w].txn = cur[b]
    BY <1>3, <1>6 DEF Sent
  <2>2. \A d \in Backends : cur[d] = cur[b] => d = b
    BY <1>1, ConstantsOK DEF Control
  <2> QED BY <1>1, <1>4, <1>6, <2>1, <2>2 DEF MessageSound, Parts
<1>7. CASE w \notin W
  <2>1. chan'[b][w] = Quiet \/ chan'[b][w] = chan[b][w]
    BY <1>3, <1>7 DEF Sent
  <2> QED BY <1>4, <1>5, <1>7, <2>1, OldMessage, QuietMessage
<1> QED BY <1>6, <1>7

(* The commands that end a transaction go out after the decision.          *)
LEMMA EndMessages ==
    ASSUME TypeInv, TypeInv', Control, Messages, NEW b \in Backends,
           NEW W \in SUBSET Workers, NEW cmds \in [W -> Commands], Send(b, cmds),
           pc[b] \in {"postcommit", "abort"},
           pc'[b] \in {"commit", "rollback", "finish"}, cur' = cur, plan' = plan, LocalGrows,
           \/ /\ pc[b] = "postcommit" /\ local'[cur[b]] = "committed"
              /\ \A v \in W : cmds[v] \in {"COMMIT", "COMMIT PREPARED"}
           \/ /\ pc[b] = "abort" /\ local'[cur[b]] = "aborted"
              /\ \A v \in W : cmds[v] \in {"ROLLBACK", "ROLLBACK PREPARED"},
           NEW w \in Workers
    PROVE  MessageSound(b, w)'
<1>1. cur[b] \in Txns /\ MessageSound(b, w)
    BY DEF TypeInv, Bound, Messages
<1>2. Sent(b, W, cmds)
    BY SendFacts DEF TypeInv
<1>3. CASE w \in W
  <2>1. chan'[b][w].cmd = cmds[w] /\ chan'[b][w].txn = cur[b]
    BY <1>2, <1>3 DEF Sent
  <2>2. \A d \in Backends : cur[d] = cur[b] => d = b
    BY <1>1, ConstantsOK DEF Control
  <2> QED BY <1>1, <1>3, <2>1, <2>2 DEF MessageSound
<1>4. CASE w \in Parts(b) \ W
    BY <1>2, <1>4, QuietMessage DEF Sent
<1>5. CASE w \notin W /\ w \notin Parts(b)
  <2>1. chan'[b][w] = chan[b][w]
    BY <1>2, <1>5 DEF Sent
  <2>2. chan[b][w].cmd \notin {"BEGIN", "EXEC", "PREPARE"}
    BY <1>1, <1>5 DEF MessageSound
  <2>3. chan[b][w].cmd # "none" =>
        LET t == chan[b][w].txn IN
        /\ local'[t] # "none"
        /\ local[t] \in {"committed", "aborted"} => local'[t] = local[t]
    BY <1>1 DEF LocalGrows, MessageSound
  <2> QED BY <1>1, <2>1, <2>2, <2>3 DEF MessageSound
<1> QED BY <1>3, <1>4, <1>5

(* A backend's step keeps the messages sound.                              *)
LEMMA MovesMessages ==
    ASSUME TypeInv, TypeInv', Control, Control', Messages, NEW b \in Backends, Moves(b)
    PROVE  Messages'
<1>1. OtherConnections(b) /\ LocalGrows
    BY MovesOthers, MovesLocal
<1> SUFFICES ASSUME NEW w \in Workers PROVE MessageSound(b, w)'
    BY <1>1, MessagesFrame
<1>2. cur[b] \in Txns /\ BackendSound(b) /\ MessageSound(b, w)
    BY MovesLocal DEF Control, Messages
<1>3. ASSUME NEW R \in SUBSET Workers, SendExec(b, R) PROVE MessageSound(b, w)'
    BY <1>1, <1>3, SendExecMessages
<1>4. ASSUME NEW R \in SUBSET Workers, PreCommit(b, R) PROVE MessageSound(b, w)'
  <2> DEFINE W == {v \in Parts(b) : Connected(b, R)[v] = "WRITE"}
  <2>1. pc[b] = "precommit" /\ UNCHANGED <<cur, plan, local>> /\ W \subseteq Workers
    BY <1>2, <1>4, PartsType DEF PreCommit, TypeInv
  <2>2. CASE NeedTwoPhase(b, W)
    <3>1. Send(b, [v \in W |-> "PREPARE"]) /\ StartTwoPhase(b) /\ Goto(b, "prepare")
      BY <1>4, <2>2 DEF PreCommit
    <3>2. pc'[b] = "prepare"
      BY <3>1 DEF Goto, TypeInv, TypeOK
    <3> QED BY <2>1, <3>1, <3>2, PreCommitMessages
  <2>3. CASE ~ NeedTwoPhase(b, W)
    <3>1. chan' = chan /\ Goto(b, "local")
      BY <1>4, <2>3 DEF PreCommit
    <3>2. pc'[b] = "local"
      BY <3>1 DEF Goto, TypeInv, TypeOK
    <3> QED BY <1>1, <2>1, <3>1, <3>2, OldMessage
  <2> QED BY <2>2, <2>3
<1>5. ASSUME NEW f \in Workers, NEW S \in SUBSET Workers, PreCommitSendFails(b, f, S)
      PROVE  MessageSound(b, w)'
  <2>1. /\ S \subseteq Parts(b) /\ pc[b] = "precommit"
        /\ Send(b, [v \in S |-> "PREPARE"]) /\ StartTwoPhase(b)
        /\ UNCHANGED <<cur, plan, local>>
    BY <1>5 DEF PreCommitSendFails
  <2>2. pc'[b] = "abort"
    BY <1>5 DEF PreCommitSendFails, Goto, TypeInv, TypeOK
  <2> QED BY <2>1, <2>2, PreCommitMessages
<1>6. ASSUME NEW R \in SUBSET Workers, PostCommit(b, R) PROVE MessageSound(b, w)'
  <2> DEFINE ts == Connected(b, R)
             W == {v \in Parts(b) : ts[v] \in {"WRITE", "PREPARE"}}
             cmds == [v \in W |-> CommitCommand(ts[v])]
  <2>1. /\ pc[b] = "postcommit" /\ UNCHANGED <<cur, plan, local>> /\ Send(b, cmds)
        /\ W \subseteq Workers
    BY <1>2, <1>6, PartsType DEF PostCommit, TypeInv
  <2>2. cmds \in [W -> Commands] /\ \A v \in W : cmds[v] \in {"COMMIT", "COMMIT PREPARED"}
    BY DEF CommitCommand, Commands
  <2>3. pc'[b] \in {"commit", "finish"}
    BY <1>6 DEF PostCommit, Goto, TypeInv, TypeOK
  <2>4. local'[cur[b]] = "committed"
    BY <1>2, <2>1 DEF BackendSound
  <2> HIDE DEF cmds, W
  <2> QED BY <1>1, <2>1, <2>2, <2>3, <2>4, EndMessages
<1>7. ASSUME NEW f \in Workers, NEW S \in SUBSET Workers, PostCommitSendFails(b, f, S)
      PROVE  MessageSound(b, w)'
  <2> DEFINE cmds == [v \in S |-> CommitCommand(tstate[b][v])]
  <2>1. pc[b] = "postcommit" /\ UNCHANGED <<cur, plan, local>> /\ Send(b, cmds)
    BY <1>7 DEF PostCommitSendFails
  <2>2. cmds \in [S -> Commands] /\ \A v \in S : cmds[v] \in {"COMMIT", "COMMIT PREPARED"}
    BY DEF CommitCommand, Commands
  <2>3. pc'[b] \in {"commit", "finish"}
    BY <1>7 DEF PostCommitSendFails, Goto, TypeInv, TypeOK
  <2>4. local'[cur[b]] = "committed"
    BY <1>2, <2>1 DEF BackendSound
  <2> HIDE DEF cmds
  <2> QED BY <1>1, <2>1, <2>2, <2>3, <2>4, EndMessages
<1>8. ASSUME NEW R \in SUBSET Workers, Abort(b, R) PROVE MessageSound(b, w)'
  <2> DEFINE ts == Connected(b, R)
             W == {v \in Parts(b) : ts[v] \in {"WRITE", "PREPARE"}}
             cmds == [v \in W |-> RollbackCommand(ts[v])]
  <2>1. /\ pc[b] = "abort" /\ UNCHANGED <<cur, plan>> /\ Send(b, cmds)
        /\ W \subseteq Workers
    BY <1>2, <1>8, PartsType DEF Abort, TypeInv
  <2>2. cmds \in [W -> Commands] /\ \A v \in W : cmds[v] \in {"ROLLBACK", "ROLLBACK PREPARED"}
    BY DEF RollbackCommand, Commands
  <2>3. pc'[b] \in {"rollback", "finish"}
    BY <1>8 DEF Abort, Goto, TypeInv, TypeOK
  <2>4. local'[cur[b]] = "aborted"
    BY <1>2, <1>8 DEF Abort, TypeInv, TypeOK
  <2> HIDE DEF cmds, W
  <2> QED BY <1>1, <2>1, <2>2, <2>3, <2>4, EndMessages
<1>9. ASSUME NEW v \in Workers, FetchExec(b, v) \/ FetchPrepare(b, v) PROVE MessageSound(b, w)'
    BY <1>9, FetchMessages
<1>10. ASSUME NEW v \in Workers, FetchCommit(b, v) \/ FetchRollback(b, v)
       PROVE MessageSound(b, w)'
  <2>1. PICK state : Fetched(b, v, state)
    BY <1>10 DEF FetchCommit, FetchRollback
  <2>2. chan'[b][w] = IF w = v THEN Quiet ELSE chan[b][w]
    <3>1. FetchedAt(b, v, state)
      BY <2>1, FetchedFacts
    <3> QED BY <3>1 DEF FetchedAt
  <2>3. pc[b] \in {"commit", "rollback"} /\ pc'[b] \in {"commit", "rollback", "finish"}
    BY <1>10 DEF FetchCommit, FetchRollback, Goto, TypeInv, TypeOK
  <2> QED BY <1>1, <2>2, <2>3, OldMessage, QuietMessage
<1>11. CASE LocalCommit(b) \/ LocalError(b) \/ Finish(b)
  <2>1. /\ chan' = chan /\ pc[b] \in {"precommit", "local", "finish"}
        /\ pc'[b] \in {"postcommit", "abort", "idle"}
    BY <1>11 DEF LocalCommit, LocalError, Finish, connVars, Goto, TypeInv, TypeOK
  <2> QED BY <1>1, <2>1, OldMessage
<1>12. MovesAre(b)
    BY MovesOf
<1> QED BY <1>3, <1>4, <1>5, <1>6, <1>7, <1>8, <1>9, <1>10, <1>11, <1>12 DEF MovesAre

(* A result takes the place of a command.                                  *)
LEMMA ResultMessages ==
    ASSUME TypeInv, Messages, NEW b \in Backends, NEW w \in Workers,
           Answer(b, w) \/ WorkerFails(b, w) \/ ConnBreak(b, w)
    PROVE  /\ Messages'
           /\ \E r \in {"ok", "fail", "lost"} :
                 ResultAt(b, w, r) /\ chan' = [chan EXCEPT ![b][w].cmd = r]
<1>1. chan[b][w].cmd # "none"
    BY DEF Answer, WorkerFails, ConnBreak, Commands
<1>2. PICK r \in {"ok", "fail", "lost"} : chan' = [chan EXCEPT ![b][w].cmd = r]
    BY DEF Answer, WorkerFails, ConnBreak, Reply
<1>3. UNCHANGED <<pc, cur, ran, await, gid, failed, newRows, plan, local, twoPhase, dirty, cl>>
    BY DEF Answer, WorkerFails, ConnBreak, backendVars, history
<1>4. ResultAt(b, w, r)
    BY <1>1, <1>2, <1>3, ResultType
<1>5. ASSUME NEW c \in Backends, NEW v \in Workers PROVE MessageSound(c, v)'
  <2>1. MessageSound(c, v)
    BY DEF Messages
  <2>2. CASE c = b /\ v = w
    BY <1>1, <1>3, <1>4, <2>1, <2>2 DEF MessageSound, ResultAt
  <2>3. CASE ~ (c = b /\ v = w)
    <3>1. chan'[c][v] = chan[c][v]
      BY <1>4, <2>3 DEF ResultAt
    <3> QED BY <1>3, <2>1, <3>1 DEF MessageSound, Parts
  <2> QED BY <2>2, <2>3
<1> QED BY <1>2, <1>4, <1>5 DEF Messages

(* Every step keeps the messages sound.                                    *)
LEMMA MessagesStep ==
    ASSUME TypeInv, TypeInv', Control, Control', Messages, [Next]_vars
    PROVE  Messages'
<1>1. ASSUME UNCHANGED <<backendVars, chan, plan, local, twoPhase, dirty>> PROVE Messages'
  <2>1. ASSUME NEW b \in Backends, NEW w \in Workers PROVE MessageSound(b, w)'
    BY <1>1 DEF Messages, MessageSound, Parts, backendVars
  <2> QED BY <2>1 DEF Messages
<1>2. CASE UNCHANGED vars
    BY <1>1, <1>2 DEF vars, history, connVars
<1>3. ASSUME NEW b \in Backends, Step(b) \/ Renew(b) \/ SendFails(b) \/ LocalError(b)
      PROVE  Messages'
    BY <1>3, MovesMessages DEF Moves
<1>4. ASSUME NEW b \in Backends, NEW w \in Workers,
             Answer(b, w) \/ WorkerFails(b, w) \/ ConnBreak(b, w)
      PROVE  Messages'
    BY <1>4, ResultMessages
<1>5. CASE OrphanResolved
    BY <1>1, <1>5 DEF OrphanResolved, OrphanRun, OrphanDrop, history
<1>6. CASE Daemon \/ DaemonFails
  <2>1. UNCHANGED <<backendVars, chan, plan, local, twoPhase, dirty>>
    BY <1>6 DEF Daemon, DaemonFails, CleanStart, ReadA, ReadB, ReadC, ReadD, CleanEnd,
                ScanC, SweepA, CleanAbort, CleanFail, CleanLose, cleanerOnly, history, connVars
  <2> QED BY <1>1, <2>1
<1>7. CASE Crash
  <2>1. ASSUME NEW b \in Backends, NEW w \in Workers PROVE MessageSound(b, w)'
    <3>1. chan'[b][w] = Quiet /\ pc'[b] = "idle"
      BY <1>7 DEF Crash
    <3> QED BY <3>1, QuietMessage
  <2> QED BY <2>1 DEF Messages
<1>8. ASSUME NEW b \in Backends, NEW t \in Txns, NEW p \in Plans, Begin(b, t, p)
      PROVE  Messages'
  <2>1. OtherConnections(b)
    BY <1>8, BeginOthers
  <2>2. pc[b] = "idle" /\ pc'[b] = "begin" /\ chan' = chan
    BY <1>8 DEF Begin, Goto, connVars, TypeInv, TypeOK
  <2>3. \A w \in Workers : MessageSound(b, w)'
    BY <2>1, <2>2, OldMessage DEF OtherConnections
  <2> QED BY <2>1, <2>3, MessagesFrame
<1> QED BY <1>2, <1>3, <1>4, <1>5, <1>6, <1>7, <1>8 DEF Next

-----------------------------------------------------------------------------
(* A transaction that cannot commit stays so until its backend ends it.    *)
LEMMA DoomedStays ==
    ASSUME TypeInv, TypeInv', Control, NEW b \in Backends, NEW w \in Workers, Moves(b),
           local[cur[b]] \in {"active", "aborted"}, Doomed(b, w)
    PROVE  /\ ~ LocalCommit(b)
           /\ cur'[b] = cur[b] => Doomed(b, w)'
<1>1. /\ BackendSound(b) /\ cur[b] \in Txns /\ MovesAre(b) /\ NoTxn \notin Txns
      /\ pc[b] \in PcType
    BY ConstantsOK, MovesLocal, MovesOf DEF Control, TypeInv, TypeOK, PcType
<1>2. pc[b] \in {"exec", "prepare", "abort", "rollback", "finish"}
    BY <1>1 DEF BackendSound, Doomed, PcType
<1>3. ~ LocalCommit(b)
    BY <1>2 DEF LocalCommit
<1>4. ASSUME pc[b] \in {"abort", "rollback", "finish"}, cur'[b] = cur[b]
      PROVE  Doomed(b, w)'
  <2>1. pc'[b] \in {"rollback", "finish"}
    <3>1. \/ \E R \in SUBSET Workers : Abort(b, R)
          \/ \E v \in Workers : FetchRollback(b, v)
          \/ Finish(b)
      BY <1>1, <1>4 DEF MovesAre, SendExec, PreCommit, PostCommit, FetchExec,
         FetchPrepare, FetchCommit, PreCommitSendFails, PostCommitSendFails, LocalCommit,
         LocalError
    <3>2. ~ Finish(b)
      BY <1>1, <1>4 DEF Finish, TypeInv, TypeOK
    <3> QED BY <3>1, <3>2 DEF Abort, FetchRollback, Goto, TypeInv, TypeOK
  <2> QED BY <2>1 DEF Doomed
<1>5. ASSUME pc[b] = "exec" PROVE Doomed(b, w)'
  <2>1. w \in await[b] /\ chan[b][w].cmd = "lost"
    BY <1>1, <1>5 DEF Doomed, BackendSound
  <2>2. PICK v \in Workers : FetchExec(b, v)
    BY <1>1, <1>5 DEF MovesAre, SendExec, PreCommit, PostCommit, FetchRollback, Abort, Finish,
         FetchPrepare, FetchCommit, PreCommitSendFails, PostCommitSendFails, LocalCommit,
         LocalError
  <2>3. FetchedAt(b, v, tstate[b][v])
    BY <2>2, FetchedFacts DEF FetchExec
  <2>4. CASE v = w
    <3>1. pc'[b] = "abort"
      BY <2>1, <2>2, <2>4 DEF FetchExec, Goto, TypeInv, TypeOK
    <3> QED BY <3>1 DEF Doomed
  <2>5. CASE v # w
    BY <2>1, <2>3, <2>5 DEF Doomed, FetchedAt
  <2> QED BY <2>4, <2>5
<1>6. ASSUME pc[b] = "prepare" PROVE Doomed(b, w)'
  <2>1. PICK v \in Workers : FetchPrepare(b, v)
    BY <1>1, <1>6 DEF MovesAre, SendExec, PreCommit, PostCommit, FetchRollback, Abort, Finish,
         FetchExec, FetchCommit, PreCommitSendFails, PostCommitSendFails, LocalCommit,
         LocalError
  <2>2. PICK state : FetchedAt(b, v, state)
    BY <2>1, FetchedFacts DEF FetchPrepare
  <2>3. failed'[b] = (failed[b] \/ chan[b][v].cmd # "ok")
    BY <2>1 DEF FetchPrepare, TypeInv, TypeOK
  <2> QED BY <1>6, <2>2, <2>3 DEF Doomed, FetchedAt
<1> QED BY <1>2, <1>3, <1>4, <1>5, <1>6

(* The commands whose connection broke, when a backend moves.              *)
LEMMA MovesOrphans ==
    ASSUME TypeInv, TypeInv', Control, Decisions, NEW b \in Backends, Moves(b)
    PROVE  \A o \in orphans' : OrphanSound(o)'
<1>1. OtherConnections(b) /\ LocalGrows /\ cur[b] \in Txns
      /\ \A t \in Txns : t # cur[b] => local'[t] = local[t]
    BY MovesOthers, MovesLocal
<1>2. orphans' = orphans /\ twoPhase \subseteq twoPhase' /\ dirty \subseteq dirty'
    BY MovesOneBackend
<1> SUFFICES ASSUME NEW o \in orphans PROVE OrphanSound(o)'
    BY <1>2
<1>3. OrphanSound(o) /\ o.txn \in Txns /\ o.w \in Workers /\ o.cmd \in Commands
    BY DEF Decisions, TypeInv, TypeOK
<1>4. local[o.txn] \in {"committed", "aborted"} => local'[o.txn] = local[o.txn]
    BY <1>1, <1>3 DEF LocalGrows
<1>5. ASSUME o.cmd \in {"PREPARE", "EXEC"}
      PROVE  /\ local'[o.txn] \in {"active", "aborted"}
             /\ \A c \in Backends : cur'[c] = o.txn => Doomed(c, o.w)'
  <2>1. /\ local[o.txn] \in {"active", "aborted"}
        /\ \A c \in Backends : cur[c] = o.txn => Doomed(c, o.w)
    BY <1>3, <1>5 DEF OrphanSound
  <2>2. CASE o.txn = cur[b]
    <3>1. ~ LocalCommit(b) /\ (cur'[b] = cur[b] => Doomed(b, o.w)')
      BY <1>3, <2>1, <2>2, DoomedStays
    <3>2. local' = local \/ \E R \in SUBSET Workers : Abort(b, R)
      BY <3>1, MovesOf DEF MovesAre, SendExec, PreCommit, PostCommit,
         FetchExec, FetchPrepare, FetchCommit, FetchRollback, PreCommitSendFails,
         PostCommitSendFails, LocalError, Finish
    <3>3. local'[o.txn] \in {"active", "aborted"}
      <4>1. local' = local \/ local' = [local EXCEPT ![cur[b]] = "aborted"]
        BY <3>2 DEF Abort
      <4> QED BY <1>3, <2>1, <2>2, <4>1 DEF TypeInv, TypeOK
    <3>4. \A c \in Backends : cur'[c] = o.txn => c = b
      BY <1>1, <2>2, ConstantsOK DEF OtherConnections, Control
    <3> QED BY <2>2, <3>1, <3>3, <3>4
  <2>3. CASE o.txn # cur[b]
    <3>1. local'[o.txn] = local[o.txn]
      BY <1>1, <1>3, <2>3
    <3>2. ASSUME NEW c \in Backends, cur'[c] = o.txn PROVE Doomed(c, o.w)'
      <4>1. CASE c = b
        <5>1. cur' = cur \/ cur' = [cur EXCEPT ![b] = NoTxn]
          BY MovesOf DEF MovesAre, SendExec, PreCommit, PostCommit, Abort,
             FetchExec, FetchPrepare, FetchCommit, FetchRollback, PreCommitSendFails,
             PostCommitSendFails, LocalCommit, LocalError, Finish
        <5> QED BY <1>3, <2>3, <3>2, <4>1, <5>1, ConstantsOK DEF TypeInv, TypeOK
      <4>2. CASE c # b
        BY <1>1, <1>3, <2>1, <3>2, <4>2 DEF OtherConnections, Doomed
      <4> QED BY <4>1, <4>2
    <3> QED BY <2>1, <3>1, <3>2
  <2> QED BY <2>2, <2>3
<1> QED BY <1>2, <1>3, <1>4, <1>5 DEF OrphanSound

(* Sessions that end, one part at a time.                                  *)
LEMMA CloseFacts ==
    ASSUME TypeOK, NEW R, NEW t \in Txns, work' = CloseSessions(R, t)
    PROVE  \A w \in Workers, u \in Txns :
              \/ work'[w][u] = work[w][u]
              \/ u = t /\ w \in R /\ work[w][u] = "open" /\ work'[w][u] = "aborted"
BY DEF CloseSessions, TypeOK

(* A backend's step ends open sessions of its transaction at most.         *)
LEMMA MovesWork ==
    ASSUME TypeInv, Control, NEW b \in Backends, Moves(b)
    PROVE  \A w \in Workers, t \in Txns :
              \/ work'[w][t] = work[w][t]
              \/ t = cur[b] /\ work[w][t] = "open" /\ work'[w][t] = "aborted"
<1>1. cur[b] \in Txns
    BY MovesLocal
<1>2. work' = work \/ \E R : work' = CloseSessions(R, cur[b])
  <2>1. ASSUME NEW R, SendExec(b, R) \/ PreCommit(b, R) \/ PostCommit(b, R) \/ Abort(b, R)
        PROVE  work' = CloseSessions(R, cur[b])
    BY <2>1 DEF SendExec, PreCommit, PostCommit, Abort, Renewed
  <2>2. ASSUME NEW f, NEW S, PreCommitSendFails(b, f, S) \/ PostCommitSendFails(b, f, S)
        PROVE  work' = CloseSessions({f}, cur[b])
    BY <2>2 DEF PreCommitSendFails, PostCommitSendFails
  <2>3. ASSUME NEW w, \/ FetchExec(b, w) \/ FetchPrepare(b, w)
                      \/ FetchCommit(b, w) \/ FetchRollback(b, w)
        PROVE  work' = work
    BY <2>3 DEF FetchExec, FetchPrepare, FetchCommit, FetchRollback
  <2>4. CASE LocalCommit(b) \/ LocalError(b) \/ Finish(b)
    BY <2>4 DEF LocalCommit, LocalError, Finish
  <2>5. MovesAre(b)
    BY MovesOf
  <2> QED BY <2>1, <2>2, <2>3, <2>4, <2>5 DEF MovesAre
<1>3. ASSUME NEW R, work' = CloseSessions(R, cur[b])
      PROVE  \A w \in Workers, t \in Txns :
              \/ work'[w][t] = work[w][t]
              \/ t = cur[b] /\ work[w][t] = "open" /\ work'[w][t] = "aborted"
    BY <1>1, <1>3, CloseFacts DEF TypeInv
<1> QED BY <1>2, <1>3

(* A backend's step and the tables the daemon reads.                       *)
LEMMA MovesTables ==
    ASSUME TypeInv, Control, NEW b \in Backends, Moves(b)
    PROVE  /\ rows \subseteq rows'
           /\ \A t \in inprogress' : t \in inprogress \/ (t = cur[b] /\ t \notin twoPhase)
<1>1. BackendSound(b) /\ MovesAre(b)
    BY MovesOf DEF Control
<1>2. rows \subseteq rows'
    BY <1>1 DEF MovesAre, SendExec, PreCommit, PostCommit, Abort, FetchExec, FetchPrepare,
       FetchCommit, FetchRollback, PreCommitSendFails, PostCommitSendFails, LocalCommit,
       LocalError, Finish
<1>3. CASE pc[b] = "precommit"
  <2>1. cur[b] \notin twoPhase
    BY <1>1, <1>3 DEF BackendSound
  <2>2. inprogress' \subseteq inprogress \cup {cur[b]}
    BY <1>1, <1>3 DEF MovesAre, SendExec, PreCommit, PostCommit, Abort, FetchExec, FetchPrepare,
       FetchCommit, FetchRollback, PreCommitSendFails, PostCommitSendFails, LocalCommit,
       LocalError, Finish, StartTwoPhase
  <2> QED BY <1>2, <2>1, <2>2
<1>4. CASE pc[b] # "precommit"
  <2>1. inprogress' \subseteq inprogress
    BY <1>1, <1>4 DEF MovesAre, SendExec, PreCommit, PostCommit, Abort, FetchExec, FetchPrepare,
       FetchCommit, FetchRollback, PreCommitSendFails, PostCommitSendFails, LocalCommit,
       LocalError, Finish
  <2> QED BY <1>2, <2>1
<1> QED BY <1>3, <1>4

(* A backend's step keeps the daemon's decisions right.                    *)
LEMMA MovesDecisions ==
    ASSUME TypeInv, TypeInv', Control, Decisions, NEW b \in Backends, Moves(b)
    PROVE  Decisions'
<1>1. \A o \in orphans' : OrphanSound(o)'
    BY MovesOrphans
<1>2. twoPhase \subseteq twoPhase' /\ cl' = cl
    BY MovesOneBackend
<1>3. \A t \in Txns, w \in Workers : work'[w][t] = "prepared" => t \in twoPhase'
    BY <1>2, MovesWork DEF Decisions
<1>4. CleanerSound'
    BY <1>2, MovesTables DEF Decisions, CleanerSound
<1> QED BY <1>1, <1>3, <1>4 DEF Decisions

(* The status of one part, and of the others.                              *)
LEMMA WorkFacts ==
    ASSUME TypeOK, NEW w \in Workers, NEW t \in Txns, NEW s,
           work' = [work EXCEPT ![w][t] = s]
    PROVE  /\ work'[w][t] = s
           /\ \A v \in Workers, u \in Txns : (v # w \/ u # t) => work'[v][u] = work[v][u]
<1>1. work \in [Workers -> [Txns -> WorkStatus]]
    BY DEF TypeOK
<1> QED BY <1>1

\* The steps of a worker and of the network on one connection.
Serves(b, w) == Answer(b, w) \/ WorkerFails(b, w) \/ ConnBreak(b, w)

(* They change one part of one transaction: that of the message.           *)
LEMMA ServesWork ==
    ASSUME TypeInv, NEW b \in Backends, NEW w \in Workers, Serves(b, w)
    PROVE  LET m == chan[b][w] IN
           /\ m.txn \in Txns /\ m.cmd # "none" /\ m.cmd # "lost"
           /\ \A v \in Workers, u \in Txns : (v # w \/ u # m.txn) => work'[v][u] = work[v][u]
           /\ \/ work'[w][m.txn] = work[w][m.txn]
              \/ /\ Answer(b, w) /\ m.cmd \in Commands
                 /\ work'[w][m.txn] = Done(m.cmd, work[w][m.txn])
              \/ /\ work'[w][m.txn] = "aborted" /\ m.cmd \in {"BEGIN", "EXEC"}
                 /\ WorkerFails(b, w)
              \/ work'[w][m.txn] = "aborted" /\ work[w][m.txn] = "open"
<1> DEFINE m == chan[b][w]
<1>1. m.txn \in Txns /\ m.cmd # "none" /\ m.cmd # "lost"
    BY DEF Serves, Answer, WorkerFails, ConnBreak, Commands, TypeInv, Bound
<1>2. CASE Answer(b, w)
  <2>1. work' = [work EXCEPT ![w][m.txn] = Done(m.cmd, work[w][m.txn])] /\ m.cmd \in Commands
    BY <1>2 DEF Answer
  <2> QED BY <1>1, <1>2, <2>1, WorkFacts DEF TypeInv
<1>3. CASE WorkerFails(b, w)
  <2>1. /\ work' = [work EXCEPT ![w][m.txn] = "aborted"]
        /\ m.cmd \in {"BEGIN", "EXEC"} \/ work[w][m.txn] = "open"
    BY <1>3 DEF WorkerFails
  <2> QED BY <1>1, <1>3, <2>1, WorkFacts DEF TypeInv
<1>4. CASE ConnBreak(b, w)
  <2>1. work' = work \/ work' = CloseSessions({w}, m.txn)
    BY <1>4 DEF ConnBreak
  <2> QED BY <1>1, <2>1, CloseFacts DEF TypeInv
<1> QED BY <1>2, <1>3, <1>4 DEF Serves

(* The rest of the state does not move, but for a command left behind.     *)
LEMMA ServesFrame ==
    ASSUME TypeInv, NEW b \in Backends, NEW w \in Workers, Serves(b, w)
    PROVE  /\ UNCHANGED <<pc, cur, await, gid, failed, newRows, tstate, plan, local, rows,
                          inprogress, cl, twoPhase, dirty>>
           /\ \A o \in orphans' : \/ o \in orphans
                                  \/ /\ ConnBreak(b, w) /\ w \in await[b]
                                     /\ o = [w |-> w, cmd |-> chan[b][w].cmd,
                                             txn |-> chan[b][w].txn]
                                     /\ chan[b][w].cmd \in Commands \ {"BEGIN"}
           /\ orphans \subseteq orphans'
           /\ \E r \in {"ok", "fail", "lost"} : ResultAt(b, w, r)
                   /\ (ConnBreak(b, w) => r = "lost")
                   /\ (WorkerFails(b, w) => r # "ok")
<1>1. UNCHANGED <<pc, cur, await, gid, failed, newRows, tstate, plan, local, rows,
                          inprogress, cl, twoPhase, dirty>>
    BY DEF Serves, Answer, WorkerFails, ConnBreak, backendVars, history
<1>2. chan[b][w].cmd # "none"
    BY DEF Serves, Answer, WorkerFails, ConnBreak, Commands
<1>3. CASE ConnBreak(b, w)
  <2>1. orphans' = orphans \cup LeftBehind({<<b, w>>}) /\ w \in await[b]
        /\ chan' = [chan EXCEPT ![b][w].cmd = "lost"]
    BY <1>3 DEF ConnBreak
  <2>2. \A o \in LeftBehind({<<b, w>>}) :
           /\ o = [w |-> w, cmd |-> chan[b][w].cmd, txn |-> chan[b][w].txn]
           /\ chan[b][w].cmd \in Commands \ {"BEGIN"}
    BY DEF LeftBehind
  <2>3. ResultAt(b, w, "lost")
    BY <1>1, <1>2, <2>1, ResultType
  <2>4. \E r \in {"ok", "fail", "lost"} : ResultAt(b, w, r)
           /\ (ConnBreak(b, w) => r = "lost") /\ (WorkerFails(b, w) => r # "ok")
    BY <2>3
  <2> QED BY <1>1, <1>3, <2>1, <2>2, <2>4
<1>4. CASE ~ ConnBreak(b, w)
  <2>1. orphans' = orphans
    BY <1>4 DEF Serves, Answer, WorkerFails
  <2>2. PICK r \in {"ok", "fail", "lost"} : chan' = [chan EXCEPT ![b][w].cmd = r]
                                             /\ (WorkerFails(b, w) => r # "ok")
    <3>1. CASE WorkerFails(b, w)
      BY <3>1 DEF WorkerFails
    <3>2. CASE ~ WorkerFails(b, w)
      BY <1>4, <3>2 DEF Serves, Answer, Reply
    <3> QED BY <3>1, <3>2
  <2>3. ResultAt(b, w, r)
    BY <1>1, <1>2, <2>2, ResultType
  <2>4. \E q \in {"ok", "fail", "lost"} : ResultAt(b, w, q)
           /\ (ConnBreak(b, w) => q = "lost") /\ (WorkerFails(b, w) => q # "ok")
    BY <1>4, <2>2, <2>3
  <2> QED BY <1>1, <1>4, <2>1, <2>4
<1> QED BY <1>3, <1>4

(* Such a step keeps the decisions right.                                  *)
LEMMA ServesDecisions ==
    ASSUME TypeInv, TypeInv', Control, Messages, Decisions,
           NEW b \in Backends, NEW w \in Workers, Serves(b, w)
    PROVE  Decisions'
<1> DEFINE m == chan[b][w]
<1>1. UNCHANGED <<pc, cur, await, gid, failed, newRows, tstate, plan, local, rows,
                          inprogress, cl, twoPhase, dirty>>
    BY ServesFrame
<1>2. PICK r \in {"ok", "fail", "lost"} : ResultAt(b, w, r) /\ (ConnBreak(b, w) => r = "lost")
    BY ServesFrame
<1>3. m.txn \in Txns /\ m.cmd # "none" /\ m.cmd # "lost" /\ MessageSound(b, w)
    BY ServesWork DEF Messages
<1>4. ASSUME NEW c \in Backends, NEW v \in Workers, Doomed(c, v) PROVE Doomed(c, v)'
    BY <1>1, <1>2, <1>3, <1>4 DEF Doomed, ResultAt
<1>5. \A t \in Txns, v \in Workers : work'[v][t] = "prepared" => t \in twoPhase'
  <2>1. ASSUME work'[w][m.txn] = "prepared", work[w][m.txn] # "prepared" PROVE m.txn \in twoPhase
    <3>1. work'[w][m.txn] = Done(m.cmd, work[w][m.txn])
      BY <2>1, ServesWork
    <3>2. m.cmd = "PREPARE"
      <4> HIDE DEF m
      <4> QED BY <2>1, <3>1 DEF Done
    <3> QED BY <1>3, <3>2 DEF MessageSound
  <2> QED BY <1>1, <1>3, <2>1, ServesWork DEF Decisions
<1>6. CleanerSound'
    BY <1>1 DEF Decisions, CleanerSound
<1>7. ASSUME NEW o \in orphans PROVE OrphanSound(o)'
  <2>1. OrphanSound(o) /\ o.w \in Workers
    BY DEF Decisions, TypeInv, TypeOK
  <2> QED BY <1>1, <1>4, <2>1 DEF OrphanSound
<1>8. ASSUME NEW o \in orphans', o \notin orphans PROVE OrphanSound(o)'
  <2>1. /\ ConnBreak(b, w) /\ w \in await[b]
        /\ o.w = w /\ o.cmd = m.cmd /\ o.txn = m.txn
        /\ m.cmd \in Commands \ {"BEGIN"}
    BY <1>8, ServesFrame
  <2>2. CASE m.cmd \in {"PREPARE", "EXEC"}
    <3>1. cur[b] = m.txn /\ pc[b] \in {"exec", "prepare", "abort"} /\ BackendSound(b)
      BY <1>3, <2>2 DEF MessageSound, Control
    <3>2. local[m.txn] = "active"
      BY <3>1 DEF BackendSound
    <3>3. \A c \in Backends : cur[c] = m.txn => c = b
      BY <1>3, <3>1, ConstantsOK DEF Control
    <3>4. Doomed(b, w)'
      BY <1>1, <1>2, <2>1 DEF Doomed, ResultAt
    <3>5. m.txn \in IF m.cmd = "PREPARE" THEN twoPhase ELSE dirty
      BY <1>3, <2>2 DEF MessageSound
    <3> QED BY <1>1, <2>1, <2>2, <3>2, <3>3, <3>4, <3>5 DEF OrphanSound
  <2>3. CASE m.cmd \notin {"PREPARE", "EXEC"}
    BY <1>1, <1>3, <2>1, <2>3 DEF OrphanSound, MessageSound
  <2> QED BY <2>2, <2>3
<1> QED BY <1>5, <1>6, <1>7, <1>8 DEF Decisions

(* What a command left behind does.                                        *)
LEMMA OrphanWork ==
    ASSUME TypeInv, NEW o, OrphanRun(o) \/ OrphanDrop(o)
    PROVE  /\ o \in orphans /\ o.w \in Workers /\ o.txn \in Txns /\ o.cmd \in Commands
           /\ orphans' = orphans \ {o}
           /\ UNCHANGED <<pc, cur, await, gid, failed, newRows, tstate, chan, plan, local, rows,
                          inprogress, cl, twoPhase, dirty>>
           /\ \A v \in Workers, u \in Txns :
                 (v # o.w \/ u # o.txn) => work'[v][u] = work[v][u]
           /\ \/ work'[o.w][o.txn] = Done(o.cmd, work[o.w][o.txn])
              \/ work'[o.w][o.txn] = work[o.w][o.txn]
              \/ work'[o.w][o.txn] = "aborted" /\ work[o.w][o.txn] = "open"
<1>1. o \in orphans /\ o.w \in Workers /\ o.txn \in Txns /\ o.cmd \in Commands
    BY DEF OrphanRun, OrphanDrop, TypeInv, TypeOK
<1>2. /\ orphans' = orphans \ {o}
      /\ UNCHANGED <<pc, cur, await, gid, failed, newRows, tstate, chan, plan, local, rows,
                          inprogress, cl, twoPhase, dirty>>
    BY DEF OrphanRun, OrphanDrop, backendVars, history
<1>3. CASE OrphanRun(o)
  <2>1. work' = [work EXCEPT ![o.w][o.txn] = Done(o.cmd, work[o.w][o.txn])]
    BY <1>3 DEF OrphanRun
  <2> QED BY <1>1, <1>2, <2>1, WorkFacts DEF TypeInv
<1>4. CASE OrphanDrop(o)
  <2>1. work' = CloseSessions({o.w}, o.txn)
    BY <1>4 DEF OrphanDrop
  <2>2. \A w \in Workers, u \in Txns :
           \/ work'[w][u] = work[w][u]
           \/ u = o.txn /\ w \in {o.w} /\ work[w][u] = "open" /\ work'[w][u] = "aborted"
    BY <1>1, <2>1, CloseFacts DEF TypeInv
  <2> QED BY <1>1, <1>2, <2>2
<1> QED BY <1>3, <1>4

(* It keeps the decisions right.                                           *)
LEMMA OrphanDecisions ==
    ASSUME TypeInv, Decisions, NEW o, OrphanRun(o) \/ OrphanDrop(o)
    PROVE  Decisions'
<1>1. /\ o \in orphans /\ o.w \in Workers /\ o.txn \in Txns
      /\ orphans' = orphans \ {o}
      /\ UNCHANGED <<pc, cur, await, gid, failed, newRows, tstate, chan, plan, local, rows,
                          inprogress, cl, twoPhase, dirty>>
    BY OrphanWork
<1>2. ASSUME work'[o.w][o.txn] = "prepared", work[o.w][o.txn] # "prepared"
      PROVE  o.txn \in twoPhase
  <2>1. work'[o.w][o.txn] = Done(o.cmd, work[o.w][o.txn])
    BY <1>2, OrphanWork
  <2>2. o.cmd = "PREPARE"
    BY <1>2, <2>1 DEF Done
  <2> QED BY <1>1, <2>2 DEF Decisions, OrphanSound
<1>3. \A t \in Txns, v \in Workers : work'[v][t] = "prepared" => t \in twoPhase'
    BY <1>1, <1>2, OrphanWork DEF Decisions
<1>4. CleanerSound'
    BY <1>1 DEF Decisions, CleanerSound
<1>5. \A p \in orphans' : OrphanSound(p)'
    BY <1>1 DEF Decisions, OrphanSound, Doomed
<1> QED BY <1>3, <1>4, <1>5 DEF Decisions

(* What the daemon does to the workers: it ends transactions that are      *)
(* prepared, committing those that have a row.                             *)
LEMMA DaemonWork ==
    ASSUME TypeInv, Daemon \/ DaemonFails, NEW w \in Workers, NEW t \in Txns,
           work'[w][t] # work[w][t]
    PROVE  /\ cl.at = "scan" /\ w = cl.w /\ work[w][t] = "prepared" /\ t \in cl.A \ cl.B
           /\ \/ work'[w][t] = "committed" /\ t \in cl.C
              \/ work'[w][t] = "aborted" /\ cl.C = {}
<1>1. PICK x \in Txns : ScanC(x) \/ SweepA(x)
    BY DEF Daemon, DaemonFails, CleanStart, ReadA, ReadB, ReadC, ReadD, CleanEnd, CleanAbort,
           CleanFail, CleanLose
<1>2. cl.at = "scan" /\ cl.w \in Workers
    BY <1>1 DEF ScanC, SweepA, TypeInv, Bound
<1>3. PICK cmd \in {"COMMIT PREPARED", "ROLLBACK PREPARED"} :
         /\ work' = [work EXCEPT ![cl.w][x] = Done(cmd, work[cl.w][x])]
         /\ x \in cl.A \ cl.B
         /\ cmd = "COMMIT PREPARED" => x \in cl.C
         /\ cmd = "ROLLBACK PREPARED" => cl.C = {}
    BY <1>1 DEF ScanC, SweepA, Resolve
<1>4. w = cl.w /\ t = x /\ work'[w][t] = Done(cmd, work[w][t])
  <2> DEFINE s == Done(cmd, work[cl.w][x])
  <2> HIDE DEF s
  <2>1. work' = [work EXCEPT ![cl.w][x] = s]
    BY <1>3 DEF s
  <2>2. /\ work'[cl.w][x] = s
        /\ \A v \in Workers, u \in Txns : (v # cl.w \/ u # x) => work'[v][u] = work[v][u]
    <3>1. work \in [Workers -> [Txns -> WorkStatus]]
      BY DEF TypeInv, TypeOK
    <3> QED BY <1>2, <2>1, <3>1
  <2>3. w = cl.w /\ t = x
    BY <2>2
  <2> QED BY <2>2, <2>3 DEF s
<1>5. /\ work[w][t] = "prepared"
      /\ work'[w][t] = IF cmd = "COMMIT PREPARED" THEN "committed" ELSE "aborted"
    BY <1>4 DEF Done
<1> QED BY <1>2, <1>3, <1>4, <1>5

(* The rest of the state, when the daemon takes a step.                    *)
LEMMA DaemonFrame ==
    ASSUME Daemon \/ DaemonFails
    PROVE  /\ UNCHANGED <<pc, cur, await, gid, failed, newRows, tstate, chan, plan, local,
                          inprogress, twoPhase, dirty>>
           /\ orphans \subseteq orphans'
           /\ rows' = rows \/ (rows' = rows \ cl.deleted /\ cl' = CleanerIdle)
<1>1. UNCHANGED <<backendVars, tstate, chan, plan, local, inprogress, history>>
    BY DEF Daemon, DaemonFails, CleanStart, ReadA, ReadB, ReadC, ReadD, CleanEnd, ScanC, SweepA,
           CleanAbort, CleanFail, CleanLose, cleanerOnly, connVars
<1>2. /\ orphans \subseteq orphans'
      /\ rows' = rows \/ (rows' = rows \ cl.deleted /\ cl' = CleanerIdle)
    BY DEF Daemon, DaemonFails, CleanStart, ReadA, ReadB, ReadC, ReadD, CleanEnd, ScanC, SweepA,
           CleanAbort, CleanFail, CleanLose, cleanerOnly, connVars
<1> QED BY <1>1, <1>2 DEF backendVars, history

(* The command the daemon leaves behind.                                   *)
LEMMA DaemonOrphans ==
    ASSUME TypeInv, Daemon \/ DaemonFails, NEW o \in orphans', o \notin orphans
    PROVE  /\ cl.at = "scan" /\ o.w = cl.w /\ o.txn \in cl.A \ cl.B
           /\ \/ o.cmd = "COMMIT PREPARED" /\ o.txn \in cl.C
              \/ o.cmd = "ROLLBACK PREPARED" /\ cl.C = {}
<1>1. PICK t \in Txns : CleanLose(t)
    BY DEF Daemon, DaemonFails, CleanStart, ReadA, ReadB, ReadC, ReadD, CleanEnd, CleanAbort,
           CleanFail, ScanC, SweepA, cleanerOnly, connVars
<1>2. PICK cmd \in {"COMMIT PREPARED", "ROLLBACK PREPARED"} :
         /\ orphans' = orphans \cup {[w |-> cl.w, cmd |-> cmd, txn |-> t]}
         /\ cmd = "COMMIT PREPARED" => t \in (cl.A \cap cl.C \cap cl.D) \ cl.B
         /\ cmd = "ROLLBACK PREPARED" => cl.C = {} /\ t \in cl.A \ cl.B
         /\ cl.at = "scan"
    BY <1>1 DEF CleanLose
<1>3. o = [w |-> cl.w, cmd |-> cmd, txn |-> t]
    BY <1>2
<1>4. o.w = cl.w /\ o.cmd = cmd /\ o.txn = t
    BY <1>3
<1> QED BY <1>2, <1>4

(* What the daemon may end is not in progress, so it is decided.           *)
LEMMA CleanerDecided ==
    ASSUME TypeInv, Control, CleanerSound, cl.at = "scan", NEW t \in cl.A \ cl.B
    PROVE  /\ t \in Txns /\ cl.w \in Workers /\ t \notin inprogress
           /\ local[t] \in {"committed", "aborted"}
           /\ t \in cl.C => local[t] = "committed"
<1>1. t \in Txns /\ cl.w \in Workers /\ t \in twoPhase
    BY DEF TypeInv, TypeOK, CleanerSound
<1>2. t \notin inprogress
    BY DEF CleanerSound
<1>3. local[t] # "none" /\ local[t] # "active"
    BY <1>1, <1>2 DEF Control
<1>4. local[t] \in {"committed", "aborted"}
    BY <1>1, <1>3 DEF TypeInv, TypeOK
<1>5. t \in cl.C => local[t] = "committed"
  <2>1. ASSUME t \in cl.C PROVE local[t] = "committed"
    <3>1. <<cl.w, t>> \in rows
      BY <2>1 DEF CleanerSound
    <3> QED BY <3>1 DEF Control
  <2> QED BY <2>1
<1> QED BY <1>1, <1>2, <1>4, <1>5

(* The daemon's own bookkeeping.                                           *)
LEMMA DaemonCleaner ==
    ASSUME TypeInv, Control, Decisions, Daemon \/ DaemonFails
    PROVE  CleanerSound'
<1>1. CleanerSound /\ cl \in Cleaner
    BY DEF Decisions, TypeInv, TypeOK, Cleaner
<1>2. inprogress' = inprogress /\ twoPhase' = twoPhase
    BY DaemonFrame
<1>3. ASSUME cl' = CleanerIdle PROVE CleanerSound'
    BY <1>3 DEF CleanerSound, CleanerIdle
<1>4. CASE CleanStart
    BY <1>4 DEF CleanStart, CleanerIdle, CleanerSound
<1>5. ASSUME NEW w \in Workers, NEW s \in Workers, ReadA(w, s) PROVE CleanerSound'
  <2>1. cl'.at = "B" /\ cl'.A = Prepared(s) /\ cl'.deleted = cl.deleted /\ rows' = rows
        /\ cl'.w = w
    BY <1>1, <1>5 DEF ReadA, Cleaner
  <2>2. Prepared(s) \subseteq twoPhase
    BY DEF Decisions, Prepared
  <2> QED BY <1>1, <1>2, <2>1, <2>2 DEF CleanerSound
<1>6. CASE ReadB
  <2>1. /\ cl'.at = "C" /\ cl'.A = cl.A /\ cl'.B = inprogress /\ cl'.deleted = cl.deleted
        /\ rows' = rows /\ cl'.w = cl.w /\ cl.at = "B"
    BY <1>1, <1>6 DEF ReadB, Cleaner
  <2> QED BY <1>1, <1>2, <2>1 DEF CleanerSound
<1>7. CASE ReadC
  <2>1. /\ cl'.at = "D" /\ cl'.A = cl.A /\ cl'.B = cl.B /\ cl'.deleted = cl.deleted
        /\ rows' = rows /\ cl'.w = cl.w /\ cl.at = "C"
        /\ cl'.C = {t \in Txns : <<cl.w, t>> \in rows \ cl.deleted}
    BY <1>1, <1>7 DEF ReadC, Cleaner
  <2> QED BY <1>1, <1>2, <2>1 DEF CleanerSound
<1>8. CASE ReadD
  <2>1. /\ cl'.at = "scan" /\ cl'.A = cl.A /\ cl'.B = cl.B /\ cl'.deleted = cl.deleted
        /\ rows' = rows /\ cl'.w = cl.w /\ cl'.C = cl.C /\ cl.at = "D"
    BY <1>1, <1>8 DEF ReadD, Cleaner
  <2> QED BY <1>1, <1>2, <2>1 DEF CleanerSound
<1>9. ASSUME NEW t \in Txns, ScanC(t) \/ SweepA(t) PROVE CleanerSound'
  <2>1. /\ cl.at = "scan" /\ rows' = rows
        /\ cl'.at \in {"scan", "next"} /\ cl'.w = cl.w /\ cl'.B = cl.B
        /\ cl'.A \subseteq cl.A /\ cl'.C \subseteq cl.C
        /\ cl'.deleted = cl.deleted \/ (t \in cl.C /\ cl'.deleted = cl.deleted \cup {<<cl.w, t>>})
    <3> DEFINE rest == [cl EXCEPT !.C = @ \ {t}]
               noA == [rest EXCEPT !.A = @ \ {t}]
               swept == [cl EXCEPT !.A = @ \ {t}]
               dropped == [noA EXCEPT !.deleted = @ \cup {<<cl.w, t>>}]
               next == [cl EXCEPT !.at = "next"]
    <3>1. cl.at = "scan" /\ rows' = rows
      BY <1>9 DEF ScanC, SweepA
    <3>2. \/ cl' \in {rest, noA, swept, next}
          \/ cl' = dropped /\ t \in cl.C
      BY <1>9 DEF ScanC, SweepA, Resolve
    <3>3. \A r \in {rest, swept, next} :
             /\ r.at \in {"scan", "next"} /\ r.w = cl.w /\ r.B = cl.B
             /\ r.A \subseteq cl.A /\ r.C \subseteq cl.C /\ r.deleted = cl.deleted
      BY <1>1, <3>1 DEF Cleaner
    <3>4. rest \in Cleaner
      BY <1>1 DEF Cleaner
    <3> HIDE DEF rest, swept, next
    <3>5. /\ noA \in Cleaner /\ noA.at \in {"scan", "next"} /\ noA.w = cl.w /\ noA.B = cl.B
          /\ noA.A \subseteq cl.A /\ noA.C \subseteq cl.C /\ noA.deleted = cl.deleted
      BY <1>1, <3>3, <3>4 DEF Cleaner
    <3> HIDE DEF noA
    <3>6. /\ dropped.at \in {"scan", "next"} /\ dropped.w = cl.w /\ dropped.B = cl.B
          /\ dropped.A \subseteq cl.A /\ dropped.C \subseteq cl.C
          /\ dropped.deleted = cl.deleted \cup {<<cl.w, t>>}
      BY <3>5 DEF Cleaner
    <3> HIDE DEF dropped
    <3> QED BY <3>1, <3>2, <3>3, <3>5, <3>6
  <2> QED BY <1>1, <1>2, <2>1 DEF CleanerSound
<1>10. CASE CleanEnd \/ CleanAbort
    BY <1>3, <1>10 DEF CleanEnd, CleanAbort
<1>11. ASSUME \/ \E w \in Workers, u \in BOOLEAN : CleanFail(w, u)
              \/ \E t \in Txns : CleanLose(t)
       PROVE  CleanerSound'
  <2>1. rows' = rows /\ cl'.at = "next" /\ cl'.A = cl.A /\ cl'.deleted = cl.deleted
    BY <1>1, <1>11 DEF CleanFail, CleanLose, Cleaner
  <2> QED BY <1>1, <1>2, <2>1 DEF CleanerSound
<1> QED BY <1>4, <1>5, <1>6, <1>7, <1>8, <1>9, <1>10, <1>11 DEF Daemon, DaemonFails

(* A step of the daemon keeps its decisions right.                         *)
LEMMA DaemonDecisions ==
    ASSUME TypeInv, Control, Decisions, Daemon \/ DaemonFails
    PROVE  Decisions'
<1>1. UNCHANGED <<pc, cur, await, gid, failed, newRows, tstate, chan, plan, local,
                          inprogress, twoPhase, dirty>>
    BY DaemonFrame
<1>2. \A t \in Txns, w \in Workers : work'[w][t] = "prepared" => t \in twoPhase'
    BY <1>1, DaemonWork DEF Decisions
<1>3. CleanerSound /\ CleanerSound'
    BY DaemonCleaner DEF Decisions
<1>4. ASSUME NEW o \in orphans PROVE OrphanSound(o)'
    BY <1>1 DEF Decisions, OrphanSound, Doomed
<1>5. ASSUME NEW o \in orphans', o \notin orphans PROVE OrphanSound(o)'
  <2>1. /\ cl.at = "scan" /\ o.w = cl.w /\ o.txn \in cl.A \ cl.B
        /\ \/ o.cmd = "COMMIT PREPARED" /\ o.txn \in cl.C
           \/ o.cmd = "ROLLBACK PREPARED" /\ cl.C = {}
    BY <1>5, DaemonOrphans
  <2>2. /\ local[o.txn] \in {"committed", "aborted"}
        /\ o.txn \in cl.C => local[o.txn] = "committed"
    BY <1>3, <2>1, CleanerDecided
  <2> QED BY <1>1, <2>1, <2>2 DEF OrphanSound
<1> QED BY <1>2, <1>3, <1>4, <1>5 DEF Decisions

(* What a crash does.                                                      *)
LEMMA CrashFacts ==
    ASSUME TypeInv, Crash
    PROVE  /\ \A b \in Backends : pc'[b] = "idle" /\ cur'[b] = NoTxn
           /\ \A t \in Txns : local'[t] = IF local[t] = "active" THEN "aborted" ELSE local[t]
           /\ \A w \in Workers, t \in Txns :
                 \/ work'[w][t] = work[w][t]
                 \/ work[w][t] = "open" /\ work'[w][t] = "aborted"
           /\ UNCHANGED <<plan, rows, twoPhase, dirty>> /\ cl' = CleanerIdle
           /\ inprogress' = {}
           /\ orphans \subseteq orphans'
           /\ \A o \in orphans' : \/ o \in orphans
                                  \/ \E b \in Backends, w \in Workers :
                                       /\ o.w = w /\ o.cmd = chan[b][w].cmd
                                       /\ o.txn = chan[b][w].txn
                                       /\ chan[b][w].cmd \in Commands \ {"BEGIN"}
<1>1. /\ \A b \in Backends : pc'[b] = "idle" /\ cur'[b] = NoTxn
      /\ \A t \in Txns : local'[t] = IF local[t] = "active" THEN "aborted" ELSE local[t]
      /\ UNCHANGED <<plan, rows, twoPhase, dirty>> /\ cl' = CleanerIdle
      /\ inprogress' = {}
    BY DEF Crash, history
<1>2. \A w \in Workers, t \in Txns :
                 \/ work'[w][t] = work[w][t]
                 \/ work[w][t] = "open" /\ work'[w][t] = "aborted"
    BY DEF Crash
<1>3. orphans' = orphans \cup LeftBehind(Backends \X Workers)
    BY DEF Crash
<1>4. ASSUME NEW o \in LeftBehind(Backends \X Workers)
      PROVE  \E b \in Backends, w \in Workers :
                 /\ o.w = w /\ o.cmd = chan[b][w].cmd /\ o.txn = chan[b][w].txn
                 /\ chan[b][w].cmd \in Commands \ {"BEGIN"}
  <2>1. PICK d \in Backends \X Workers :
           /\ chan[d[1]][d[2]].cmd \in Commands \ {"BEGIN"}
           /\ o = [w |-> d[2], cmd |-> chan[d[1]][d[2]].cmd, txn |-> chan[d[1]][d[2]].txn]
    BY DEF LeftBehind
  <2>2. d[1] \in Backends /\ d[2] \in Workers
    OBVIOUS
  <2> QED BY <2>1, <2>2
<1> QED BY <1>1, <1>2, <1>3, <1>4

(* A crash decides against the transactions that are active.               *)
LEMMA CrashDecisions ==
    ASSUME TypeInv, TypeInv', Control, Messages, Decisions, Crash
    PROVE  Decisions'
<1>1. /\ \A b \in Backends : cur'[b] = NoTxn
      /\ \A t \in Txns : local'[t] = IF local[t] = "active" THEN "aborted" ELSE local[t]
      /\ UNCHANGED <<plan, rows, twoPhase, dirty>> /\ cl' = CleanerIdle
      /\ inprogress' = {}
    BY CrashFacts
<1>2. \A t \in Txns, w \in Workers : work'[w][t] = "prepared" => t \in twoPhase'
    BY <1>1, CrashFacts DEF Decisions
<1>3. CleanerSound'
    BY <1>1 DEF CleanerSound, CleanerIdle
<1>4. ASSUME NEW o \in orphans' PROVE o.txn \in Txns
    BY DEF TypeInv, TypeOK
<1>5. ASSUME NEW o \in orphans PROVE OrphanSound(o)'
  <2>1. OrphanSound(o) /\ o.txn \in Txns
    BY DEF Decisions, TypeInv, TypeOK
  <2> QED BY <1>1, <2>1, ConstantsOK DEF OrphanSound
<1>6. ASSUME NEW o \in orphans', o \notin orphans PROVE OrphanSound(o)'
  <2>1. PICK b \in Backends, w \in Workers :
                 /\ o.w = w /\ o.cmd = chan[b][w].cmd /\ o.txn = chan[b][w].txn
                 /\ chan[b][w].cmd \in Commands \ {"BEGIN"}
    BY <1>6, CrashFacts
  <2>2. MessageSound(b, w) /\ BackendSound(b) /\ o.txn \in Txns
    BY <1>4 DEF Messages, Control
  <2>3. CASE o.cmd \in {"PREPARE", "EXEC"}
    <3>1. local[o.txn] = "active"
      BY <2>1, <2>2, <2>3 DEF MessageSound, BackendSound
    <3>2. o.txn \in IF o.cmd = "PREPARE" THEN twoPhase ELSE dirty
      BY <2>1, <2>2, <2>3 DEF MessageSound
    <3> QED BY <1>1, <2>2, <2>3, <3>1, <3>2, ConstantsOK DEF OrphanSound
  <2>4. CASE o.cmd \notin {"PREPARE", "EXEC"}
    BY <1>1, <2>1, <2>2, <2>4 DEF OrphanSound, MessageSound
  <2> QED BY <2>3, <2>4
<1> QED BY <1>2, <1>3, <1>5, <1>6 DEF Decisions

(* A transaction begins.                                                   *)
LEMMA BeginDecisions ==
    ASSUME TypeInv, TypeInv', Control, Decisions, NEW b \in Backends, NEW t \in Txns,
           NEW p \in Plans, Begin(b, t, p)
    PROVE  Decisions'
<1>1. /\ UNCHANGED <<orphans, work, rows, inprogress, cl, twoPhase, dirty>>
      /\ local[t] = "none"
      /\ \A u \in Txns : local'[u] = IF u = t THEN "active" ELSE local[u]
    BY DEF Begin, connVars, history, TypeInv, TypeOK
<1>2. OtherConnections(b)
    BY BeginOthers
<1>3. ASSUME NEW o \in orphans PROVE OrphanSound(o)'
  <2>1. OrphanSound(o) /\ o.txn \in Txns /\ o.w \in Workers /\ o.cmd \in Commands
    BY DEF Decisions, TypeInv, TypeOK
  <2>2. o.txn # t
    BY <1>1, <2>1 DEF OrphanSound, Commands
  <2>3. cur'[b] = t
    BY DEF Begin, TypeInv, TypeOK
  <2>4. ASSUME NEW c \in Backends, cur'[c] = o.txn,
               \A d \in Backends : cur[d] = o.txn => Doomed(d, o.w)
        PROVE  Doomed(c, o.w)'
    BY <1>2, <2>1, <2>2, <2>3, <2>4 DEF OtherConnections, Doomed
  <2> QED BY <1>1, <2>1, <2>2, <2>4 DEF OrphanSound
<1>4. CleanerSound'
    BY <1>1 DEF Decisions, CleanerSound
<1> QED BY <1>1, <1>3, <1>4 DEF Decisions

(* Every step keeps the decisions right.                                   *)
LEMMA DecisionsStep ==
    ASSUME TypeInv, TypeInv', Control, Messages, Decisions, [Next]_vars
    PROVE  Decisions'
<1>1. CASE UNCHANGED vars
  <2>1. UNCHANGED <<pc, cur, await, failed, chan, orphans, local, work, rows, inprogress, cl,
                    twoPhase, dirty>>
    BY <1>1 DEF vars, backendVars, connVars, history
  <2>2. \A o \in orphans' : OrphanSound(o)'
    BY <2>1 DEF Decisions, OrphanSound, Doomed
  <2> QED BY <2>1, <2>2 DEF Decisions, CleanerSound
<1>2. ASSUME NEW b \in Backends, Step(b) \/ Renew(b) \/ SendFails(b) \/ LocalError(b)
      PROVE  Decisions'
    BY <1>2, MovesDecisions DEF Moves
<1>3. ASSUME NEW b \in Backends, NEW w \in Workers,
             Answer(b, w) \/ WorkerFails(b, w) \/ ConnBreak(b, w)
      PROVE  Decisions'
    BY <1>3, ServesDecisions DEF Serves
<1> QED BY <1>1, <1>2, <1>3, OrphanDecisions, DaemonDecisions, CrashDecisions, BeginDecisions
        DEF Next, OrphanResolved

-----------------------------------------------------------------------------
\* The first conjuncts of Statuses: the parts and the outcome.
PartsSound ==
    /\ \A t \in Txns, w \in Workers :
          /\ local[t] = "none" => work[w][t] = "none"
          /\ work[w][t] = "committed" => local[t] = "committed" \/ t \in dirty
    /\ \A r \in rows : work[r[1]][r[2]] \in {"prepared", "committed"}
    /\ RecoveryPossible
    /\ "lateRenew" \notin Faults => CleanAtomicity

\* How a part may move while the outcome stands: freely, short of a commit,
\* while nothing is committed; forward once the outcome is to commit; and an
\* open session may end at any time.
PartMoves(w, t) ==
    \/ work'[w][t] = work[w][t]
    \/ /\ local[t] \in {"active", "aborted"}
       /\ work'[w][t] = "committed" => t \in dirty
    \/ /\ local[t] = "committed" /\ work[w][t] \in {"open", "prepared"}
       /\ work'[w][t] = "committed"
    \/ work[w][t] = "open" /\ work'[w][t] = "aborted"

(* Such moves keep the parts in line with the outcome.                     *)
LEMMA PartsStay ==
    ASSUME TypeInv, TypeInv', Control, PartsSound,
           UNCHANGED <<plan, local, rows, twoPhase, dirty>>,
           \A w \in Workers, t \in Txns : PartMoves(w, t)
    PROVE  PartsSound'
<1>1. \A t \in Txns, w \in Workers : local[t] = "none" => work'[w][t] = "none"
    BY DEF PartsSound, PartMoves
<1>2. \A t \in Txns, w \in Workers :
         work'[w][t] = "committed" => local[t] = "committed" \/ t \in dirty
    BY DEF PartsSound, PartMoves
<1>3. ASSUME NEW r \in rows PROVE work'[r[1]][r[2]] \in {"prepared", "committed"}
  <2>1. r[1] \in Workers /\ r[2] \in Txns /\ local[r[2]] = "committed"
        /\ work[r[1]][r[2]] \in {"prepared", "committed"}
    BY DEF TypeInv, TypeOK, Control, PartsSound
  <2>2. PartMoves(r[1], r[2])
    BY <2>1
  <2> QED BY <2>1, <2>2 DEF PartMoves
<1>4. RecoveryPossible'
  <2>1. ASSUME NEW t \in Txns, NEW w \in Workers, local[t] = "committed", work'[w][t] = "prepared"
        PROVE  work[w][t] = "prepared"
    BY <2>1 DEF PartMoves
  <2> QED BY <2>1 DEF PartsSound, RecoveryPossible
<1>5. ASSUME "lateRenew" \notin Faults PROVE CleanAtomicity'
  <2>1. ASSUME NEW t \in Txns, t \in twoPhase \ dirty, NEW w \in plan[t].parts
        PROVE  IF local[t] = "committed" THEN work'[w][t] \in {"prepared", "committed"}
                                         ELSE work'[w][t] # "committed"
    <3>1. w \in Workers
      <4>1. plan[t] \in Plans \cup {NoPlan}
        BY DEF TypeInv, TypeOK
      <4>2. \A p \in Plans \cup {NoPlan} : p.parts \subseteq Workers
        BY ConstantsOK DEF NoPlan
      <4> QED BY <2>1, <4>1, <4>2
    <3>2. local[t] = "committed" => work[w][t] \in {"prepared", "committed"}
      BY <1>5, <2>1 DEF PartsSound, CleanAtomicity, Clean
    <3>3. PartMoves(w, t)
      BY <3>1
    <3> QED BY <1>2, <2>1, <3>1, <3>2, <3>3 DEF PartMoves
  <2> QED BY <2>1 DEF CleanAtomicity, Clean
<1> QED BY <1>1, <1>2, <1>3, <1>4, <1>5 DEF PartsSound

(* They also keep what the daemon sees true.                               *)
LEMMA SeenStays ==
    ASSUME TypeInv, Control, Decisions, CleanerSees,
           UNCHANGED <<local, rows, cl>>,
           \A o \in orphans' : o.cmd = "ROLLBACK PREPARED" =>
               o \in orphans \/ local[o.txn] # "committed",
           \A w \in Workers, t \in Txns : PartMoves(w, t)
    PROVE  CleanerSees'
<1>1. CleanerSound
    BY DEF Decisions
<1>2. ASSUME cl.at \in {"D", "scan"}, NEW t \in cl.A \ (cl.B \cup cl.C), local[t] = "committed"
      PROVE  work'[cl.w][t] # "prepared"
  <2>1. cl.w \in Workers /\ t \in Txns /\ work[cl.w][t] # "prepared"
    BY <1>1, <1>2 DEF CleanerSound, CleanerSees, TypeInv, TypeOK
  <2>2. PartMoves(cl.w, t)
    BY <2>1
  <2> QED BY <1>2, <2>1, <2>2 DEF PartMoves
<1>3. ASSUME NEW r \in rows, work[r[1]][r[2]] = "committed"
      PROVE  work'[r[1]][r[2]] = "committed"
  <2>1. r[1] \in Workers /\ r[2] \in Txns /\ local[r[2]] = "committed"
    BY DEF Control, TypeInv, TypeOK
  <2>2. PartMoves(r[1], r[2])
    BY <2>1
  <2> QED BY <1>3, <2>1, <2>2 DEF PartMoves
<1>4. ASSUME cl.at = "scan", NEW t \in cl.C \ cl.D PROVE work'[cl.w][t] = "committed"
  <2>1. work[cl.w][t] = "committed" /\ <<cl.w, t>> \in rows
    BY <1>1, <1>4 DEF CleanerSound, CleanerSees
  <2> QED BY <1>3, <2>1
<1>5. ASSUME NEW r \in cl.deleted PROVE work'[r[1]][r[2]] = "committed"
  <2>1. work[r[1]][r[2]] = "committed" /\ r \in rows
    BY <1>1 DEF CleanerSound, CleanerSees
  <2> QED BY <1>3, <2>1
<1>6. ASSUME NEW o \in orphans', o.cmd = "ROLLBACK PREPARED", local[o.txn] = "committed"
      PROVE  work'[o.w][o.txn] # "prepared"
  <2>1. o \in orphans
    BY <1>6
  <2>2. o.w \in Workers /\ o.txn \in Txns /\ work[o.w][o.txn] # "prepared"
    BY <1>6, <2>1 DEF CleanerSees, TypeInv, TypeOK
  <2>3. PartMoves(o.w, o.txn)
    BY <2>2
  <2> QED BY <1>6, <2>2, <2>3 DEF PartMoves
<1> QED BY <1>2, <1>4, <1>5, <1>6 DEF CleanerSees

(* Nothing is said of the phases after the decision.                       *)
LEMMA PhaseOver ==
    ASSUME NEW c \in Backends,
           pc'[c] \notin {"begin", "exec", "precommit", "prepare", "local"}
    PROVE  PhaseSound(c)'
BY DEF PhaseSound

(* A backend and its transaction that are left alone.                      *)
LEMMA PhaseStays ==
    ASSUME TypeInv, NEW c \in Backends, PhaseSound(c), cur[c] \in Txns,
           pc'[c] = pc[c], cur'[c] = cur[c], gid'[c] = gid[c], await'[c] = await[c],
           failed'[c] = failed[c], newRows'[c] = newRows[c],
           plan'[cur[c]] = plan[cur[c]], cur[c] \in dirty' <=> cur[c] \in dirty,
           \A w \in Workers : /\ tstate'[c][w] = tstate[c][w]
                              /\ work'[w][cur[c]] = work[w][cur[c]],
           \A w \in Workers : \/ chan'[c][w] = chan[c][w]
                              \/ /\ pc[c] \notin {"exec", "prepare"} \/ w \notin await[c]
    PROVE  PhaseSound(c)'
<1>1. Parts(c)' = Parts(c) /\ Parts(c) \subseteq Workers
    BY PartsType DEF Parts, TypeInv
<1>2. await[c] \subseteq Workers
    BY DEF TypeInv, TypeOK
<1>3. CASE pc[c] = "begin"
    BY <1>3 DEF PhaseSound
<1>4. CASE pc[c] = "exec"
    BY <1>1, <1>2, <1>4 DEF PhaseSound
<1>5. CASE pc[c] = "precommit"
    BY <1>1, <1>5 DEF PhaseSound
<1>6. CASE pc[c] = "prepare"
  <2>1. \A r \in newRows[c] : r[1] \in Workers
    BY DEF TypeInv, TypeOK
  <2> QED BY <1>1, <1>2, <1>6, <2>1 DEF PhaseSound
<1>7. CASE pc[c] = "local"
  <2>1. \A r \in newRows[c] : r[1] \in Workers
    BY DEF TypeInv, TypeOK
  <2> QED BY <1>1, <1>7, <2>1 DEF PhaseSound
<1> QED BY <1>3, <1>4, <1>5, <1>6, <1>7, PhaseOver

(* A backend whose transaction is decided has no phase to keep.            *)
LEMMA PhaseDecided ==
    ASSUME TypeInv, Control, NEW c \in Backends, cur[c] \in Txns,
           local[cur[c]] \in {"committed", "aborted"}
    PROVE  pc[c] \notin {"begin", "exec", "precommit", "prepare", "local"}
<1>1. BackendSound(c)
    BY DEF Control
<1> QED BY <1>1 DEF BackendSound

(* A worker moves the part of a message's transaction.                     *)
LEMMA ServesParts ==
    ASSUME TypeInv, Control, Messages, NEW b \in Backends, NEW w \in Workers, Serves(b, w),
           NEW v \in Workers, NEW u \in Txns
    PROVE  PartMoves(v, u)
<1> DEFINE m == chan[b][w]
           t == m.txn
<1>1. m.txn \in Txns /\ MessageSound(b, w) /\ BackendSound(b)
    BY ServesWork DEF Messages, Control
<1>2. m.cmd \in {"BEGIN", "EXEC", "PREPARE"} => local[t] = "active"
    BY <1>1 DEF MessageSound, BackendSound
<1>3. /\ m.cmd = "EXEC" => t \in dirty
      /\ m.cmd \in {"COMMIT", "COMMIT PREPARED"} => local[t] = "committed"
      /\ m.cmd \in {"ROLLBACK", "ROLLBACK PREPARED"} => local[t] = "aborted"
    BY <1>1 DEF MessageSound
<1>4. CASE v = w /\ u = t
  <2>1. CASE /\ m.cmd \in Commands /\ work'[w][t] = Done(m.cmd, work[w][t])
    BY <1>2, <1>3, <1>4, <2>1 DEF PartMoves, Done, Commands
  <2>2. CASE work'[w][t] = "aborted" /\ m.cmd \in {"BEGIN", "EXEC"}
    BY <1>2, <1>4, <2>2 DEF PartMoves
  <2>3. CASE \/ work'[w][t] = work[w][t]
             \/ work'[w][t] = "aborted" /\ work[w][t] = "open"
    BY <1>4, <2>3 DEF PartMoves
  <2> QED BY <2>1, <2>2, <2>3, ServesWork
<1>5. CASE v # w \/ u # t
    BY <1>5, ServesWork DEF PartMoves
<1> QED BY <1>4, <1>5

(* Its own backend knows how far the part may be.                          *)
LEMMA ServesPhase ==
    ASSUME TypeInv, TypeInv', Control, Messages, Statuses, NEW b \in Backends,
           NEW w \in Workers, Serves(b, w), chan[b][w].txn = cur[b],
           local[cur[b]] = "active"
    PROVE  PhaseSound(b)'
<1> DEFINE m == chan[b][w]
           t == cur[b]
<1>1. t \in Txns /\ MessageSound(b, w) /\ BackendSound(b) /\ PhaseSound(b)
    BY ServesWork DEF Messages, Control, Statuses
<1>2. UNCHANGED <<pc, cur, await, gid, failed, newRows, tstate, plan, dirty>>
    BY ServesFrame
<1>3. PICK r \in {"ok", "fail", "lost"} : ResultAt(b, w, r)
           /\ (ConnBreak(b, w) => r = "lost") /\ (WorkerFails(b, w) => r # "ok")
    BY ServesFrame
<1>4. /\ \A v \in Workers : v # w => chan'[b][v] = chan[b][v] /\ work'[v][t] = work[v][t]
      /\ chan'[b][w].cmd = r
    BY <1>1, <1>3, ServesWork DEF ResultAt
<1>5. Parts(b)' = Parts(b) /\ Parts(b) \subseteq Workers /\ await[b] \subseteq Workers
    BY <1>1, <1>2, PartsType DEF Parts, TypeInv, TypeOK
<1>6. r = "ok" => m.cmd \in Commands /\ work'[w][t] = Done(m.cmd, work[w][t])
  <2>1. r = "ok" => Answer(b, w)
    BY <1>3 DEF Serves
  <2>2. ASSUME Answer(b, w) PROVE m.cmd \in Commands /\ work'[w][t] = Done(m.cmd, work[w][t])
    <3> DEFINE s == Done(m.cmd, work[w][t])
    <3>1. work' = [work EXCEPT ![w][t] = s] /\ m.cmd \in Commands
      BY <2>2 DEF Answer
    <3>2. work \in [Workers -> [Txns -> WorkStatus]]
      BY DEF TypeInv, TypeOK
    <3> HIDE DEF s
    <3>3. work'[w][t] = s
      BY <1>1, <3>1, <3>2
    <3> QED BY <3>1, <3>3 DEF s
  <2> QED BY <2>1, <2>2
<1>7. m.cmd \in {"ok", "fail"} => w \in await[b]
    BY DEF Serves, Answer, WorkerFails, ConnBreak, Commands
<1>8. m.cmd \in Commands \cup {"ok", "fail"}
    BY DEF Serves, Answer, WorkerFails, ConnBreak, Commands
<1>9. CASE pc[b] = "exec"
  <2>1. w \in await[b] /\ (r = "ok" => work'[w][t] \in {"open", "committed"})
    BY <1>1, <1>6, <1>7, <1>8, <1>9 DEF MessageSound, Commands, Done
  <2> QED BY <1>1, <1>2, <1>4, <1>5, <1>9, <2>1 DEF PhaseSound
<1>10. CASE pc[b] = "prepare"
  <2>1. w \in await[b] /\ m.cmd \in {"PREPARE", "ok", "fail"}
    BY <1>1, <1>7, <1>8, <1>10 DEF MessageSound, Commands
  <2>2. r = "ok" => work'[w][t] \in {"prepared", "committed"}
    BY <1>1, <1>6, <1>10, <2>1 DEF PhaseSound, Done, Commands
  <2>3. ASSUME work[w][t] \in {"prepared", "committed"} PROVE work'[w][t] = work[w][t]
    <3>1. m.cmd = "PREPARE" => Done(m.cmd, work[w][t]) = work[w][t]
      BY <2>3 DEF Done
    <3>2. \/ work'[w][t] = work[w][t]
          \/ m.cmd \in Commands /\ work'[w][t] = Done(m.cmd, work[w][t])
          \/ m.cmd \in {"BEGIN", "EXEC"}
          \/ work[w][t] = "open"
      BY ServesWork
    <3> QED BY <2>1, <2>3, <3>1, <3>2 DEF Commands
  <2>4. \A x \in newRows[b] : x[1] \in Workers /\ work'[x[1]][t] = work[x[1]][t]
    <3>1. \A x \in newRows[b] : x[1] \in Workers /\ work[x[1]][t] \in {"prepared", "committed"}
      BY <1>1, <1>10 DEF PhaseSound, TypeInv, TypeOK
    <3> QED BY <1>4, <2>3, <3>1
  <2> QED BY <1>1, <1>2, <1>4, <1>5, <1>10, <2>1, <2>2, <2>4 DEF PhaseSound
<1>11. CASE pc[b] \in {"begin", "precommit", "local"}
  <2>1. await[b] = {} /\ m.cmd \notin Commands
    BY <1>1, <1>11 DEF BackendSound, MessageSound, Commands
  <2> QED BY <1>7, <1>8, <2>1
<1>12. CASE pc[b] \notin {"begin", "exec", "precommit", "prepare", "local"}
    BY <1>2, <1>12, PhaseOver
<1> QED BY <1>9, <1>10, <1>11, <1>12

(* A step of a worker or of the network keeps Statuses.                    *)
LEMMA ServesStatuses ==
    ASSUME TypeInv, TypeInv', Control, Messages, Decisions, Statuses,
           NEW b \in Backends, NEW w \in Workers, Serves(b, w)
    PROVE  Statuses'
<1> DEFINE m == chan[b][w]
<1>1. UNCHANGED <<pc, cur, await, gid, failed, newRows, tstate, plan, local, rows,
                          inprogress, cl, twoPhase, dirty>>
    BY ServesFrame
<1>2. PartsSound'
    BY <1>1, ServesParts, PartsStay DEF Statuses, PartsSound
<1>3. ASSUME NEW o \in orphans', o.cmd = "ROLLBACK PREPARED"
      PROVE  o \in orphans \/ local[o.txn] # "committed"
  <2>1. o \in orphans \/ (o.cmd = m.cmd /\ o.txn = m.txn)
    BY ServesFrame
  <2>2. MessageSound(b, w)
    BY DEF Messages
  <2> QED BY <1>3, <2>1, <2>2 DEF MessageSound
<1>4. CleanerSees'
    BY <1>1, <1>3, ServesParts, SeenStays DEF Statuses
<1>5. ASSUME NEW c \in Backends PROVE PhaseSound(c)'
  <2>1. MessageSound(b, w) /\ m.cmd # "none" /\ m.txn \in Txns /\ BackendSound(c)
    BY ServesWork DEF Messages, Control
  <2>2. CASE cur[c] = NoTxn
    <3>1. pc'[c] = "idle"
      BY <1>1, <2>1, <2>2 DEF BackendSound
    <3> QED BY <3>1, PhaseOver
  <2>3. CASE cur[c] = m.txn
    <3>1. c = b
      BY <2>1, <2>3 DEF MessageSound
    <3>2. CASE local[m.txn] = "active"
      BY <2>3, <3>1, <3>2, ServesPhase
    <3>3. CASE local[m.txn] # "active"
      <4>1. local[m.txn] \in {"committed", "aborted"}
        BY <2>1, <3>3 DEF MessageSound, TypeInv, TypeOK
      <4>2. pc[c] \notin {"begin", "exec", "precommit", "prepare", "local"}
        BY <2>1, <2>3, <4>1, PhaseDecided
      <4> QED BY <1>1, <4>2, PhaseOver
    <3> QED BY <3>2, <3>3
  <2>4. CASE cur[c] \in Txns /\ cur[c] # m.txn
    <3>1. \A v \in Workers : work'[v][cur[c]] = work[v][cur[c]]
      BY <2>4, ServesWork
    <3>2. PICK r : ResultAt(b, w, r)
      BY ServesFrame
    <3>3. \A v \in Workers : \/ chan'[c][v] = chan[c][v]
                             \/ pc[c] \notin {"exec", "prepare"} \/ v \notin await[c]
      BY <2>1, <2>4, <3>2 DEF ResultAt, MessageSound
    <3>4. PhaseSound(c)
      BY DEF Statuses
    <3> QED BY <1>1, <2>4, <3>1, <3>3, <3>4, PhaseStays
  <2> QED BY <2>2, <2>3, <2>4 DEF TypeInv, TypeOK
<1> QED BY <1>2, <1>4, <1>5 DEF Statuses, PartsSound

(* A command left behind moves the part of its transaction.                *)
LEMMA OrphanParts ==
    ASSUME TypeInv, Decisions, CleanerSees, NEW o, OrphanRun(o) \/ OrphanDrop(o),
           NEW v \in Workers, NEW u \in Txns
    PROVE  PartMoves(v, u)
<1> DEFINE s == work[o.w][o.txn]
           z == work'[o.w][o.txn]
<1>1. o \in orphans /\ o.cmd \in Commands /\ OrphanSound(o)
    BY OrphanWork DEF Decisions
<1>2. CASE v = o.w /\ u = o.txn
  <2>1. CASE z = Done(o.cmd, s)
    <3>1. CASE o.cmd \in {"PREPARE", "EXEC"}
      <4>1. /\ local[o.txn] \in {"active", "aborted"}
            /\ o.cmd = "EXEC" => o.txn \in dirty
        BY <1>1, <3>1 DEF OrphanSound
      <4> QED BY <1>2, <2>1, <3>1, <4>1 DEF PartMoves, Done
    <3>2. CASE o.cmd \in {"COMMIT", "COMMIT PREPARED"}
      <4>1. local[o.txn] = "committed"
        BY <1>1, <3>2 DEF OrphanSound
      <4> QED BY <1>2, <2>1, <3>2, <4>1 DEF PartMoves, Done
    <3>3. CASE o.cmd = "ROLLBACK"
      <4>1. local[o.txn] = "aborted"
        BY <1>1, <3>3 DEF OrphanSound
      <4> QED BY <1>2, <2>1, <3>3, <4>1 DEF PartMoves, Done
    <3>4. CASE o.cmd = "ROLLBACK PREPARED"
      <4>1. local[o.txn] = "aborted" \/ (local[o.txn] = "committed" /\ s # "prepared")
        BY <1>1, <3>4 DEF OrphanSound, CleanerSees
      <4> QED BY <1>2, <2>1, <3>4, <4>1 DEF PartMoves, Done
    <3> QED BY <1>1, <3>1, <3>2, <3>3, <3>4 DEF Commands, OrphanSound
  <2>2. CASE z = s \/ (z = "aborted" /\ s = "open")
    BY <1>2, <2>2 DEF PartMoves
  <2> QED BY <2>1, <2>2, OrphanWork
<1>3. CASE v # o.w \/ u # o.txn
    BY <1>3, OrphanWork DEF PartMoves
<1> QED BY <1>2, <1>3

(* The backend of its transaction has given the worker up.                 *)
LEMMA OrphanPhase ==
    ASSUME TypeInv, Control, Decisions, Statuses, NEW o, OrphanRun(o) \/ OrphanDrop(o),
           NEW c \in Backends, cur[c] = o.txn, local[o.txn] = "active"
    PROVE  PhaseSound(c)'
<1> DEFINE t == cur[c]
<1>1. /\ o \in orphans /\ o.w \in Workers /\ t \in Txns
      /\ UNCHANGED <<pc, cur, await, gid, failed, newRows, tstate, chan, plan, local, rows,
                          inprogress, cl, twoPhase, dirty>>
      /\ \A v \in Workers : v # o.w => work'[v][t] = work[v][t]
    BY OrphanWork
<1>2. OrphanSound(o) /\ o.cmd \in Commands /\ BackendSound(c) /\ PhaseSound(c)
    BY <1>1 DEF Decisions, Control, Statuses, TypeInv, TypeOK
<1>3. o.cmd \in {"PREPARE", "EXEC"} /\ Doomed(c, o.w)
    BY <1>2 DEF OrphanSound, Commands
<1>4. Parts(c)' = Parts(c) /\ Parts(c) \subseteq Workers /\ await[c] \subseteq Workers
    BY <1>1, PartsType DEF Parts, TypeInv, TypeOK
<1>5. work[o.w][t] \in {"prepared", "committed"} => work'[o.w][t] \in {"prepared", "committed"}
  <2>1. \/ work'[o.w][t] = Done(o.cmd, work[o.w][t])
        \/ work'[o.w][t] = work[o.w][t]
        \/ work[o.w][t] = "open"
    BY OrphanWork
  <2> QED BY <1>3, <2>1 DEF Done
<1>6. CASE pc[c] = "exec"
  <2>1. o.w \in await[c] /\ chan[c][o.w].cmd = "lost"
    BY <1>2, <1>3, <1>6 DEF Doomed, BackendSound
  <2> QED BY <1>1, <1>2, <1>4, <1>6, <2>1 DEF PhaseSound
<1>7. CASE pc[c] = "prepare"
  <2>1. \/ o.w \in await[c] /\ chan[c][o.w].cmd = "lost"
        \/ o.w \notin await[c] /\ failed[c]
    BY <1>3, <1>7 DEF Doomed
  <2>2. \A x \in newRows[c] : work'[x[1]][t] \in {"prepared", "committed"}
    <3>1. \A x \in newRows[c] : x[1] \in Workers /\ work[x[1]][t] \in {"prepared", "committed"}
      BY <1>2, <1>7 DEF PhaseSound, TypeInv, TypeOK
    <3> QED BY <1>1, <1>5, <3>1
  <2> QED BY <1>1, <1>2, <1>4, <1>7, <2>1, <2>2 DEF PhaseSound
<1>8. CASE pc[c] \in {"begin", "precommit", "local"}
    BY <1>2, <1>3, <1>8 DEF BackendSound, Doomed
<1>9. CASE pc[c] \notin {"begin", "exec", "precommit", "prepare", "local"}
    BY <1>1, <1>9, PhaseOver
<1> QED BY <1>6, <1>7, <1>8, <1>9

(* A backend without a transaction, or with a transaction that is decided  *)
(* or whose parts do not move, keeps its phase.                            *)
LEMMA PhaseKept ==
    ASSUME TypeInv, Control, NEW c \in Backends, PhaseSound(c),
           UNCHANGED <<pc, cur, await, gid, failed, newRows, tstate, chan, plan, dirty>>,
           \/ cur[c] = NoTxn
           \/ local[cur[c]] \in {"committed", "aborted"}
           \/ \A v \in Workers : work'[v][cur[c]] = work[v][cur[c]]
    PROVE  PhaseSound(c)'
<1>1. BackendSound(c)
    BY DEF Control
<1>2. CASE cur[c] = NoTxn
  <2>1. pc'[c] = "idle"
    BY <1>1, <1>2 DEF BackendSound
  <2> QED BY <2>1, PhaseOver
<1>3. CASE cur[c] \in Txns /\ local[cur[c]] \in {"committed", "aborted"}
    BY <1>3, PhaseDecided, PhaseOver
<1>4. CASE cur[c] \in Txns /\ \A v \in Workers : work'[v][cur[c]] = work[v][cur[c]]
    BY <1>4, PhaseStays
<1> QED BY <1>2, <1>3, <1>4 DEF TypeInv, TypeOK

(* A command left behind keeps Statuses.                                   *)
LEMMA OrphanStatuses ==
    ASSUME TypeInv, TypeInv', Control, Decisions, Statuses, NEW o, OrphanRun(o) \/ OrphanDrop(o)
    PROVE  Statuses'
<1>1. /\ o \in orphans /\ o.txn \in Txns /\ orphans' = orphans \ {o}
      /\ UNCHANGED <<pc, cur, await, gid, failed, newRows, tstate, chan, plan, local, rows,
                          inprogress, cl, twoPhase, dirty>>
    BY OrphanWork
<1>2. \A w \in Workers, t \in Txns : PartMoves(w, t)
    BY OrphanParts DEF Statuses
<1>3. PartsSound'
    BY <1>1, <1>2, PartsStay DEF Statuses, PartsSound
<1>4. CleanerSees'
    BY <1>1, <1>2, SeenStays DEF Statuses
<1>5. ASSUME NEW c \in Backends PROVE PhaseSound(c)'
  <2>1. PhaseSound(c) /\ BackendSound(c)
    BY DEF Statuses, Control
  <2>2. CASE cur[c] = o.txn /\ local[o.txn] = "active"
    BY <2>2, OrphanPhase
  <2>3. CASE cur[c] = o.txn /\ local[o.txn] # "active"
    <3>1. local[o.txn] \in {"committed", "aborted"}
      <4>1. OrphanSound(o) /\ o.cmd \in Commands
        BY <1>1 DEF Decisions, TypeInv, TypeOK
      <4> QED BY <2>3, <4>1 DEF OrphanSound, Commands
    <3> QED BY <1>1, <2>1, <2>3, <3>1, PhaseKept
  <2>4. CASE cur[c] = NoTxn
    BY <1>1, <2>1, <2>4, PhaseKept
  <2>5. CASE cur[c] \in Txns /\ cur[c] # o.txn
    <3>1. \A v \in Workers : work'[v][cur[c]] = work[v][cur[c]]
      BY <2>5, OrphanWork
    <3> QED BY <1>1, <2>1, <3>1, PhaseKept
  <2> QED BY <2>2, <2>3, <2>4, <2>5 DEF TypeInv, TypeOK
<1> QED BY <1>3, <1>4, <1>5 DEF Statuses, PartsSound

\* What a step of the daemon's two loops does to its sets.
ScanMoves(x) ==
    /\ rows' = rows /\ orphans' = orphans
    /\ cl'.w = cl.w /\ cl'.B = cl.B /\ cl'.D = cl.D
    /\ cl'.C \subseteq cl.C
    /\ cl'.A \subseteq cl.A
    /\ \A t \in cl'.A \ cl'.C : t \in cl.C => t \in cl.B
    /\ \/ cl'.deleted = cl.deleted
       \/ /\ x \in cl.C \ cl.D /\ work' = work
          /\ cl'.deleted = cl.deleted \cup {<<cl.w, x>>}

(* These are ScanC and SweepA.                                             *)
LEMMA ScanFacts ==
    ASSUME TypeInv, NEW x \in Txns, ScanC(x) \/ SweepA(x)
    PROVE  ScanMoves(x)
<1> DEFINE rest == [cl EXCEPT !.C = @ \ {x}]
           noA == [rest EXCEPT !.A = @ \ {x}]
           swept == [cl EXCEPT !.A = @ \ {x}]
           dropped == [noA EXCEPT !.deleted = @ \cup {<<cl.w, x>>}]
           next == [cl EXCEPT !.at = "next"]
<1>1. cl \in Cleaner
    BY DEF TypeInv, TypeOK, Cleaner
<1>2. rows' = rows /\ orphans' = orphans
    BY DEF ScanC, SweepA, cleanerOnly, connVars
<1>3. \/ cl' = rest /\ (x \in cl.B \/ x \notin cl.A)
      \/ cl' = noA
      \/ cl' = swept /\ cl.C = {}
      \/ cl' = next
      \/ cl' = dropped /\ x \in cl.C \ cl.D /\ work' = work
    BY DEF ScanC, SweepA, Resolve
<1>4. /\ rest \in Cleaner /\ rest.w = cl.w /\ rest.B = cl.B /\ rest.D = cl.D /\ rest.A = cl.A
      /\ rest.C = cl.C \ {x} /\ rest.deleted = cl.deleted
    BY <1>1 DEF Cleaner
<1>5. /\ swept.w = cl.w /\ swept.B = cl.B /\ swept.D = cl.D /\ swept.A = cl.A \ {x}
      /\ swept.C = cl.C /\ swept.deleted = cl.deleted
    BY <1>1 DEF Cleaner
<1>6. /\ next.w = cl.w /\ next.B = cl.B /\ next.D = cl.D /\ next.A = cl.A
      /\ next.C = cl.C /\ next.deleted = cl.deleted
    BY <1>1 DEF Cleaner
<1> HIDE DEF rest, swept, next
<1>7. /\ noA \in Cleaner /\ noA.w = cl.w /\ noA.B = cl.B /\ noA.D = cl.D /\ noA.A = cl.A \ {x}
      /\ noA.C = cl.C \ {x} /\ noA.deleted = cl.deleted
    BY <1>1, <1>4 DEF Cleaner
<1> HIDE DEF noA
<1>8. /\ dropped.w = cl.w /\ dropped.B = cl.B /\ dropped.D = cl.D /\ dropped.A = cl.A \ {x}
      /\ dropped.C = cl.C \ {x} /\ dropped.deleted = cl.deleted \cup {<<cl.w, x>>}
    BY <1>7 DEF Cleaner
<1> HIDE DEF dropped
<1>9. CASE cl' = rest /\ (x \in cl.B \/ x \notin cl.A)
    BY <1>2, <1>4, <1>9 DEF ScanMoves
<1>10. CASE cl' = noA
    BY <1>2, <1>7, <1>10 DEF ScanMoves
<1>11. CASE cl' = swept /\ cl.C = {}
    BY <1>2, <1>5, <1>11 DEF ScanMoves
<1>12. CASE cl' = next
    BY <1>2, <1>6, <1>12 DEF ScanMoves
<1>13. CASE cl' = dropped /\ x \in cl.C \ cl.D /\ work' = work
    BY <1>2, <1>8, <1>13 DEF ScanMoves
<1> QED BY <1>3, <1>9, <1>10, <1>11, <1>12, <1>13

(* The daemon commits what is committed and rolls back what is not.        *)
LEMMA DaemonParts ==
    ASSUME TypeInv, Control, Decisions, CleanerSees, Daemon \/ DaemonFails,
           NEW w \in Workers, NEW t \in Txns
    PROVE  PartMoves(w, t)
<1>1. CASE work'[w][t] = work[w][t]
    BY <1>1 DEF PartMoves
<1>2. CASE work'[w][t] # work[w][t]
  <2>1. /\ cl.at = "scan" /\ w = cl.w /\ work[w][t] = "prepared" /\ t \in cl.A \ cl.B
        /\ \/ work'[w][t] = "committed" /\ t \in cl.C
           \/ work'[w][t] = "aborted" /\ cl.C = {}
    BY <1>2, DaemonWork
  <2>2. /\ local[t] \in {"committed", "aborted"}
        /\ t \in cl.C => local[t] = "committed"
    BY <2>1, CleanerDecided DEF Decisions
  <2>3. cl.C = {} => local[t] # "committed"
    BY <2>1 DEF CleanerSees
  <2> QED BY <2>1, <2>2, <2>3 DEF PartMoves
<1> QED BY <1>1, <1>2

(* What the daemon sees, while it looks at a worker and after.             *)
LEMMA DaemonSees ==
    ASSUME TypeInv, Control, Decisions, Statuses, Daemon \/ DaemonFails
    PROVE  CleanerSees'
<1>1. CleanerSound /\ cl \in Cleaner /\ CleanerSees /\ PartsSound
    BY DEF Decisions, TypeInv, TypeOK, Cleaner, Statuses, PartsSound
<1>2. local' = local
    BY DaemonFrame
<1>3. \A w \in Workers, t \in Txns : PartMoves(w, t)
    BY <1>1, DaemonParts
<1>4. ASSUME NEW w \in Workers, NEW t \in Txns, local[t] = "committed"
      PROVE  /\ work'[w][t] = "prepared" => work[w][t] = "prepared"
             /\ work[w][t] = "committed" => work'[w][t] = "committed"
    BY <1>3, <1>4 DEF PartMoves
<1>5. \A r \in cl.deleted :
         /\ r[1] \in Workers /\ r[2] \in Txns /\ local[r[2]] = "committed"
         /\ work'[r[1]][r[2]] = "committed"
  <2>1. \A r \in cl.deleted :
         /\ r[1] \in Workers /\ r[2] \in Txns /\ local[r[2]] = "committed"
         /\ work[r[1]][r[2]] = "committed"
    BY <1>1 DEF CleanerSound, CleanerSees, Control, Cleaner
  <2> QED BY <1>4, <2>1
<1>6. ASSUME NEW o \in orphans', o.cmd = "ROLLBACK PREPARED", local[o.txn] = "committed"
      PROVE  work'[o.w][o.txn] # "prepared"
  <2>1. o.w \in Workers /\ o.txn \in Txns /\ work[o.w][o.txn] # "prepared"
    <3>1. CASE o \in orphans
      BY <1>1, <1>6, <3>1 DEF CleanerSees, TypeInv, TypeOK
    <3>2. CASE o \notin orphans
      <4>1. cl.at = "scan" /\ o.w = cl.w /\ o.txn \in cl.A \ cl.B /\ cl.C = {}
        BY <1>6, <3>2, DaemonOrphans
      <4>2. o.txn \in Txns /\ cl.w \in Workers
        BY <1>1, <4>1 DEF Cleaner, CleanerSound
      <4> QED BY <1>1, <1>6, <4>1, <4>2 DEF CleanerSees
    <3> QED BY <3>1, <3>2
  <2> QED BY <1>4, <1>6, <2>1
<1>7. ASSUME cl'.at \in {"idle", "next", "B", "C"}, cl'.deleted \subseteq cl.deleted
      PROVE  CleanerSees'
    BY <1>2, <1>5, <1>6, <1>7 DEF CleanerSees
<1>8. CASE CleanStart \/ CleanEnd \/ CleanAbort
  <2>1. CASE CleanStart
    BY <1>7, <2>1 DEF CleanStart, CleanerIdle
  <2>2. CASE cl' = CleanerIdle
    BY <1>7, <2>2 DEF CleanerIdle
  <2> QED BY <1>8, <2>1, <2>2 DEF CleanEnd, CleanAbort
<1>9. ASSUME NEW w \in Workers, NEW s \in Workers, ReadA(w, s) PROVE CleanerSees'
  <2>1. cl'.at = "B" /\ cl'.deleted = cl.deleted
    BY <1>1, <1>9 DEF ReadA, Cleaner
  <2> QED BY <1>7, <2>1
<1>10. CASE ReadB
  <2>1. cl'.at = "C" /\ cl'.deleted = cl.deleted
    BY <1>1, <1>10 DEF ReadB, Cleaner
  <2> QED BY <1>7, <2>1
<1>11. ASSUME \/ \E w \in Workers, u \in BOOLEAN : CleanFail(w, u)
              \/ \E t \in Txns : CleanLose(t)
       PROVE  CleanerSees'
  <2>1. cl'.at = "next" /\ cl'.deleted = cl.deleted
    BY <1>1, <1>11 DEF CleanFail, CleanLose, Cleaner
  <2> QED BY <1>7, <2>1
<1>12. CASE ReadC
  <2>1. /\ cl'.at = "D" /\ cl'.A = cl.A /\ cl'.B = cl.B /\ cl'.deleted = cl.deleted
        /\ cl'.w = cl.w /\ cl.at = "C" /\ work' = work
        /\ cl'.C = {t \in Txns : <<cl.w, t>> \in rows \ cl.deleted}
    BY <1>1, <1>12 DEF ReadC, Cleaner
  <2>2. ASSUME NEW t \in cl.A, t \notin cl'.C, local[t] = "committed"
        PROVE  work[cl.w][t] # "prepared"
    <3>1. t \in Txns /\ cl.w \in Workers
      BY <1>1, <2>1 DEF Cleaner, CleanerSound
    <3>2. <<cl.w, t>> \notin rows \/ <<cl.w, t>> \in cl.deleted
      BY <2>1, <2>2, <3>1
    <3>3. CASE <<cl.w, t>> \notin rows
      BY <1>1, <2>2, <3>1, <3>3 DEF PartsSound, RecoveryPossible
    <3>4. CASE <<cl.w, t>> \in cl.deleted
      BY <1>1, <3>4 DEF CleanerSees
    <3> QED BY <3>2, <3>3, <3>4
  <2> QED BY <1>2, <1>5, <1>6, <2>1, <2>2 DEF CleanerSees
<1>13. CASE ReadD
  <2>1. /\ cl'.at = "scan" /\ cl'.A = cl.A /\ cl'.B = cl.B /\ cl'.deleted = cl.deleted
        /\ cl'.w = cl.w /\ cl'.C = cl.C /\ cl.at = "D" /\ work' = work
        /\ cl'.D = Prepared(cl.w)
    BY <1>1, <1>13 DEF ReadD, Cleaner
  <2>2. ASSUME NEW t \in cl.C, t \notin cl'.D PROVE work[cl.w][t] = "committed"
    <3>1. t \in Txns /\ <<cl.w, t>> \in rows
      BY <1>1, <2>1 DEF Cleaner, CleanerSound
    <3>2. work[cl.w][t] \in {"prepared", "committed"}
      BY <1>1, <3>1 DEF PartsSound
    <3> QED BY <2>1, <2>2, <3>1, <3>2 DEF Prepared
  <2>3. \A t \in cl.A \ (cl.B \cup cl.C) : local[t] = "committed" => work[cl.w][t] # "prepared"
    BY <1>1, <2>1 DEF CleanerSees
  <2> QED BY <1>2, <1>5, <1>6, <2>1, <2>2, <2>3 DEF CleanerSees
<1>14. ASSUME NEW x \in Txns, ScanC(x) \/ SweepA(x) PROVE CleanerSees'
  <2>1. ScanMoves(x)
    BY <1>14, ScanFacts
  <2>2. cl.at = "scan" /\ cl.w \in Workers
    BY <1>1, <1>14 DEF ScanC, SweepA, CleanerSound
  <2>3. ASSUME NEW t \in cl'.A \ (cl'.B \cup cl'.C), local[t] = "committed"
        PROVE  work'[cl'.w][t] # "prepared"
    <3>1. t \in cl.A \ cl.B /\ t \notin cl.C /\ cl'.w = cl.w /\ t \in Txns
      BY <1>1, <2>1 DEF ScanMoves, Cleaner
    <3>2. work[cl.w][t] # "prepared"
      BY <1>1, <2>2, <2>3, <3>1 DEF CleanerSees
    <3> QED BY <1>4, <2>2, <2>3, <3>1, <3>2
  <2>4. \A t \in cl.C \ cl.D : work[cl.w][t] = "committed" /\ work'[cl.w][t] = "committed"
    <3>1. \A t \in cl.C \ cl.D : /\ work[cl.w][t] = "committed" /\ t \in Txns
                                 /\ <<cl.w, t>> \in rows
      BY <1>1, <2>2 DEF CleanerSees, CleanerSound, Cleaner
    <3>2. \A t \in cl.C \ cl.D : local[t] = "committed"
      BY <3>1 DEF Control
    <3> QED BY <1>4, <2>2, <3>1, <3>2
  <2>5. \A t \in cl'.C \ cl'.D : work'[cl'.w][t] = "committed"
    BY <2>1, <2>4 DEF ScanMoves
  <2>6. ASSUME NEW r \in cl'.deleted PROVE work'[r[1]][r[2]] = "committed"
    <3>1. CASE r \in cl.deleted
      BY <1>5, <3>1
    <3>2. CASE r = <<cl.w, x>> /\ x \in cl.C \ cl.D
      BY <2>4, <3>2
    <3> QED BY <2>1, <3>1, <3>2 DEF ScanMoves
  <2> QED BY <1>2, <1>6, <2>3, <2>5, <2>6 DEF CleanerSees
<1> QED BY <1>8, <1>9, <1>10, <1>11, <1>12, <1>13, <1>14 DEF Daemon, DaemonFails

(* A step of the daemon keeps Statuses.                                    *)
LEMMA DaemonStatuses ==
    ASSUME TypeInv, TypeInv', Control, Decisions, Statuses, Daemon \/ DaemonFails
    PROVE  Statuses'
<1>1. UNCHANGED <<pc, cur, await, gid, failed, newRows, tstate, chan, plan, local,
                          inprogress, twoPhase, dirty>>
    BY DaemonFrame
<1>2. CleanerSees' /\ PartsSound /\ CleanerSees
    BY DaemonSees DEF Statuses, PartsSound
<1>3. \A w \in Workers, t \in Txns : PartMoves(w, t)
    BY <1>2, DaemonParts
<1>4. ASSUME rows' = rows PROVE PartsSound'
    BY <1>1, <1>2, <1>3, <1>4, PartsStay
<1>5. ASSUME rows' # rows PROVE PartsSound'
  <2>1. rows' = rows \ cl.deleted /\ work' = work
    BY <1>5 DEF Daemon, DaemonFails, CleanStart, ReadA, ReadB, ReadC, ReadD, CleanEnd, ScanC,
       SweepA, CleanAbort, CleanFail, CleanLose
  <2>2. RecoveryPossible'
    <3>1. ASSUME NEW t \in Txns, NEW w \in Workers, local[t] = "committed",
                 work[w][t] = "prepared"
          PROVE  <<w, t>> \in rows \ cl.deleted
      <4>1. <<w, t>> \in rows
        BY <1>2, <3>1 DEF PartsSound, RecoveryPossible
      <4>2. ASSUME <<w, t>> \in cl.deleted PROVE FALSE
        BY <1>2, <3>1, <4>2 DEF CleanerSees
      <4> QED BY <4>1, <4>2
    <3> QED BY <1>1, <2>1, <3>1 DEF RecoveryPossible
  <2> QED BY <1>1, <1>2, <2>1, <2>2 DEF PartsSound, CleanAtomicity, Clean
<1>6. ASSUME NEW c \in Backends PROVE PhaseSound(c)'
  <2>1. PhaseSound(c)
    BY DEF Statuses
  <2>2. CASE cur[c] \in Txns /\ \E w \in Workers : work'[w][cur[c]] # work[w][cur[c]]
    <3>1. cl.at = "scan" /\ cur[c] \in cl.A \ cl.B
      BY <2>2, DaemonWork
    <3>2. local[cur[c]] \in {"committed", "aborted"}
      BY <3>1, CleanerDecided DEF Decisions
    <3> QED BY <1>1, <2>1, <3>2, PhaseKept
  <2>3. CASE cur[c] = NoTxn \/ \A w \in Workers : work'[w][cur[c]] = work[w][cur[c]]
    BY <1>1, <2>1, <2>3, PhaseKept
  <2> QED BY <2>2, <2>3 DEF TypeInv, TypeOK
<1> QED BY <1>2, <1>4, <1>5, <1>6 DEF Statuses, PartsSound

(* A crash keeps Statuses.                                                 *)
LEMMA CrashStatuses ==
    ASSUME TypeInv, TypeInv', Control, Messages, Decisions, Statuses, Crash
    PROVE  Statuses'
<1>1. /\ \A b \in Backends : pc'[b] = "idle" /\ cur'[b] = NoTxn
      /\ \A t \in Txns : local'[t] = IF local[t] = "active" THEN "aborted" ELSE local[t]
      /\ UNCHANGED <<plan, rows, twoPhase, dirty>> /\ cl' = CleanerIdle
    BY CrashFacts
<1>2. \A w \in Workers, t \in Txns :
         \/ work'[w][t] = work[w][t]
         \/ work[w][t] = "open" /\ work'[w][t] = "aborted"
    BY CrashFacts
<1>3. PartsSound
    BY DEF Statuses, PartsSound
<1>4. \A t \in Txns, w \in Workers :
         /\ local'[t] = "none" => work'[w][t] = "none"
         /\ work'[w][t] = "committed" => local'[t] = "committed" \/ t \in dirty'
    BY <1>1, <1>2, <1>3 DEF PartsSound
<1>5. ASSUME NEW r \in rows PROVE work'[r[1]][r[2]] \in {"prepared", "committed"}
  <2>1. r[1] \in Workers /\ r[2] \in Txns /\ work[r[1]][r[2]] \in {"prepared", "committed"}
    BY <1>3 DEF TypeInv, TypeOK, PartsSound
  <2> QED BY <1>2, <2>1
<1>6. RecoveryPossible'
    BY <1>1, <1>2, <1>3 DEF PartsSound, RecoveryPossible
<1>7. ASSUME "lateRenew" \notin Faults PROVE CleanAtomicity'
  <2>1. ASSUME NEW t \in Txns, t \in twoPhase \ dirty, NEW w \in plan[t].parts
        PROVE  IF local'[t] = "committed" THEN work'[w][t] \in {"prepared", "committed"}
                                          ELSE work'[w][t] # "committed"
    <3>1. w \in Workers
      <4>1. plan[t] \in Plans \cup {NoPlan}
        BY DEF TypeInv, TypeOK
      <4>2. \A p \in Plans \cup {NoPlan} : p.parts \subseteq Workers
        BY ConstantsOK DEF NoPlan
      <4> QED BY <2>1, <4>1, <4>2
    <3>2. local[t] = "committed" => work[w][t] \in {"prepared", "committed"}
      BY <1>3, <1>7, <2>1 DEF PartsSound, CleanAtomicity, Clean
    <3> QED BY <1>1, <1>2, <1>4, <2>1, <3>1, <3>2
  <2> QED BY <1>1, <2>1 DEF CleanAtomicity, Clean
<1>8. PartsSound'
    BY <1>1, <1>4, <1>5, <1>6, <1>7 DEF PartsSound
<1>9. ASSUME NEW o \in orphans', o.cmd = "ROLLBACK PREPARED", local'[o.txn] = "committed"
      PROVE  work'[o.w][o.txn] # "prepared"
  <2>1. o.w \in Workers /\ o.txn \in Txns /\ local[o.txn] = "committed"
    BY <1>1, <1>9 DEF TypeInv, TypeOK
  <2>2. CASE o \in orphans
    <3>1. work[o.w][o.txn] # "prepared"
      BY <1>9, <2>1, <2>2 DEF Statuses, CleanerSees
    <3> QED BY <1>2, <2>1, <3>1
  <2>3. CASE o \notin orphans
    <3>1. PICK b \in Backends, w \in Workers :
             o.cmd = chan[b][w].cmd /\ o.txn = chan[b][w].txn
      BY <2>3, CrashFacts
    <3>2. MessageSound(b, w)
      BY DEF Messages
    <3> QED BY <1>9, <2>1, <3>1, <3>2 DEF MessageSound
  <2> QED BY <2>2, <2>3
<1>10. CleanerSees'
    BY <1>1, <1>9 DEF CleanerSees, CleanerIdle
<1>11. ASSUME NEW c \in Backends PROVE PhaseSound(c)'
    BY <1>1, PhaseOver
<1> QED BY <1>8, <1>10, <1>11 DEF Statuses, PartsSound

(* A transaction that begins is nowhere yet.                               *)
LEMMA BeginStatuses ==
    ASSUME TypeInv, TypeInv', Control, Decisions, Statuses, NEW b \in Backends, NEW t \in Txns,
           NEW p \in Plans, Begin(b, t, p)
    PROVE  Statuses'
<1>1. /\ UNCHANGED <<orphans, work, rows, inprogress, cl, twoPhase, dirty>>
      /\ local[t] = "none"
      /\ \A u \in Txns : local'[u] = IF u = t THEN "active" ELSE local[u]
      /\ \A u \in Txns : u # t => plan'[u] = plan[u]
      /\ pc'[b] = "begin" /\ cur'[b] = t
    BY DEF Begin, Goto, connVars, history, TypeInv, TypeOK
<1>2. OtherConnections(b)
    BY BeginOthers
<1>3. PartsSound /\ CleanerSees
    BY DEF Statuses, PartsSound
<1>4. t \notin twoPhase
    BY <1>1 DEF Control
<1>5. \A u \in Txns, w \in Workers :
         /\ local'[u] = "none" => work[w][u] = "none"
         /\ work[w][u] = "committed" => local'[u] = "committed" \/ u \in dirty
    BY <1>1, <1>3 DEF PartsSound
<1>6. RecoveryPossible'
    BY <1>1, <1>3 DEF PartsSound, RecoveryPossible
<1>7. ASSUME "lateRenew" \notin Faults PROVE CleanAtomicity'
    BY <1>1, <1>3, <1>4, <1>7 DEF PartsSound, CleanAtomicity, Clean
<1>8. PartsSound'
    BY <1>1, <1>3, <1>5, <1>6, <1>7 DEF PartsSound
<1>9. CleanerSees'
  <2>1. \A u \in Txns : local'[u] = "committed" => local[u] = "committed"
    BY <1>1
  <2>2. \A o \in orphans : o.txn \in Txns
    BY DEF TypeInv, TypeOK
  <2>3. cl.A \subseteq Txns
    BY DEF TypeInv, TypeOK
  <2> QED BY <1>1, <1>3, <2>1, <2>2, <2>3 DEF CleanerSees
<1>10. ASSUME NEW c \in Backends, c # b PROVE PhaseSound(c)'
  <2>1. PhaseSound(c) /\ BackendSound(c)
    BY DEF Statuses, Control
  <2>2. CASE cur[c] = NoTxn
    <3>1. pc'[c] = "idle"
      BY <1>2, <1>10, <2>1, <2>2 DEF BackendSound, OtherConnections
    <3> QED BY <3>1, PhaseOver
  <2>3. CASE cur[c] \in Txns
    BY <1>1, <1>2, <1>10, <2>1, <2>3, PhaseStays DEF OtherConnections
  <2> QED BY <2>2, <2>3 DEF TypeInv, TypeOK
<1>11. PhaseSound(b)'
  <2>1. \A w \in Workers : work'[w][t] = "none"
    BY <1>1, <1>3 DEF PartsSound
  <2> QED BY <1>1, <2>1 DEF PhaseSound
<1> QED BY <1>8, <1>9, <1>10, <1>11 DEF Statuses, PartsSound

(* A transaction whose PREPARE is not chosen yet is prepared nowhere.      *)
LEMMA NotPrepared ==
    ASSUME TypeInv, Control, Decisions, NEW b \in Backends, pc[b] = "precommit"
    PROVE  /\ cur[b] \in Txns /\ cur[b] \notin twoPhase
           /\ \A w \in Workers : work[w][cur[b]] # "prepared"
           /\ newRows[b] = {} /\ gid[b] = FALSE
<1>1. BackendSound(b) /\ cur[b] \in Txns /\ gid[b] \in BOOLEAN
    BY DEF Control, TypeInv, Bound, TypeOK
<1>2. cur[b] \notin twoPhase
    BY <1>1 DEF BackendSound
<1> QED BY <1>1, <1>2 DEF BackendSound, Decisions

(* The outcome and the parts, when a backend moves: what it commits is     *)
(* prepared, and has its rows.                                             *)
LEMMA MovesParts ==
    ASSUME TypeInv, TypeInv', Control, Decisions, Statuses, NEW b \in Backends, Moves(b)
    PROVE  PartsSound'
<1> DEFINE x == cur[b]
<1>1. PartsSound /\ PhaseSound(b) /\ BackendSound(b)
    BY DEF Statuses, PartsSound, Control
<1>2. LocalGrows /\ x \in Txns /\ \A t \in Txns : t # x => local'[t] = local[t]
    BY MovesLocal
<1>3. /\ plan' = plan /\ twoPhase \subseteq twoPhase' /\ dirty \subseteq dirty'
      /\ twoPhase' \subseteq twoPhase \cup {x}
    BY MovesOneBackend
<1>4. \A w \in Workers, t \in Txns :
         \/ work'[w][t] = work[w][t]
         \/ work[w][t] = "open" /\ work'[w][t] = "aborted"
    BY MovesWork
<1>5. \A t \in Txns, w \in Workers :
         /\ local'[t] = "none" => work'[w][t] = "none"
         /\ work'[w][t] = "committed" => local'[t] = "committed" \/ t \in dirty'
  <2>1. \A t \in Txns, w \in Workers : local'[t] = "none" => work'[w][t] = "none"
    BY <1>1, <1>2, <1>4 DEF PartsSound, LocalGrows
  <2>2. \A t \in Txns : local[t] = "committed" => local'[t] = "committed"
    BY <1>2 DEF LocalGrows
  <2> QED BY <1>1, <1>3, <1>4, <2>1, <2>2 DEF PartsSound
<1>6. CASE LocalCommit(b)
  <2>1. /\ pc[b] = "local" /\ rows' = rows \cup newRows[b] /\ work' = work
        /\ local'[x] = "committed" /\ twoPhase' = twoPhase /\ dirty' = dirty
    BY <1>2, <1>6 DEF LocalCommit, history, TypeInv, TypeOK
  <2>2. ASSUME NEW r \in rows' PROVE work'[r[1]][r[2]] \in {"prepared", "committed"}
    BY <1>1, <2>1 DEF PartsSound, PhaseSound, BackendSound
  <2>3. RecoveryPossible'
    <3>1. ASSUME NEW t \in Txns, NEW w \in Workers, local'[t] = "committed",
                 work[w][t] = "prepared"
          PROVE  <<w, t>> \in rows'
      <4>1. CASE t = x
        BY <1>1, <2>1, <3>1, <4>1 DEF PhaseSound
      <4>2. CASE t # x
        BY <1>1, <1>2, <2>1, <3>1, <4>2 DEF PartsSound, RecoveryPossible
      <4> QED BY <4>1, <4>2
    <3> QED BY <2>1, <3>1 DEF RecoveryPossible
  <2>4. ASSUME "lateRenew" \notin Faults PROVE CleanAtomicity'
    <3>1. ASSUME NEW t \in Txns, t \in twoPhase \ dirty, NEW w \in plan[t].parts
          PROVE  IF local'[t] = "committed" THEN work[w][t] \in {"prepared", "committed"}
                                            ELSE work[w][t] # "committed"
      <4>1. CASE t = x
        <5>1. gid[b] /\ w \in Parts(b)
          BY <1>1, <3>1, <4>1 DEF BackendSound, Parts
        <5>2. work[w][t] = "prepared"
          BY <1>1, <2>1, <2>4, <3>1, <4>1, <5>1 DEF PhaseSound
        <5> QED BY <2>1, <4>1, <5>2
      <4>2. CASE t # x
        BY <1>1, <1>2, <2>4, <3>1, <4>2 DEF PartsSound, CleanAtomicity, Clean
      <4> QED BY <4>1, <4>2
    <3> QED BY <1>3, <2>1, <3>1 DEF CleanAtomicity, Clean
  <2> QED BY <1>5, <2>2, <2>3, <2>4 DEF PartsSound
<1>7. CASE ~ LocalCommit(b)
  <2>1. rows' = rows /\ (local' = local \/ local' = [local EXCEPT ![x] = "aborted"])
    BY <1>7, MovesOf DEF MovesAre, SendExec, PreCommit, PostCommit, Abort, FetchExec,
       FetchPrepare, FetchCommit, FetchRollback, PreCommitSendFails, PostCommitSendFails,
       LocalError, Finish
  <2>2. \A t \in Txns : local'[t] = "committed" => local[t] = "committed"
    BY <1>2, <2>1 DEF TypeInv, TypeOK
  <2>3. ASSUME NEW r \in rows' PROVE work'[r[1]][r[2]] \in {"prepared", "committed"}
    <3>1. /\ r[1] \in Workers /\ r[2] \in Txns
          /\ work[r[1]][r[2]] \in {"prepared", "committed"}
      BY <1>1, <2>1 DEF PartsSound, TypeInv, TypeOK
    <3> QED BY <1>4, <3>1
  <2>4. RecoveryPossible'
    BY <1>1, <1>4, <2>1, <2>2 DEF PartsSound, RecoveryPossible
  <2>5. ASSUME "lateRenew" \notin Faults PROVE CleanAtomicity'
    <3>1. ASSUME NEW t \in Txns, t \in twoPhase' \ dirty', NEW w \in plan[t].parts
          PROVE  IF local'[t] = "committed" THEN work'[w][t] \in {"prepared", "committed"}
                                            ELSE work'[w][t] # "committed"
      <4>1. w \in Workers
        <5>1. plan[t] \in Plans \cup {NoPlan}
          BY DEF TypeInv, TypeOK
        <5>2. \A p \in Plans \cup {NoPlan} : p.parts \subseteq Workers
          BY ConstantsOK DEF NoPlan
        <5> QED BY <3>1, <5>1, <5>2
      <4>2. ASSUME local'[t] = "committed" PROVE work'[w][t] \in {"prepared", "committed"}
        <5>1. local[t] = "committed"
          BY <2>2, <4>2
        <5>2. t \in twoPhase
          <6>1. CASE pc[b] = "precommit"
            BY <1>1, <1>3, <3>1, <5>1, <6>1 DEF BackendSound
          <6>2. CASE pc[b] # "precommit"
            <7>1. twoPhase' = twoPhase
              BY <6>2, MovesOf DEF MovesAre, SendExec, PreCommit, PostCommit, Abort, FetchExec,
                 FetchPrepare, FetchCommit, FetchRollback, PreCommitSendFails,
                 PostCommitSendFails, LocalCommit, LocalError, Finish, history
            <7> QED BY <3>1, <7>1
          <6> QED BY <6>1, <6>2
        <5>3. work[w][t] \in {"prepared", "committed"}
          BY <1>1, <1>3, <2>5, <3>1, <5>1, <5>2 DEF PartsSound, CleanAtomicity, Clean
        <5> QED BY <1>4, <4>1, <5>3
      <4> QED BY <1>5, <3>1, <4>1, <4>2
    <3> QED BY <1>3, <3>1 DEF CleanAtomicity, Clean
  <2> QED BY <1>5, <2>3, <2>4, <2>5 DEF PartsSound
<1> QED BY <1>6, <1>7

(* What the daemon sees, when a backend moves.                             *)
LEMMA MovesSees ==
    ASSUME TypeInv, TypeInv', Control, Decisions, Statuses, NEW b \in Backends, Moves(b)
    PROVE  CleanerSees'
<1>1. CleanerSound /\ CleanerSees
    BY DEF Decisions, Statuses
<1>2. LocalGrows /\ orphans' = orphans /\ cl' = cl
    BY MovesLocal, MovesOneBackend
<1>3. \A w \in Workers, t \in Txns :
         \/ work'[w][t] = work[w][t]
         \/ work[w][t] = "open" /\ work'[w][t] = "aborted"
    BY MovesWork
<1>4. ASSUME cl.at \in {"D", "scan"}, NEW t \in cl.A \ (cl.B \cup cl.C), local'[t] = "committed"
      PROVE  work'[cl.w][t] # "prepared"
  <2>1. t \in Txns /\ cl.w \in Workers /\ t \in twoPhase /\ t \notin inprogress
    BY <1>1, <1>4 DEF TypeInv, TypeOK, CleanerSound
  <2>2. local[t] = "committed"
    BY <1>2, <1>4, <2>1 DEF LocalGrows, Control
  <2>3. work[cl.w][t] # "prepared"
    BY <1>1, <1>4, <2>2 DEF CleanerSees
  <2> QED BY <1>3, <2>1, <2>3
<1>5. ASSUME cl.at = "scan", NEW t \in cl.C \ cl.D PROVE work'[cl.w][t] = "committed"
  <2>1. t \in Txns /\ cl.w \in Workers /\ work[cl.w][t] = "committed"
    BY <1>1, <1>5 DEF TypeInv, TypeOK, CleanerSound, CleanerSees
  <2> QED BY <1>3, <2>1
<1>6. ASSUME NEW r \in cl.deleted PROVE work'[r[1]][r[2]] = "committed"
  <2>1. r[1] \in Workers /\ r[2] \in Txns /\ work[r[1]][r[2]] = "committed"
    BY <1>1 DEF TypeInv, TypeOK, CleanerSees
  <2> QED BY <1>3, <2>1
<1>7. ASSUME NEW o \in orphans, o.cmd = "ROLLBACK PREPARED", local'[o.txn] = "committed"
      PROVE  work'[o.w][o.txn] # "prepared"
  <2>1. o.w \in Workers /\ o.txn \in Txns /\ OrphanSound(o)
    BY DEF TypeInv, TypeOK, Decisions
  <2>2. local[o.txn] = "committed"
    BY <1>2, <1>7, <2>1 DEF LocalGrows, OrphanSound
  <2>3. work[o.w][o.txn] # "prepared"
    BY <1>1, <1>7, <2>2 DEF CleanerSees
  <2> QED BY <1>3, <2>1, <2>3
<1> QED BY <1>2, <1>4, <1>5, <1>6, <1>7 DEF CleanerSees

(* The commands of an operation are out.                                   *)
LEMMA SendExecPhase ==
    ASSUME TypeInv, Control, Statuses, NEW b \in Backends, NEW R \in SUBSET Workers,
           SendExec(b, R)
    PROVE  PhaseSound(b)'
<1> DEFINE ts == Connected(b, R)
           cmds == [w \in Parts(b) |-> IF ts[w] = "NONE" THEN "BEGIN" ELSE "EXEC"]
<1>1. /\ pc[b] = "begin" /\ cur[b] \in Txns /\ Parts(b) \subseteq Workers
      /\ ts \in [Workers -> ConnState]
    BY PartsType, ConnectedType DEF TypeInv, Bound, SendExec
<1>2. cmds \in [Parts(b) -> Commands] /\ Send(b, cmds)
    BY DEF Commands, SendExec
<1>3. Sent(b, Parts(b), cmds)
    BY <1>1, <1>2, SendFacts DEF TypeInv
<1>4. pc'[b] = "exec" /\ cur'[b] = cur[b] /\ Parts(b)' = Parts(b)
    BY DEF SendExec, Goto, Parts, TypeInv, TypeOK
<1>5. \A w \in Parts(b) : w \in await'[b] /\ chan'[b][w].cmd \in {"BEGIN", "EXEC"}
    BY <1>1, <1>3 DEF Sent
<1>6. cur[b] \notin dirty' => \A w \in Parts(b) : tstate'[b][w] = "WRITE"
  <2>1. cur[b] \notin dirty' => \A w \in Parts(b) : ts[w] = "NONE"
    BY <1>1 DEF SendExec
  <2>2. tstate'[b] = [w \in Workers |-> IF w \in Parts(b) /\ ts[w] = "NONE"
                               THEN "WRITE" ELSE ts[w]]
    BY DEF SendExec, TypeInv, TypeOK
  <2> QED BY <1>1, <2>1, <2>2
<1> QED BY <1>4, <1>5, <1>6 DEF PhaseSound

(* A result of the operation is fetched.                                   *)
LEMMA FetchExecPhase ==
    ASSUME TypeInv, Control, Statuses, NEW b \in Backends, NEW w \in Workers, FetchExec(b, w)
    PROVE  PhaseSound(b)'
<1>1. /\ pc[b] = "exec" /\ cur[b] \in Txns /\ Parts(b) \subseteq Workers /\ PhaseSound(b)
      /\ w \in await[b]
    BY PartsType DEF TypeInv, Bound, FetchExec, Statuses, HasResult
<1>2. UNCHANGED <<cur, plan, work, dirty>> /\ Parts(b)' = Parts(b)
    BY DEF FetchExec, Parts, history
<1>3. FetchedAt(b, w, tstate[b][w])
    BY FetchedFacts DEF FetchExec
<1>4. pc'[b] = IF chan[b][w].cmd # "ok" THEN "abort"
               ELSE IF await[b] = {w} THEN "precommit" ELSE "exec"
    BY DEF FetchExec, Goto, TypeInv, TypeOK
<1>5. CASE chan[b][w].cmd # "ok"
    BY <1>4, <1>5, PhaseOver
<1>6. CASE chan[b][w].cmd = "ok"
  <2>1. \A v \in Parts(b) : v = w \/ v \notin await'[b] \/ chan'[b][v] = chan[b][v]
    BY <1>1, <1>3 DEF FetchedAt
  <2>2. /\ await'[b] = await[b] \ {w}
        /\ \A v \in Parts(b) : tstate'[b][v] = tstate[b][v]
        /\ \A v \in Parts(b) : v # w => chan'[b][v] = chan[b][v]
    BY <1>1, <1>3, <1>6 DEF FetchedAt
  <2>3. \A v \in Parts(b) : v \notin await'[b] \/ chan'[b][v].cmd = "ok"
           => work[v][cur[b]] \in {"open", "committed"}
    BY <1>1, <1>6, <2>2 DEF PhaseSound
  <2>4. cur[b] \notin dirty => \A v \in Parts(b) : tstate'[b][v] = "WRITE"
    BY <1>1, <2>2 DEF PhaseSound
  <2>5. CASE await[b] = {w}
    <3>1. pc'[b] = "precommit" /\ await'[b] = {}
      BY <1>4, <1>6, <2>2, <2>5
    <3> QED BY <1>2, <2>3, <2>4, <3>1 DEF PhaseSound
  <2>6. CASE await[b] # {w}
    <3>1. pc'[b] = "exec"
      BY <1>4, <1>6, <2>6
    <3> QED BY <1>2, <2>3, <2>4, <3>1 DEF PhaseSound
  <2> QED BY <2>5, <2>6
<1> QED BY <1>5, <1>6

(* PREPARE goes out, to all the workers unless a connection is new; or no  *)
(* PREPARE is needed.                                                      *)
LEMMA PreCommitPhase ==
    ASSUME TypeInv, TypeInv', Control, Decisions, Statuses, NEW b \in Backends,
           NEW R \in SUBSET Workers, PreCommit(b, R)
    PROVE  PhaseSound(b)'
<1> DEFINE ts == Connected(b, R)
           W == {w \in Parts(b) : ts[w] = "WRITE"}
           t == cur[b]
           cmds == [w \in W |-> "PREPARE"]
<1>1. /\ pc[b] = "precommit" /\ t \in Txns /\ Parts(b) \subseteq Workers /\ PhaseSound(b)
      /\ ts \in [Workers -> ConnState]
    BY PartsType, ConnectedType DEF TypeInv, Bound, PreCommit, Statuses
<1>2. /\ \A w \in Workers : work[w][t] # "prepared"
      /\ newRows[b] = {} /\ gid[b] = FALSE
    BY <1>1, NotPrepared
<1>3. UNCHANGED <<cur, plan, dirty, newRows>> /\ Parts(b)' = Parts(b)
    BY DEF PreCommit, Parts
<1>4. \A w \in Workers : \/ work'[w][t] = work[w][t]
                         \/ w \in R /\ work'[w][t] = "aborted"
  <2>1. work' = CloseSessions(R, t)
    BY DEF PreCommit, Renewed
  <2> QED BY <1>1, <2>1, CloseFacts DEF TypeInv
<1>5. \A w \in Workers : work'[w][t] # "prepared"
    BY <1>2, <1>4
<1>6. CASE NeedTwoPhase(b, W)
  <2>1. cmds \in [W -> Commands] /\ Send(b, cmds) /\ Goto(b, "prepare")
    BY <1>6 DEF Commands, PreCommit
  <2>2. Sent(b, W, cmds)
    BY <1>1, <2>1, SendFacts DEF TypeInv
  <2>3. pc'[b] = "prepare" /\ await'[b] = W
    BY <2>1, <2>2 DEF Goto, TypeInv, TypeOK, Sent
  <2>4. \A w \in W : chan'[b][w].cmd = "PREPARE"
    BY <1>1, <2>2 DEF Sent
  <2>5. \A w \in W : work'[w][t] \in {"open", "committed"}
    <3>1. \A w \in W : w \notin R
      BY <1>1 DEF Connected
    <3> QED BY <1>1, <1>4, <3>1 DEF PhaseSound
  <2>6. ASSUME t \notin dirty, "lateRenew" \notin Faults PROVE \A w \in Parts(b) : w \in W
    <3>1. R = {}
      BY <1>1, <2>6 DEF PreCommit, Renewed, Fault
    <3>2. \A w \in Parts(b) : tstate[b][w] = "WRITE"
      BY <1>1, <2>6 DEF PhaseSound
    <3> QED BY <1>1, <3>1, <3>2 DEF Connected
  <2> HIDE DEF W, cmds
  <2> QED BY <1>2, <1>3, <1>5, <2>3, <2>4, <2>5, <2>6 DEF PhaseSound
<1>7. CASE ~ NeedTwoPhase(b, W)
  <2>1. pc'[b] = "local" /\ gid'[b] = FALSE
    BY <1>2, <1>7 DEF PreCommit, Goto, TypeInv, TypeOK
  <2> QED BY <1>2, <1>3, <1>5, <2>1 DEF PhaseSound
<1> QED BY <1>6, <1>7

(* A result of PREPARE is fetched; a good one has its row.                 *)
LEMMA FetchPreparePhase ==
    ASSUME TypeInv, TypeInv', Control, Statuses, NEW b \in Backends, NEW w \in Workers,
           FetchPrepare(b, w)
    PROVE  PhaseSound(b)'
<1> DEFINE t == cur[b]
           ok == chan[b][w].cmd = "ok"
<1>1. /\ pc[b] = "prepare" /\ t \in Txns /\ Parts(b) \subseteq Workers /\ PhaseSound(b)
      /\ w \in await[b] /\ BackendSound(b) /\ await[b] \subseteq Workers
    BY PartsType DEF TypeInv, Bound, TypeOK, FetchPrepare, Statuses, HasResult, Control
<1>2. UNCHANGED <<cur, plan, work, dirty, gid>> /\ Parts(b)' = Parts(b)
    BY DEF FetchPrepare, Parts, history
<1>3. PICK state : FetchedAt(b, w, state)
    BY FetchedFacts DEF FetchPrepare
<1>4. /\ await'[b] = await[b] \ {w}
      /\ \A v \in await'[b] : chan'[b][v] = chan[b][v]
    BY <1>1, <1>3 DEF FetchedAt
<1>5. failed'[b] = (failed[b] \/ ~ ok)
    BY DEF FetchPrepare, TypeInv, TypeOK
<1>6. newRows'[b] = IF ok THEN newRows[b] \cup {<<w, t>>} ELSE newRows[b]
    BY DEF FetchPrepare, TypeInv, TypeOK
<1>7. pc'[b] = IF await[b] # {w} THEN "prepare" ELSE IF failed'[b] THEN "abort" ELSE "local"
    BY DEF FetchPrepare, Goto, TypeInv, TypeOK
<1>8. ok => work[w][t] \in {"prepared", "committed"}
    BY <1>1 DEF PhaseSound
<1>9. \A v \in Workers : work[v][t] = "prepared" =>
                failed'[b] \/ v \in await'[b] \/ <<v, t>> \in newRows'[b]
    BY <1>1, <1>4, <1>5, <1>6 DEF PhaseSound
<1>10. ASSUME t \notin dirty, "lateRenew" \notin Faults
       PROVE  \A v \in Parts(b) : failed'[b] \/ v \in await'[b] \/ work[v][t] = "prepared"
  <2>1. work[w][t] # "committed"
    BY <1>1, <1>10 DEF Statuses, BackendSound
  <2> QED BY <1>1, <1>4, <1>5, <1>8, <1>10, <2>1 DEF PhaseSound
<1>11. \A r \in newRows'[b] : work[r[1]][t] \in {"prepared", "committed"}
  <2>1. \A r \in newRows[b] : work[r[1]][t] \in {"prepared", "committed"}
    BY <1>1 DEF PhaseSound
  <2> QED BY <1>6, <1>8, <2>1
<1>12. \A v \in await'[b] :
          /\ chan'[b][v].cmd = "PREPARE" => work[v][t] \in {"open", "committed"}
          /\ chan'[b][v].cmd = "ok" => work[v][t] \in {"prepared", "committed"}
    BY <1>1, <1>4 DEF PhaseSound
<1>13. CASE await[b] # {w}
  <2>1. pc'[b] = "prepare"
    BY <1>7, <1>13
  <2> HIDE DEF ok
  <2> QED BY <1>2, <1>9, <1>10, <1>11, <1>12, <2>1 DEF PhaseSound
<1>14. CASE await[b] = {w} /\ ~ failed'[b]
  <2>1. pc'[b] = "local" /\ await'[b] = {}
    BY <1>4, <1>7, <1>14
  <2> HIDE DEF ok
  <2> QED BY <1>2, <1>9, <1>10, <1>11, <1>14, <2>1 DEF PhaseSound
<1>15. CASE await[b] = {w} /\ failed'[b]
    BY <1>7, <1>15, PhaseOver
<1> QED BY <1>13, <1>14, <1>15

(* A step of a backend keeps Statuses.                                     *)
LEMMA MovesStatuses ==
    ASSUME TypeInv, TypeInv', Control, Decisions, Statuses, NEW b \in Backends, Moves(b)
    PROVE  Statuses'
<1>1. PartsSound' /\ CleanerSees'
    BY MovesParts, MovesSees
<1>2. OtherConnections(b) /\ cur[b] \in Txns /\ NoTxn \notin Txns
    BY ConstantsOK, MovesOthers, MovesLocal
<1>3. ASSUME NEW c \in Backends, c # b PROVE PhaseSound(c)'
  <2>1. PhaseSound(c) /\ BackendSound(c)
    BY DEF Statuses, Control
  <2>2. CASE cur[c] = NoTxn
    <3>1. pc'[c] = "idle"
      BY <1>2, <1>3, <2>1, <2>2 DEF BackendSound, OtherConnections
    <3> QED BY <3>1, PhaseOver
  <2>3. CASE cur[c] \in Txns
    <3>1. \A w \in Workers : work'[w][cur[c]] = work[w][cur[c]]
      <4>1. cur[c] # cur[b]
        BY <1>2, <1>3 DEF Control
      <4> QED BY <2>3, <4>1, MovesWork
    <3> QED BY <1>2, <1>3, <2>1, <2>3, <3>1, PhaseStays DEF OtherConnections
  <2> QED BY <2>2, <2>3 DEF TypeInv, TypeOK
<1>4. PhaseSound(b)'
  <2>1. MovesAre(b)
    BY MovesOf
  <2>2. ASSUME NEW R \in SUBSET Workers, SendExec(b, R) \/ PreCommit(b, R) PROVE PhaseSound(b)'
    BY <2>2, SendExecPhase, PreCommitPhase
  <2>3. ASSUME NEW w \in Workers, FetchExec(b, w) \/ FetchPrepare(b, w) PROVE PhaseSound(b)'
    BY <2>3, FetchExecPhase, FetchPreparePhase
  <2>4. CASE \/ \E R \in SUBSET Workers : PostCommit(b, R) \/ Abort(b, R)
             \/ \E w \in Workers : FetchCommit(b, w) \/ FetchRollback(b, w)
             \/ \E f \in Workers, S \in SUBSET Workers :
                   PreCommitSendFails(b, f, S) \/ PostCommitSendFails(b, f, S)
             \/ LocalCommit(b) \/ LocalError(b) \/ Finish(b)
    <3>1. \E s \in {"idle", "postcommit", "commit", "abort", "rollback", "finish"} : Goto(b, s)
      BY <2>4 DEF PostCommit, Abort, FetchCommit, FetchRollback, PreCommitSendFails,
         PostCommitSendFails, LocalCommit, LocalError, Finish
    <3>2. pc'[b] \in {"idle", "postcommit", "commit", "abort", "rollback", "finish"}
      BY <3>1 DEF Goto, TypeInv, TypeOK
    <3> QED BY <3>2, PhaseOver
  <2> QED BY <2>1, <2>2, <2>3, <2>4 DEF MovesAre
<1> QED BY <1>1, <1>3, <1>4 DEF Statuses, PartsSound

(* Every step keeps Statuses.                                              *)
LEMMA StatusesStep ==
    ASSUME TypeInv, TypeInv', Control, Messages, Decisions, Statuses, [Next]_vars
    PROVE  Statuses'
<1>1. CASE UNCHANGED vars
  <2>1. UNCHANGED <<pc, cur, await, gid, failed, newRows, tstate, chan, orphans, plan, local,
                    work, rows, cl, twoPhase, dirty>>
    BY <1>1 DEF vars, backendVars, connVars, history
  <2>2. ASSUME NEW c \in Backends PROVE PhaseSound(c)'
    <3>1. PhaseSound(c)
      BY DEF Statuses
    <3> QED BY <2>1, <3>1, PhaseKept
  <2>3. PartsSound'
    BY <2>1 DEF Statuses, PartsSound, RecoveryPossible, CleanAtomicity, Clean
  <2>4. CleanerSees'
    BY <2>1 DEF Statuses, CleanerSees
  <2> QED BY <2>2, <2>3, <2>4 DEF Statuses, PartsSound
<1>2. ASSUME NEW b \in Backends, Step(b) \/ Renew(b) \/ SendFails(b) \/ LocalError(b)
      PROVE  Statuses'
    BY <1>2, MovesStatuses DEF Moves
<1>3. ASSUME NEW b \in Backends, NEW w \in Workers,
             Answer(b, w) \/ WorkerFails(b, w) \/ ConnBreak(b, w)
      PROVE  Statuses'
    BY <1>3, ServesStatuses DEF Serves
<1> QED BY <1>1, <1>2, <1>3, OrphanStatuses, DaemonStatuses, CrashStatuses, BeginStatuses
        DEF Next, OrphanResolved

-----------------------------------------------------------------------------
(* The initial states.                                                     *)
LEMMA InitInv ==
    ASSUME Init
    PROVE  IInv
<1>1. TypeOK
    BY ConstantsOK DEF Init, TypeOK, CleanerIdle, Quiet, WorkStatus, NoPlan
<1>2. Control
    BY ConstantsOK DEF Init, Control, BackendSound
<1>3. Messages
    BY DEF Init, Messages, MessageSound, Quiet
<1>4. Decisions
    BY DEF Init, Decisions, CleanerSound, CleanerIdle
<1>5. CleanerSees
    BY DEF Init, CleanerSees, CleanerIdle
<1>6. \A b \in Backends : PhaseSound(b)
    BY DEF Init, PhaseSound
<1>7. RecoveryPossible /\ CleanAtomicity
    BY DEF Init, RecoveryPossible, CleanAtomicity, Clean
<1> QED BY <1>1, <1>2, <1>3, <1>4, <1>5, <1>6, <1>7 DEF IInv, Statuses, Init

(* A state of the invariant has a transaction where one is needed.         *)
LEMMA InvBound ==
    ASSUME IInv
    PROVE  TypeInv
<1>1. TypeOK /\ Control /\ Messages /\ Decisions
    BY DEF IInv
<1>2. \A b \in Backends : pc[b] # "idle" => cur[b] \in Txns
    BY <1>1 DEF Control, BackendSound, TypeOK
<1>3. \A b \in Backends, w \in Workers : chan[b][w].cmd # "none" => chan[b][w].txn \in Txns
    BY <1>1 DEF Messages, MessageSound
<1>4. cl.at \in {"B", "C", "D", "scan"} => cl.w \in Workers
    BY <1>1 DEF Decisions, CleanerSound
<1> QED BY <1>1, <1>2, <1>3, <1>4 DEF TypeInv, Bound

(* Every step keeps the invariant, one layer after the other.              *)
LEMMA InvStep ==
    ASSUME IInv, [Next]_vars
    PROVE  IInv'
<1>1. TypeInv /\ Control /\ Messages /\ Decisions /\ Statuses
    BY InvBound DEF IInv
<1>2. TypeInv'
    BY <1>1, TypeStep
<1>3. Control'
    BY <1>1, <1>2, ControlStep
<1>4. Messages'
    BY <1>1, <1>2, <1>3, MessagesStep
<1>5. Decisions'
    BY <1>1, <1>2, DecisionsStep
<1>6. Statuses'
    BY <1>1, <1>2, StatusesStep
<1> QED BY <1>2, <1>3, <1>4, <1>5, <1>6 DEF IInv, TypeInv

(* The inductive invariant of the protocol, with its failures and its      *)
(* daemon, holds in every state (remote_comm_falcon.c, transaction.c and   *)
(* transaction_cleanup.c together).                                        *)
THEOREM Invariance == Spec => []IInv
<1>1. Init => IInv
    BY InitInv
<1>2. IInv /\ [Next]_vars => IInv'
    BY InvStep
<1> QED BY <1>1, <1>2, PTL DEF Spec

(* InprogressTransactions lists every transaction that is prepared         *)
(* somewhere and not decided, and a row stands for a committed transaction *)
(* whose part is prepared or committed, for any number of backends,        *)
(* workers and failures (AddInprogressTransaction, Write2PCRecord).        *)
THEOREM BookkeepingHolds == Spec => []Bookkeeping
<1>1. IInv => Bookkeeping
    BY DEF IInv, Bookkeeping, Control, Decisions, Statuses
<1> QED BY <1>1, Invariance, PTL

(* A worker that still has a committed operation only prepared has its     *)
(* row, so the daemon commits it and never rolls it back (Write2PCRecord,  *)
(* and the deletion of rows in CleanupPreparedTransactions).               *)
THEOREM RecoveryHolds == Spec => []RecoveryPossible
<1>1. IInv => RecoveryPossible
    BY DEF IInv, Statuses
<1> QED BY <1>1, Invariance, PTL

(* A distributed operation that went through PREPARE on clean connections  *)
(* is all or nothing, when no backend meets a new foreign server table as  *)
(* it prepares (FalconRemoteCommandPrepare, FalconRemoteCommandCommit,     *)
(* CleanupPreparedTransactions).                                           *)
THEOREM AtomicityHolds ==
    ASSUME "lateRenew" \notin Faults
    PROVE  Spec => []CleanAtomicity
<1>1. IInv => CleanAtomicity
    BY DEF IInv, Statuses
<1> QED BY <1>1, Invariance, PTL

(* The same together with the bookkeeping that the daemon rests on.        *)
THEOREM SafetyHolds ==
    ASSUME "lateRenew" \notin Faults
    PROVE  Spec => []Inv
<1>1. IInv => Inv
  <2>1. IInv => Bookkeeping
    BY DEF IInv, Bookkeeping, Control, Decisions, Statuses
  <2> QED BY <2>1 DEF IInv, Inv, Statuses
<1> QED BY <1>1, Invariance, PTL

(* The daemon never ends a transaction that is in progress, though the set *)
(* it looks at is old (GetActiveTransactionSet).                           *)
THEOREM DaemonHolds == Spec => DaemonLeavesActive
<1> DEFINE A == \A t \in Txns, w \in Workers :
                   t \in inprogress \cap inprogress' /\ work'[w][t] # work[w][t] => cl' = cl
<1>1. IInv /\ [Next]_vars => [A]_vars
  <2> SUFFICES ASSUME IInv, Next PROVE A
    OBVIOUS
  <2>1. TypeInv /\ Control /\ CleanerSound
    BY InvBound DEF IInv, Decisions
  <2>2. CASE Daemon \/ DaemonFails
    <3>1. ASSUME NEW t \in Txns, NEW w \in Workers, work'[w][t] # work[w][t]
          PROVE  t \notin inprogress
      <4>1. cl.at = "scan" /\ t \in cl.A \ cl.B
        BY <2>1, <2>2, <3>1, DaemonWork
      <4> QED BY <2>1, <4>1, CleanerDecided
    <3> QED BY <3>1
  <2>3. CASE Crash
    BY <2>1, <2>3, CrashFacts
  <2>4. ASSUME NEW b \in Backends, Moves(b) PROVE A
    <3>1. TypeInv'
      BY <2>1, TypeStep
    <3> QED BY <2>1, <2>4, <3>1, MovesOneBackend
  <2>5. ASSUME NEW b \in Backends, NEW w \in Workers, Serves(b, w) PROVE A
    BY <2>1, <2>5, ServesFrame
  <2>6. ASSUME NEW o, OrphanRun(o) \/ OrphanDrop(o) PROVE A
    BY <2>1, <2>6, OrphanWork
  <2>7. ASSUME NEW b \in Backends, NEW t \in Txns, NEW p \in Plans, Begin(b, t, p) PROVE A
    BY <2>7 DEF Begin
  <2> QED BY <2>2, <2>3, <2>4, <2>5, <2>6, <2>7 DEF Next, Moves, Serves, OrphanResolved
<1>2. Spec => []IInv
    BY Invariance
<1> QED BY <1>1, <1>2, PTL DEF Spec, DaemonLeavesActive

-----------------------------------------------------------------------------
(* TwoPhaseCommit implements AtomicCommit, for any number of backends,     *)
(* transactions and workers, when every plan needs PREPARE and no          *)
(* transaction uses a connection that another one left in a transaction.   *)

\* Every operation writes on two servers at least, so PREPARE is chosen, and
\* no backend meets a new foreign server table as it prepares.
AllTwoPhase ==
    /\ "lateRenew" \notin Faults
    /\ \A p \in Plans : Cardinality(p.parts) + (IF p.localWrite THEN 1 ELSE 0) >= 2

\* What holds besides IInv while every connection is clean: all commits went
\* through PREPARE, and a worker meets BEGIN before anything else.
Pristine ==
    /\ \A t \in Txns : local[t] = "committed" => t \in twoPhase
    /\ \A b \in Backends : pc[b] \in {"prepare", "local"} => cur[b] \in twoPhase
    /\ \A b \in Backends, w \in Workers :
          chan[b][w].cmd = "BEGIN" => work[w][chan[b][w].txn] = "none"

\* The layers of IInv, with these.
Layers == TypeInv /\ Control /\ Messages /\ Decisions /\ Statuses /\ Pristine

\* How a worker's part moves then.
PartSteps(w, t) ==
    \/ work'[w][t] = work[w][t]
    \/ /\ work[w][t] = "none" /\ work'[w][t] \in {"open", "aborted"}
       /\ \E b \in Backends : /\ chan[b][w].cmd = "BEGIN" /\ chan[b][w].txn = t
                              /\ chan'[b][w].cmd # "BEGIN"
    \/ work[w][t] = "open" /\ work'[w][t] \in {"prepared", "aborted"}
    \/ work[w][t] = "prepared" /\ work'[w][t] = "committed" /\ local[t] = "committed"
    \/ work[w][t] = "prepared" /\ work'[w][t] = "aborted" /\ local[t] = "aborted"

(* The workers of a plan are workers.                                      *)
LEMMA PlanParts ==
    ASSUME TypeInv, NEW t \in Txns
    PROVE  plan[t].parts \subseteq Workers
<1>1. plan[t] \in Plans \cup {NoPlan}
    BY DEF TypeInv, TypeOK
<1>2. \A p \in Plans \cup {NoPlan} : p.parts \subseteq Workers
    BY ConstantsOK DEF NoPlan
<1> QED BY <1>1, <1>2

(* No part of a committed transaction is open.                             *)
LEMMA CommittedPart ==
    ASSUME Layers, "lateRenew" \notin Faults, dirty = {}, NEW t \in Txns, NEW w \in plan[t].parts,
           local[t] = "committed"
    PROVE  work[w][t] \in {"prepared", "committed"}
<1>1. t \in twoPhase
    BY DEF Layers, Pristine
<1>2. CleanAtomicity
    BY DEF Layers, Statuses
<1> QED BY <1>1, <1>2 DEF CleanAtomicity, Clean

(* The part that a worker moves.                                           *)
LEMMA ServesSteps ==
    ASSUME Layers, "lateRenew" \notin Faults, dirty = {}, NEW b \in Backends, NEW v \in Workers,
           Serves(b, v), NEW t \in Txns, NEW w \in plan[t].parts
    PROVE  PartSteps(w, t)
<1> DEFINE m == chan[b][v]
<1>1. /\ TypeInv /\ MessageSound(b, v) /\ w \in Workers
      /\ m.cmd = "BEGIN" => work[v][m.txn] = "none"
    BY PlanParts DEF Layers, Messages, Pristine
<1>2. CASE v # w \/ m.txn # t
    BY <1>1, <1>2, ServesWork DEF PartSteps
<1>3. CASE v = w /\ m.txn = t
  <2>1. m.cmd # "EXEC"
    BY <1>1 DEF MessageSound
  <2>2. local[t] = "committed" => work[w][t] \in {"prepared", "committed"}
    BY CommittedPart
  <2>3. /\ m.cmd \in {"COMMIT", "COMMIT PREPARED"} => local[t] = "committed"
        /\ m.cmd \in {"ROLLBACK", "ROLLBACK PREPARED"} => local[t] = "aborted"
    BY <1>1, <1>3 DEF MessageSound
  <2>4. chan'[b][w].cmd # "BEGIN"
    <3>1. PICK r \in {"ok", "fail", "lost"} : ResultAt(b, v, r)
      BY <1>1, ServesFrame
    <3> QED BY <1>3, <3>1 DEF ResultAt
  <2>5. CASE m.cmd \in Commands /\ work'[w][t] = Done(m.cmd, work[w][t])
    <3>1. CASE m.cmd = "BEGIN"
      <4>1. work'[w][t] = "open"
        BY <2>5, <3>1 DEF Done
      <4> QED BY <1>1, <1>3, <2>4, <3>1, <4>1 DEF PartSteps
    <3>2. CASE m.cmd # "BEGIN"
      BY <2>1, <2>2, <2>3, <2>5, <3>2 DEF PartSteps, Done, Commands
    <3> QED BY <3>1, <3>2
  <2>6. CASE work'[w][t] = "aborted" /\ m.cmd \in {"BEGIN", "EXEC"}
    BY <1>1, <1>3, <2>1, <2>4, <2>6 DEF PartSteps
  <2>7. CASE work'[w][t] = work[w][t] \/ (work'[w][t] = "aborted" /\ work[w][t] = "open")
    BY <2>7 DEF PartSteps
  <2> QED BY <1>1, <1>3, <2>5, <2>6, <2>7, ServesWork
<1> QED BY <1>2, <1>3

(* The part that a command left behind moves.                              *)
LEMMA OrphanSteps ==
    ASSUME Layers, "lateRenew" \notin Faults, dirty = {}, NEW o, OrphanRun(o) \/ OrphanDrop(o),
           NEW t \in Txns, NEW w \in plan[t].parts
    PROVE  PartSteps(w, t)
<1>1. TypeInv /\ w \in Workers
    BY PlanParts DEF Layers
<1>2. o \in orphans /\ o.cmd \in Commands /\ OrphanSound(o)
    BY <1>1, OrphanWork DEF Layers, Decisions
<1>3. CASE o.w # w \/ o.txn # t
    BY <1>1, <1>3, OrphanWork DEF PartSteps
<1>4. CASE o.w = w /\ o.txn = t
  <2>1. local[t] = "committed" => work[w][t] \in {"prepared", "committed"}
    BY CommittedPart
  <2>2. /\ o.cmd \notin {"BEGIN", "EXEC"}
        /\ o.cmd \in {"COMMIT", "COMMIT PREPARED"} => local[t] = "committed"
    BY <1>2, <1>4 DEF OrphanSound
  <2>3. o.cmd = "ROLLBACK PREPARED" => local[t] = "aborted" \/ work[w][t] # "prepared"
    BY <1>2, <1>4 DEF OrphanSound, Layers, Statuses, CleanerSees
  <2>4. CASE work'[w][t] = Done(o.cmd, work[w][t])
    BY <1>2, <2>1, <2>2, <2>3, <2>4 DEF PartSteps, Done, Commands
  <2>5. CASE work'[w][t] = work[w][t] \/ (work'[w][t] = "aborted" /\ work[w][t] = "open")
    BY <2>5 DEF PartSteps
  <2> QED BY <1>1, <1>4, <2>4, <2>5, OrphanWork
<1> QED BY <1>3, <1>4

(* Every step moves the parts this way.                                    *)
LEMMA EveryPartSteps ==
    ASSUME Layers, "lateRenew" \notin Faults, dirty = {}, Next, NEW t \in Txns,
           NEW w \in plan[t].parts
    PROVE  PartSteps(w, t)
<1>1. TypeInv /\ Control /\ Decisions /\ CleanerSees /\ w \in Workers
    BY PlanParts DEF Layers, Statuses
<1>2. ASSUME NEW b \in Backends, Moves(b) PROVE PartSteps(w, t)
    BY <1>1, <1>2, MovesWork DEF PartSteps
<1>3. ASSUME NEW b \in Backends, NEW v \in Workers, Serves(b, v) PROVE PartSteps(w, t)
    BY <1>3, ServesSteps
<1>4. ASSUME NEW o, OrphanRun(o) \/ OrphanDrop(o) PROVE PartSteps(w, t)
    BY <1>4, OrphanSteps
<1>5. CASE Daemon \/ DaemonFails
  <2>1. CASE work'[w][t] # work[w][t]
    <3>1. /\ cl.at = "scan" /\ w = cl.w /\ work[w][t] = "prepared" /\ t \in cl.A \ cl.B
          /\ \/ work'[w][t] = "committed" /\ t \in cl.C
             \/ work'[w][t] = "aborted" /\ cl.C = {}
      BY <1>1, <1>5, <2>1, DaemonWork
    <3>2. /\ local[t] \in {"committed", "aborted"}
          /\ t \in cl.C => local[t] = "committed"
      BY <1>1, <3>1, CleanerDecided DEF Decisions
    <3>3. cl.C = {} => local[t] # "committed"
      BY <1>1, <3>1 DEF CleanerSees
    <3> QED BY <3>1, <3>2, <3>3 DEF PartSteps
  <2>2. CASE work'[w][t] = work[w][t]
    BY <2>2 DEF PartSteps
  <2> QED BY <2>1, <2>2
<1>6. CASE Crash
    BY <1>1, <1>6, CrashFacts DEF PartSteps
<1>7. ASSUME NEW b \in Backends, NEW u \in Txns, NEW p \in Plans, Begin(b, u, p)
      PROVE  PartSteps(w, t)
    BY <1>7 DEF Begin, PartSteps
<1> QED BY <1>2, <1>3, <1>4, <1>5, <1>6, <1>7 DEF Next, Moves, Serves, OrphanResolved

(* A command other than BEGIN, or an old message.                          *)
LEMMA SentOther ==
    ASSUME TypeInv, NEW b \in Backends, NEW W \in SUBSET Workers,
           NEW cmds \in [W -> Commands \ {"BEGIN"}], Send(b, cmds), NEW w \in Workers,
           chan'[b][w].cmd = "BEGIN"
    PROVE  chan'[b][w] = chan[b][w]
<1>1. cmds \in [W -> Commands]
    OBVIOUS
<1>2. Sent(b, W, cmds)
    BY <1>1, SendFacts DEF TypeInv
<1>3. w \notin W
    BY <1>2 DEF Sent
<1>4. chan'[b][w] = IF w \in Parts(b) THEN Quiet ELSE chan[b][w]
    BY <1>2, <1>3 DEF Sent
<1> QED BY <1>4 DEF Quiet

(* BEGIN comes with an operation's first commands only.                    *)
LEMMA BeginSent ==
    ASSUME TypeInv, TypeInv', Control, Next, NEW b \in Backends, NEW w \in Workers,
           chan'[b][w].cmd = "BEGIN"
    PROVE  \/ chan'[b][w] = chan[b][w]
           \/ chan'[b][w].txn = cur[b] /\ pc[b] = "begin" /\ Moves(b)
<1>1. ASSUME NEW c \in Backends, c # b, Moves(c) PROVE chan'[b][w] = chan[b][w]
    BY <1>1, MovesOneBackend
<1>2. ASSUME Moves(b)
      PROVE  chan'[b][w] = chan[b][w] \/ (chan'[b][w].txn = cur[b] /\ pc[b] = "begin")
  <2>1. MovesAre(b) /\ cur[b] \in Txns
    BY <1>2, MovesOf, MovesLocal
  <2>2. Parts(b) \subseteq Workers
    BY <2>1, PartsType DEF TypeInv
  <2>3. ASSUME NEW R \in SUBSET Workers, SendExec(b, R)
        PROVE  chan'[b][w] = chan[b][w] \/ (chan'[b][w].txn = cur[b] /\ pc[b] = "begin")
    <3> DEFINE ts == Connected(b, R)
               cmds == [v \in Parts(b) |-> IF ts[v] = "NONE" THEN "BEGIN" ELSE "EXEC"]
    <3>1. cmds \in [Parts(b) -> Commands] /\ Send(b, cmds) /\ pc[b] = "begin"
      BY <2>3 DEF Commands, SendExec
    <3>2. Sent(b, Parts(b), cmds)
      BY <2>2, <3>1, SendFacts DEF TypeInv
    <3> QED BY <3>1, <3>2 DEF Sent
  <2>4. ASSUME NEW R \in SUBSET Workers, PreCommit(b, R) PROVE chan'[b][w] = chan[b][w]
    <3> DEFINE W == {v \in Parts(b) : Connected(b, R)[v] = "WRITE"}
    <3>1. chan' = chan \/ Send(b, [v \in W |-> "PREPARE"])
      BY <2>4 DEF PreCommit
    <3>2. [v \in W |-> "PREPARE"] \in [W -> Commands \ {"BEGIN"}] /\ W \in SUBSET Workers
      BY <2>2 DEF Commands
    <3> QED BY <3>1, <3>2, SentOther
  <2>5. ASSUME NEW R \in SUBSET Workers, PostCommit(b, R) PROVE chan'[b][w] = chan[b][w]
    <3> DEFINE ts == Connected(b, R)
               W == {v \in Parts(b) : ts[v] \in {"WRITE", "PREPARE"}}
               cmds == [v \in W |-> CommitCommand(ts[v])]
    <3>1. Send(b, cmds)
      BY <2>5 DEF PostCommit
    <3>2. cmds \in [W -> Commands \ {"BEGIN"}] /\ W \in SUBSET Workers
      BY <2>2 DEF Commands, CommitCommand
    <3> QED BY <3>1, <3>2, SentOther
  <2>6. ASSUME NEW R \in SUBSET Workers, Abort(b, R) PROVE chan'[b][w] = chan[b][w]
    <3> DEFINE ts == Connected(b, R)
               W == {v \in Parts(b) : ts[v] \in {"WRITE", "PREPARE"}}
               cmds == [v \in W |-> RollbackCommand(ts[v])]
    <3>1. Send(b, cmds)
      BY <2>6 DEF Abort
    <3>2. cmds \in [W -> Commands \ {"BEGIN"}] /\ W \in SUBSET Workers
      BY <2>2 DEF Commands, RollbackCommand
    <3> QED BY <3>1, <3>2, SentOther
  <2>7. ASSUME NEW v \in Workers,
               \/ FetchExec(b, v) \/ FetchPrepare(b, v)
               \/ FetchCommit(b, v) \/ FetchRollback(b, v)
        PROVE  chan'[b][w] = chan[b][w]
    <3>1. PICK state : Fetched(b, v, state)
      BY <2>7 DEF FetchExec, FetchPrepare, FetchCommit, FetchRollback
    <3>2. FetchedAt(b, v, state)
      BY <3>1, FetchedFacts
    <3> QED BY <3>2 DEF FetchedAt, Quiet
  <2>8. ASSUME NEW f \in Workers, NEW S \in SUBSET Workers,
               PreCommitSendFails(b, f, S) \/ PostCommitSendFails(b, f, S)
        PROVE  chan'[b][w] = chan[b][w]
    <3>1. CASE PreCommitSendFails(b, f, S)
      <4>1. Send(b, [v \in S |-> "PREPARE"])
        BY <3>1 DEF PreCommitSendFails
      <4>2. [v \in S |-> "PREPARE"] \in [S -> Commands \ {"BEGIN"}]
        BY DEF Commands
      <4> QED BY <4>1, <4>2, SentOther
    <3>2. CASE PostCommitSendFails(b, f, S)
      <4> DEFINE cmds == [v \in S |-> CommitCommand(tstate[b][v])]
      <4>1. Send(b, cmds)
        BY <3>2 DEF PostCommitSendFails
      <4>2. cmds \in [S -> Commands \ {"BEGIN"}]
        BY DEF Commands, CommitCommand
      <4> QED BY <4>1, <4>2, SentOther
    <3> QED BY <2>8, <3>1, <3>2
  <2>9. CASE LocalCommit(b) \/ LocalError(b) \/ Finish(b)
    BY <2>9 DEF LocalCommit, LocalError, Finish, connVars
  <2> QED BY <2>1, <2>3, <2>4, <2>5, <2>6, <2>7, <2>8, <2>9 DEF MovesAre
<1>3. ASSUME NEW c \in Backends, NEW v \in Workers, Serves(c, v) PROVE chan'[b][w] = chan[b][w]
  <2>1. PICK r \in {"ok", "fail", "lost"} : ResultAt(c, v, r)
    BY <1>3, ServesFrame
  <2> QED BY <2>1 DEF ResultAt
<1>4. ASSUME NEW o, OrphanRun(o) \/ OrphanDrop(o) PROVE chan'[b][w] = chan[b][w]
    BY <1>4 DEF OrphanRun, OrphanDrop
<1>5. CASE Daemon \/ DaemonFails
    BY <1>5, DaemonFrame
<1>6. CASE Crash
  <2>1. chan'[b][w] = Quiet
    BY <1>6 DEF Crash
  <2> QED BY <2>1 DEF Quiet
<1>7. ASSUME NEW c \in Backends, NEW u \in Txns, NEW p \in Plans, Begin(c, u, p)
      PROVE  chan'[b][w] = chan[b][w]
    BY <1>7 DEF Begin, connVars
<1> QED BY <1>1, <1>2, <1>3, <1>4, <1>5, <1>6, <1>7 DEF Next, Moves, Serves, OrphanResolved

(* PREPARE is chosen for every transaction.                                *)
LEMMA AlwaysTwoPhase ==
    ASSUME Layers, AllTwoPhase, dirty = {}, NEW b \in Backends, NEW R \in SUBSET Workers,
           PreCommit(b, R)
    PROVE  cur[b] \in twoPhase'
<1> DEFINE W == {w \in Parts(b) : Connected(b, R)[w] = "WRITE"}
<1>1. /\ TypeInv /\ pc[b] = "precommit" /\ cur[b] \in Txns /\ PhaseSound(b) /\ BackendSound(b)
      /\ Control
    BY DEF PreCommit, Layers, TypeInv, Bound, Statuses, Control
<1>2. Parts(b) \subseteq Workers
    BY <1>1, PartsType DEF TypeInv
<1>3. R = {}
    BY <1>1 DEF PreCommit, Renewed, Fault, AllTwoPhase
<1>4. \A w \in Parts(b) : tstate[b][w] = "WRITE"
    BY <1>1 DEF PhaseSound
<1>5. W = Parts(b)
    BY <1>2, <1>3, <1>4 DEF Connected
<1>6. plan[cur[b]] \in Plans
  <2>1. local[cur[b]] = "active"
    BY <1>1 DEF BackendSound
  <2>2. plan[cur[b]] # NoPlan
    BY <1>1, <2>1 DEF Control
  <2> QED BY <1>1, <2>2 DEF TypeInv, TypeOK
<1>7. NeedTwoPhase(b, W)
    BY <1>5, <1>6 DEF NeedTwoPhase, AllTwoPhase, Parts
<1> QED BY <1>7 DEF PreCommit, StartTwoPhase

\* How the outcome of a transaction moves.
OutcomeSteps(t) ==
    \/ local'[t] = local[t]
    \/ local[t] = "none" /\ local'[t] = "active"
    \/ local[t] = "active" /\ local'[t] = "aborted"
    \/ /\ local[t] = "active" /\ local'[t] = "committed"
       /\ \E b \in Backends : LocalCommit(b) /\ cur[b] = t

(* Only LocalCommit commits.                                               *)
LEMMA EveryOutcomeSteps ==
    ASSUME TypeInv, Control, Next, NEW t \in Txns
    PROVE  OutcomeSteps(t)
<1>1. ASSUME NEW b \in Backends, Moves(b) PROVE OutcomeSteps(t)
  <2>1. LocalGrows /\ cur[b] \in Txns /\ (t # cur[b] => local'[t] = local[t])
    BY <1>1, MovesLocal
  <2>2. CASE LocalCommit(b)
    <3>1. t # cur[b] \/ (local'[t] = "committed" /\ cur[b] = t)
      BY <2>2 DEF LocalCommit, TypeInv, TypeOK
    <3> QED BY <2>1, <2>2, <3>1 DEF OutcomeSteps, LocalGrows
  <2>3. CASE ~ LocalCommit(b)
    <3>1. local' = local \/ local' = [local EXCEPT ![cur[b]] = "aborted"]
      BY <1>1, <2>3, MovesOf DEF MovesAre, SendExec, PreCommit, PostCommit, Abort, FetchExec,
         FetchPrepare, FetchCommit, FetchRollback, PreCommitSendFails, PostCommitSendFails,
         LocalError, Finish
    <3>2. local'[t] \in {local[t], "aborted"}
      BY <2>1, <3>1 DEF TypeInv, TypeOK
    <3> QED BY <2>1, <3>2 DEF OutcomeSteps, LocalGrows
  <2> QED BY <2>2, <2>3
<1>2. ASSUME NEW b \in Backends, NEW v \in Workers, Serves(b, v) PROVE OutcomeSteps(t)
    BY <1>2, ServesFrame DEF OutcomeSteps
<1>3. ASSUME NEW o, OrphanRun(o) \/ OrphanDrop(o) PROVE OutcomeSteps(t)
    BY <1>3 DEF OrphanRun, OrphanDrop, OutcomeSteps
<1>4. CASE Daemon \/ DaemonFails
    BY <1>4, DaemonFrame DEF OutcomeSteps
<1>5. CASE Crash
    BY <1>5, CrashFacts DEF OutcomeSteps
<1>6. ASSUME NEW b \in Backends, NEW u \in Txns, NEW p \in Plans, Begin(b, u, p)
      PROVE  OutcomeSteps(t)
    BY <1>6 DEF Begin, OutcomeSteps, TypeInv, TypeOK
<1> QED BY <1>1, <1>2, <1>3, <1>4, <1>5, <1>6 DEF Next, Moves, Serves, OrphanResolved

(* The history of PREPARE grows.                                           *)
LEMMA TwoPhaseGrows ==
    ASSUME TypeInv, TypeInv', Next
    PROVE  twoPhase \subseteq twoPhase'
<1>1. ASSUME NEW b \in Backends, Moves(b) PROVE twoPhase \subseteq twoPhase'
    BY <1>1, MovesOneBackend
<1>2. ASSUME NEW b \in Backends, NEW v \in Workers, Serves(b, v) PROVE twoPhase' = twoPhase
    BY <1>2, ServesFrame
<1>3. ASSUME NEW o, OrphanRun(o) \/ OrphanDrop(o) PROVE twoPhase' = twoPhase
    BY <1>3 DEF OrphanRun, OrphanDrop, history
<1>4. CASE Daemon \/ DaemonFails
    BY <1>4, DaemonFrame
<1>5. CASE Crash
    BY <1>5, CrashFacts
<1>6. ASSUME NEW b \in Backends, NEW u \in Txns, NEW p \in Plans, Begin(b, u, p)
      PROVE  twoPhase' = twoPhase
    BY <1>6 DEF Begin, history
<1> QED BY <1>1, <1>2, <1>3, <1>4, <1>5, <1>6 DEF Next, Moves, Serves, OrphanResolved

(* How a backend comes to its PREPAREs and its local commit.               *)
LEMMA PhaseEntered ==
    ASSUME TypeInv, TypeInv', Control, Next, NEW b \in Backends,
           pc'[b] \in {"prepare", "local"}
    PROVE  \/ pc'[b] = pc[b] /\ cur'[b] = cur[b]
           \/ \E R \in SUBSET Workers : PreCommit(b, R)
           \/ \E w \in Workers : FetchPrepare(b, w)
<1>1. ASSUME NEW c \in Backends, c # b, Moves(c) PROVE pc'[b] = pc[b] /\ cur'[b] = cur[b]
    BY <1>1, MovesOneBackend
<1>2. ASSUME Moves(b)
      PROVE  \/ \E R \in SUBSET Workers : PreCommit(b, R)
             \/ \E w \in Workers : FetchPrepare(b, w)
  <2>1. CASE \/ \E R \in SUBSET Workers : SendExec(b, R) \/ PostCommit(b, R) \/ Abort(b, R)
             \/ \E w \in Workers : FetchExec(b, w) \/ FetchCommit(b, w) \/ FetchRollback(b, w)
             \/ \E f \in Workers, S \in SUBSET Workers :
                   PreCommitSendFails(b, f, S) \/ PostCommitSendFails(b, f, S)
             \/ LocalCommit(b) \/ LocalError(b) \/ Finish(b)
    <3>1. \E s \in PcType \ {"prepare", "local"} : Goto(b, s)
      BY <2>1 DEF SendExec, PostCommit, Abort, FetchExec, FetchCommit, FetchRollback,
         PreCommitSendFails, PostCommitSendFails, LocalCommit, LocalError, Finish, PcType
    <3>2. pc'[b] \notin {"prepare", "local"}
      BY <3>1 DEF Goto, TypeInv, TypeOK
    <3> QED BY <3>2
  <2> QED BY <1>2, <2>1, MovesOf DEF MovesAre
<1>3. ASSUME NEW c \in Backends, NEW v \in Workers, Serves(c, v) PROVE UNCHANGED <<pc, cur>>
    BY <1>3, ServesFrame
<1>4. ASSUME NEW o, OrphanRun(o) \/ OrphanDrop(o) PROVE UNCHANGED <<pc, cur>>
    BY <1>4 DEF OrphanRun, OrphanDrop, backendVars
<1>5. CASE Daemon \/ DaemonFails
    BY <1>5, DaemonFrame
<1>6. CASE Crash
    BY <1>6, CrashFacts
<1>7. ASSUME NEW c \in Backends, NEW u \in Txns, NEW p \in Plans, Begin(c, u, p)
      PROVE  pc'[b] = pc[b] /\ cur'[b] = cur[b]
    BY <1>7 DEF Begin, Goto, TypeInv, TypeOK
<1> QED BY <1>1, <1>2, <1>3, <1>4, <1>5, <1>6, <1>7 DEF Next, Moves, Serves, OrphanResolved

(* Every step keeps what is said of clean connections.                     *)
LEMMA PristineStep ==
    ASSUME Layers, AllTwoPhase, dirty = {}, TypeInv', Next
    PROVE  Pristine'
<1>1. TypeInv /\ Control /\ Messages /\ Pristine /\ Statuses /\ "lateRenew" \notin Faults
    BY DEF Layers, AllTwoPhase
<1>2. ASSUME NEW b \in Backends, NEW w \in Workers, chan'[b][w].cmd = "BEGIN"
      PROVE  work'[w][chan'[b][w].txn] = "none"
  <2> DEFINE t == chan'[b][w].txn
  <2>1. CASE chan'[b][w] = chan[b][w]
    <3>1. MessageSound(b, w) /\ work[w][t] = "none"
      BY <1>1, <1>2, <2>1 DEF Messages, Pristine
    <3>2. t \in Txns /\ cur[b] = t /\ w \in plan[t].parts
      BY <1>2, <2>1, <3>1 DEF MessageSound, Parts
    <3>3. PartSteps(w, t)
      BY <1>1, <3>2, EveryPartSteps
    <3>4. ASSUME NEW c \in Backends, chan[c][w].cmd = "BEGIN", chan[c][w].txn = t PROVE c = b
      <4>1. MessageSound(c, w)
        BY <1>1 DEF Messages
      <4> QED BY <3>2, <3>4, <4>1 DEF MessageSound
    <3> QED BY <1>2, <3>1, <3>3, <3>4 DEF PartSteps
  <2>2. CASE t = cur[b] /\ pc[b] = "begin" /\ Moves(b)
    <3>1. work[w][t] = "none" /\ t \in Txns
      BY <1>1, <2>2 DEF Statuses, PhaseSound, TypeInv, Bound
    <3> HIDE DEF t
    <3>2. work'[w][t] = "none"
      BY <1>1, <2>2, <3>1, MovesWork
    <3> QED BY <3>2 DEF t
  <2> QED BY <1>1, <1>2, <2>1, <2>2, BeginSent
<1>3. twoPhase \subseteq twoPhase'
    BY <1>1, TwoPhaseGrows
<1>4. ASSUME NEW t \in Txns, local'[t] = "committed" PROVE t \in twoPhase'
  <2>1. OutcomeSteps(t)
    BY <1>1, EveryOutcomeSteps
  <2>2. CASE \E b \in Backends : LocalCommit(b) /\ cur[b] = t
    BY <1>1, <1>3, <2>2 DEF LocalCommit, Pristine
  <2>3. CASE local[t] = "committed"
    BY <1>1, <1>3, <2>3 DEF Pristine
  <2> QED BY <1>4, <2>1, <2>2, <2>3 DEF OutcomeSteps
<1>5. ASSUME NEW b \in Backends, pc'[b] \in {"prepare", "local"} PROVE cur'[b] \in twoPhase'
  <2>1. \/ pc'[b] = pc[b] /\ cur'[b] = cur[b]
        \/ \E R \in SUBSET Workers : PreCommit(b, R)
        \/ \E w \in Workers : FetchPrepare(b, w)
    BY <1>1, <1>5, PhaseEntered
  <2>2. CASE pc'[b] = pc[b] /\ cur'[b] = cur[b]
    BY <1>1, <1>3, <1>5, <2>2 DEF Pristine
  <2>3. ASSUME NEW R \in SUBSET Workers, PreCommit(b, R) PROVE cur'[b] \in twoPhase'
    <3>1. cur' = cur
      BY <2>3 DEF PreCommit
    <3> QED BY <1>1, <2>3, <3>1, AlwaysTwoPhase
  <2>4. ASSUME NEW w \in Workers, FetchPrepare(b, w) PROVE cur'[b] \in twoPhase'
    BY <1>1, <1>3, <2>4 DEF FetchPrepare, Pristine
  <2> QED BY <2>1, <2>2, <2>3, <2>4
<1> QED BY <1>2, <1>4, <1>5 DEF Pristine

-----------------------------------------------------------------------------
(* The abstract state has its type.                                        *)
LEMMA BarTypes ==
    ASSUME TypeInv'
    PROVE  /\ outcomeBar' \in [Txns -> AC!Outcomes]
           /\ partBar' \in [Txns -> [Workers -> AC!PartStates]]
<1>1. \A t \in Txns : local'[t] \in {"none", "active", "committed", "aborted"}
    BY DEF TypeInv, TypeOK
<1>2. outcomeBar' \in [Txns -> AC!Outcomes]
    BY <1>1 DEF outcomeBar, AC!Outcomes
<1>3. \A t \in Txns, w \in Workers : work'[w][t] \in WorkStatus
    BY DEF TypeInv, TypeOK
<1>4. \A s \in WorkStatus : PartBar(s) \in AC!PartStates
    BY DEF PartBar, WorkStatus, AC!PartStates
<1>5. \A t \in Txns, w \in Workers :
         (IF w \in plan'[t].parts THEN PartBar(work'[w][t]) ELSE "out") \in AC!PartStates
  <2>1. "out" \in AC!PartStates
    BY DEF AC!PartStates
  <2> QED BY <1>3, <1>4, <2>1
<1> QED BY <1>2, <1>5 DEF partBar

(* A plan is chosen once, when a transaction begins.                       *)
LEMMA PlanSteps ==
    ASSUME TypeInv, TypeInv', Control, Statuses, Next, NEW t \in Txns
    PROVE  \/ plan'[t] = plan[t]
           \/ /\ local[t] = "none" /\ plan[t].parts = {}
              /\ \A w \in Workers : work'[w][t] = "none"
<1>1. ASSUME NEW b \in Backends, Moves(b) PROVE plan' = plan
    BY <1>1, MovesOneBackend
<1>2. ASSUME NEW b \in Backends, NEW v \in Workers, Serves(b, v) PROVE plan' = plan
    BY <1>2, ServesFrame
<1>3. ASSUME NEW o, OrphanRun(o) \/ OrphanDrop(o) PROVE plan' = plan
    BY <1>3 DEF OrphanRun, OrphanDrop
<1>4. CASE Daemon \/ DaemonFails
    BY <1>4, DaemonFrame
<1>5. CASE Crash
    BY <1>5, CrashFacts
<1>6. ASSUME NEW b \in Backends, NEW u \in Txns, NEW p \in Plans, Begin(b, u, p)
      PROVE  \/ plan'[t] = plan[t]
             \/ /\ local[t] = "none" /\ plan[t].parts = {}
                /\ \A w \in Workers : work'[w][t] = "none"
  <2>1. plan' = [plan EXCEPT ![u] = p] /\ local[u] = "none" /\ work' = work
    BY <1>6 DEF Begin
  <2>2. CASE t # u
    BY <2>1, <2>2 DEF TypeInv, TypeOK
  <2>3. CASE t = u
    <3>1. plan[t] = NoPlan /\ \A w \in Workers : work[w][t] = "none"
      BY <2>1, <2>3 DEF Control, Statuses
    <3> QED BY <2>1, <2>3, <3>1 DEF NoPlan
  <2> QED BY <2>2, <2>3
<1> QED BY <1>1, <1>2, <1>3, <1>4, <1>5, <1>6 DEF Next, Moves, Serves, OrphanResolved

(* What is committed is prepared everywhere.                               *)
LEMMA CommitsPrepared ==
    ASSUME Layers, "lateRenew" \notin Faults, dirty = {}, NEW b \in Backends, LocalCommit(b),
           NEW w \in plan[cur[b]].parts
    PROVE  work[w][cur[b]] = "prepared"
<1>1. pc[b] = "local" /\ PhaseSound(b) /\ BackendSound(b) /\ cur[b] \in twoPhase
    BY DEF Layers, Statuses, Control, Pristine, LocalCommit
<1>2. gid[b]
    BY <1>1 DEF BackendSound
<1> QED BY <1>1, <1>2 DEF PhaseSound, Parts

(* The outcome moves as it may.                                            *)
LEMMA DecideStep ==
    ASSUME Layers, "lateRenew" \notin Faults, dirty = {}, Next, NEW t \in Txns
    PROVE  AC!Decide(t)
<1>1. TypeInv /\ Control
    BY DEF Layers
<1>2. OutcomeSteps(t)
    BY <1>1, EveryOutcomeSteps
<1>3. /\ outcomeBar[t] = IF local[t] \in {"none", "active"} THEN "undecided" ELSE local[t]
      /\ outcomeBar'[t] = IF local'[t] \in {"none", "active"} THEN "undecided" ELSE local'[t]
    BY DEF outcomeBar
<1>4. CASE /\ local[t] = "active" /\ local'[t] = "committed"
           /\ \E b \in Backends : LocalCommit(b) /\ cur[b] = t
  <2>1. PICK b \in Backends : LocalCommit(b) /\ cur[b] = t
    BY <1>4
  <2>2. \A w \in plan[t].parts : work[w][t] = "prepared"
    BY <2>1, CommitsPrepared
  <2>3. \A w \in Workers : partBar[t][w] \in {"out", "prepared"}
    BY <2>2 DEF partBar, PartBar
  <2> QED BY <1>3, <1>4, <2>3 DEF AC!Decide
<1>5. CASE local'[t] = local[t]
    BY <1>3, <1>5 DEF AC!Decide
<1>6. CASE \/ local[t] = "none" /\ local'[t] = "active"
           \/ local[t] = "active" /\ local'[t] = "aborted"
    BY <1>3, <1>6 DEF AC!Decide
<1> QED BY <1>2, <1>4, <1>5, <1>6 DEF OutcomeSteps

(* So do the parts.                                                        *)
LEMMA MoveStep ==
    ASSUME Layers, TypeInv', "lateRenew" \notin Faults, dirty = {}, Next, NEW t \in Txns,
           NEW w \in Workers
    PROVE  AC!Move(t, w)
<1>1. TypeInv /\ Control /\ Statuses
    BY DEF Layers
<1>2. outcomeBar[t] = IF local[t] \in {"none", "active"} THEN "undecided" ELSE local[t]
    BY DEF outcomeBar
<1>3. /\ partBar[t][w] = IF w \in plan[t].parts THEN PartBar(work[w][t]) ELSE "out"
      /\ partBar'[t][w] = IF w \in plan'[t].parts THEN PartBar(work'[w][t]) ELSE "out"
    BY DEF partBar
<1>4. CASE /\ local[t] = "none" /\ plan[t].parts = {}
           /\ work'[w][t] = "none"
    BY <1>2, <1>3, <1>4 DEF AC!Move, PartBar
<1>5. CASE plan'[t] = plan[t] /\ w \notin plan[t].parts
    BY <1>3, <1>5 DEF AC!Move
<1>6. CASE plan'[t] = plan[t] /\ w \in plan[t].parts
  <2>1. PartSteps(w, t)
    BY <1>6, EveryPartSteps
  <2>2. partBar[t][w] = PartBar(work[w][t]) /\ partBar'[t][w] = PartBar(work'[w][t])
    BY <1>3, <1>6
  <2>3. CASE work'[w][t] = work[w][t]
    BY <2>2, <2>3 DEF AC!Move
  <2>4. CASE work[w][t] = "none" /\ work'[w][t] \in {"open", "aborted"}
    BY <2>2, <2>4 DEF AC!Move, PartBar
  <2>5. CASE work[w][t] = "open" /\ work'[w][t] \in {"prepared", "aborted"}
    BY <2>2, <2>5 DEF AC!Move, PartBar
  <2>6. CASE work[w][t] = "prepared" /\ work'[w][t] = "committed" /\ local[t] = "committed"
    BY <1>2, <2>2, <2>6 DEF AC!Move, PartBar
  <2>7. CASE work[w][t] = "prepared" /\ work'[w][t] = "aborted" /\ local[t] = "aborted"
    BY <1>2, <2>2, <2>7 DEF AC!Move, PartBar
  <2> QED BY <2>1, <2>3, <2>4, <2>5, <2>6, <2>7 DEF PartSteps
<1> QED BY <1>1, <1>4, <1>5, <1>6, PlanSteps

(* The initial states.                                                     *)
LEMMA InitBar ==
    ASSUME Init
    PROVE  AC!Init /\ Pristine
<1>1. outcomeBar = [t \in Txns |-> "undecided"]
    BY DEF Init, outcomeBar
<1>2. \A t \in Txns : plan[t].parts = {}
    BY DEF Init, NoPlan
<1>3. partBar = [t \in Txns |-> [w \in Workers |-> "out"]]
    BY <1>2 DEF partBar
<1>4. Pristine
    BY DEF Init, Pristine, Quiet
<1> QED BY <1>1, <1>3, <1>4 DEF AC!Init

(* One step.                                                               *)
LEMMA RefinementStep ==
    ASSUME AllTwoPhase, IInv, Pristine, dirty = {}, [Next]_vars
    PROVE  Pristine' /\ [AC!Next]_<<outcomeBar, partBar>>
<1>1. Layers /\ "lateRenew" \notin Faults
    BY InvBound DEF Layers, IInv, AllTwoPhase
<1>2. CASE Next
  <2>1. TypeInv'
    BY <1>1, TypeStep DEF Layers
  <2>2. Pristine'
    BY <1>1, <1>2, <2>1, PristineStep
  <2>3. AC!Next
    BY <1>1, <1>2, <2>1, BarTypes, DecideStep, MoveStep DEF AC!Next
  <2> QED BY <2>2, <2>3
<1>3. CASE UNCHANGED vars
  <2>1. UNCHANGED <<pc, cur, chan, plan, local, work, twoPhase>>
    BY <1>3 DEF vars, backendVars, connVars, history
  <2>2. UNCHANGED <<outcomeBar, partBar>>
    BY <2>1 DEF outcomeBar, partBar
  <2>3. Pristine'
    BY <2>1 DEF Pristine
  <2> QED BY <2>2, <2>3
<1> QED BY <1>2, <1>3

(* A behaviour in which every transaction finds its connections clean      *)
(* implements atomic commitment, whatever fails and whenever the daemon    *)
(* runs, for operations that write on two servers or more                  *)
(* (remote_comm_falcon.c, transaction.c, transaction_cleanup.c).           *)
THEOREM CleanRefinement ==
    ASSUME AllTwoPhase
    PROVE  Spec /\ [](dirty = {}) => ImplementsAtomicCommit
<1>1. Init => AC!Init /\ Pristine
    BY InitBar
<1>2. IInv /\ Pristine /\ dirty = {} /\ [Next]_vars
         => Pristine' /\ [AC!Next]_<<outcomeBar, partBar>>
    BY RefinementStep
<1>3. Spec => []IInv
    BY Invariance
<1> QED BY <1>1, <1>2, <1>3, PTL DEF Spec, ImplementsAtomicCommit, AC!Spec

-----------------------------------------------------------------------------
\* A backend that has run nothing, or is about to run its first transaction,
\* has clean connections only.
FirstUse ==
    /\ \A b \in Backends : ran[b] = 0 => pc[b] = "idle"
    /\ \A b \in Backends : ran[b] = 0 \/ pc[b] = "begin" =>
          \A w \in Workers : tstate[b][w] = "NONE"
    /\ dirty = {}

(* With one transaction for each backend no connection is used twice.      *)
LEMMA FirstUseStep ==
    ASSUME MaxPerBackend <= 1, TypeInv, TypeInv', Control, FirstUse, [Next]_vars
    PROVE  FirstUse'
<1>0. ASSUME UNCHANGED <<pc, ran, tstate, dirty>> PROVE FirstUse'
    BY <1>0 DEF FirstUse
<1>1. CASE UNCHANGED vars
    BY <1>0, <1>1 DEF vars, backendVars, connVars, history
<1>2. ASSUME NEW b \in Backends, Moves(b) PROVE FirstUse'
  <2>1. /\ ran' = ran /\ pc[b] # "idle"
        /\ \A c \in Backends \ {b} : /\ pc'[c] = pc[c]
                                     /\ \A w \in Workers : tstate'[c][w] = tstate[c][w]
    <3>1. ran' = ran
      BY <1>2, MovesOf DEF MovesAre, SendExec, PreCommit, PostCommit, Abort, FetchExec,
         FetchPrepare, FetchCommit, FetchRollback, PreCommitSendFails, PostCommitSendFails,
         LocalCommit, LocalError, Finish
    <3> QED BY <1>2, <3>1, MovesOneBackend
  <2>2. pc'[b] # "begin"
    <3>1. \E s \in PcType \ {"begin"} : Goto(b, s)
      BY <1>2, MovesOf DEF MovesAre, SendExec, PreCommit, PostCommit, Abort, FetchExec,
         FetchPrepare, FetchCommit, FetchRollback, PreCommitSendFails, PostCommitSendFails,
         LocalCommit, LocalError, Finish, PcType
    <3> QED BY <3>1 DEF Goto, TypeInv, TypeOK
  <2>3. ran[b] # 0
    BY <2>1 DEF FirstUse
  <2>4. dirty' = {}
    <3>1. ASSUME NEW R \in SUBSET Workers, SendExec(b, R) PROVE dirty' = {}
      <4>1. pc[b] = "begin" /\ cur[b] \in Txns
        BY <3>1 DEF SendExec, TypeInv, Bound
      <4>2. Parts(b) \subseteq Workers
        BY <4>1, PartsType DEF TypeInv
      <4>3. \A w \in Parts(b) : Connected(b, R)[w] = "NONE"
        BY <4>1, <4>2 DEF Connected, FirstUse
      <4> QED BY <3>1, <4>3 DEF SendExec, FirstUse
    <3>2. ASSUME \A R \in SUBSET Workers : ~ SendExec(b, R) PROVE dirty' = dirty
      BY <1>2, <3>2, MovesOf DEF MovesAre, PreCommit, PostCommit, Abort, FetchExec,
         FetchPrepare, FetchCommit, FetchRollback, PreCommitSendFails, PostCommitSendFails,
         LocalCommit, LocalError, Finish, history
    <3> QED BY <3>1, <3>2 DEF FirstUse
  <2> QED BY <2>1, <2>2, <2>3, <2>4 DEF FirstUse
<1>3. ASSUME NEW b \in Backends, NEW t \in Txns, NEW p \in Plans, Begin(b, t, p)
      PROVE  FirstUse'
  <2>1. ran[b] = 0
    BY <1>3, ConstantsOK DEF Begin, TypeInv, TypeOK
  <2>2. \A w \in Workers : tstate[b][w] = "NONE"
    BY <2>1 DEF FirstUse
  <2>3. /\ UNCHANGED <<tstate, dirty>> /\ ran'[b] # 0
        /\ \A c \in Backends \ {b} : pc'[c] = pc[c] /\ ran'[c] = ran[c]
    BY <1>3, <2>1 DEF Begin, Goto, connVars, history, TypeInv, TypeOK
  <2> QED BY <2>2, <2>3 DEF FirstUse
<1>4. CASE Crash
    BY <1>4 DEF Crash, FirstUse, history
<1>5. ASSUME NEW b \in Backends, NEW v \in Workers, Serves(b, v) PROVE FirstUse'
    BY <1>0, <1>5 DEF Serves, Answer, WorkerFails, ConnBreak, backendVars, history
<1>6. ASSUME NEW o, OrphanRun(o) \/ OrphanDrop(o) PROVE FirstUse'
    BY <1>0, <1>6 DEF OrphanRun, OrphanDrop, backendVars, history
<1>7. CASE Daemon \/ DaemonFails
  <2>1. UNCHANGED <<backendVars, tstate, history>>
    BY <1>7 DEF Daemon, DaemonFails, CleanStart, ReadA, ReadB, ReadC, ReadD, CleanEnd, ScanC,
       SweepA, CleanAbort, CleanFail, CleanLose, cleanerOnly, connVars
  <2> QED BY <1>0, <2>1 DEF backendVars, history
<1> QED BY <1>1, <1>2, <1>3, <1>4, <1>5, <1>6, <1>7 DEF Next, Moves, Serves, OrphanResolved

(* The protocol implements atomic commitment when each backend runs one    *)
(* transaction on new connections (FalconTransactionCallback,              *)
(* remote_comm_falcon.c and transaction_cleanup.c together).               *)
THEOREM RefinementHolds ==
    ASSUME AllTwoPhase, MaxPerBackend <= 1
    PROVE  Spec => ImplementsAtomicCommit
<1>1. Init => FirstUse
    BY DEF Init, FirstUse
<1>2. IInv /\ FirstUse /\ [Next]_vars => FirstUse'
  <2> SUFFICES ASSUME IInv, FirstUse, [Next]_vars PROVE FirstUse'
    OBVIOUS
  <2>1. TypeInv /\ Control
    BY InvBound DEF IInv
  <2>2. TypeInv'
    BY <2>1, TypeStep
  <2> QED BY <2>1, <2>2, FirstUseStep
<1>3. FirstUse => dirty = {}
    BY DEF FirstUse
<1> QED BY <1>1, <1>2, <1>3, Invariance, CleanRefinement, PTL DEF Spec
=============================================================================
