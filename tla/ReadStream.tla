----------------------------- MODULE ReadStream -----------------------------
(***************************************************************************)
(* The prefetching of a large remote file that is read through one open    *)
(* instance (common/src/read_stream/read_stream.cpp), and the control of   *)
(* it by FalconStore::ReadFile, WriteFile and CloseTmpFiles                *)
(* (falcon_store/src/falcon_store/falcon_store.cpp).                       *)
(*                                                                         *)
(* The file is FileSize units long and a block has Cap of them.  Thread i  *)
(* fills pipe i with the blocks i, i + pipeNum, i + 2 * pipeNum ..., and   *)
(* readers empty the pipes in turn.  A pipe's data is its offset in the    *)
(* file.  What is done under a pipe's mutex is one action, except that the *)
(* test of a condition and the wait that follows are two: "block" is in    *)
(* between, with the mutex held, and a change made without the mutex can   *)
(* come there.  Spurious wake-ups are not needed by anybody and left out.  *)
(***************************************************************************)
EXTENDS Integers, FiniteSets, FiniteSetsExt

CONSTANTS
    Readers,      \* threads that read through the open instance
    FileSize,     \* currentSize, in units
    Cap,          \* pipeCap, FALCON_BLOCK_SIZE in units
    QueueSize,    \* QUEUE_SIZE
    ReadSize,     \* how much a read asks for
    MaxReads,     \* bound: reads of one thread
    Faults        \* "start": no prefetching; "read": ReadFileLR fails;
                  \* "write": a write stops the stream

ASSUME ConstantsOK ==
    /\ {FileSize, Cap, QueueSize, ReadSize} \subseteq Nat \ {0}
    /\ MaxReads \in Nat
    /\ Faults \subseteq {"start", "read", "write"}

VARIABLES
    pc,           \* of the readers, the writer and the closer
    off,          \* the offset a reader asked for
    got,          \* what WaitPop has copied for it so far
    reads,        \* how many reads it has done
    started,      \* preReadStarted
    direct,       \* directReadFile, and preReadStopped with it
    serial,       \* serialReadEnd
    fileMx,       \* who has fileMutex
    pipeMx,       \* who has the stream's pipeMutex
    streamStop,   \* ReadStream::stop
    stopOffset,   \* ReadStream::stopOffset
    pipeIndex,    \* ReadStream::pipeIndex
    pipeNum,      \* ReadStream::pipeNum
    toStop,       \* the pipes StopPushThreaded has not destroyed yet
    pipe,         \* the pipes
    push,         \* the threads that fill them
    broken        \* history: a read error was handed to a reader

callVars == <<off, got, reads>>
storeVars == <<started, direct, serial, fileMx>>
streamVars == <<pipeMx, streamStop, stopOffset, pipeIndex, pipeNum, toStop>>
vars == <<pc, callVars, storeVars, streamVars, pipe, push, broken>>

Writer == "writer"
Closer == "closer"
Nobody == "nobody"
Actors == Readers \cup {Writer, Closer}

ASSUME ReadersOK == Readers \cap {Writer, Closer, Nobody} = {}

Pipes == 0 .. QueueSize - 1

Error == -1           \* a negative size or result

Infinity == FileSize + 3 * QueueSize * Cap     \* stopOffset as it starts

Far == Infinity - 1   \* a thread's offset is not followed any further

Destroyed == [capacity |-> 0, size |-> 0, index |-> 0, stop |-> TRUE, base |-> 0]

TypeOK ==
    /\ pc \in [Actors -> {"idle", "begin", "failed", "start", "check", "lock",
                          "pop", "popping", "block", "wait", "random", "stop",
                          "stopping", "join", "closed"}]
    /\ off \in [Readers -> 0 .. FileSize]
    /\ got \in [Readers -> 0 .. ReadSize]
    /\ reads \in [Readers -> 0 .. MaxReads]
    /\ started \in BOOLEAN /\ direct \in BOOLEAN
    /\ serial \in 0 .. FileSize
    /\ fileMx \in Actors \cup {Nobody} /\ pipeMx \in Actors \cup {Nobody}
    /\ streamStop \in BOOLEAN
    /\ stopOffset \in 0 .. Infinity
    /\ pipeNum \in 0 .. QueueSize /\ pipeIndex \in Pipes
    /\ toStop \subseteq Pipes
    /\ pipe \in [Pipes -> [capacity: {0, Cap}, size: Error .. Cap, index: 0 .. Cap,
                           stop: BOOLEAN, base: 0 .. Far]]
    /\ push \in [Pipes -> [at: {"none", "loop", "push", "block", "wait", "pushed",
                                "exit", "notify", "ended"},
                           off: 0 .. Far, ret: Error .. Cap]]
    /\ broken \in BOOLEAN

Init ==
    /\ pc = [a \in Actors |-> "idle"]
    /\ off = [r \in Readers |-> 0]
    /\ got = [r \in Readers |-> 0]
    /\ reads = [r \in Readers |-> 0]
    /\ started = FALSE /\ direct = FALSE
    /\ serial = 0
    /\ fileMx = Nobody /\ pipeMx = Nobody
    /\ streamStop = TRUE
    /\ stopOffset = Infinity
    /\ pipeIndex = 0 /\ pipeNum = 0
    /\ toStop = {}
    /\ pipe = [i \in Pipes |-> Destroyed]
    /\ push = [i \in Pipes |-> [at |-> "none", off |-> 0, ret |-> 0]]
    /\ broken = FALSE

-----------------------------------------------------------------------------
Goto(a, step) == pc' = [pc EXCEPT ![a] = step]

\* What a read of n units at offset o gives when all goes well.
Available(o, n) == IF o >= FileSize THEN 0 ELSE Min({n, FileSize - o})

\* readCV.notify_all and writeCV.notify_all of pipe i.
WokenReaders(i) ==
    [a \in Actors |-> IF pc[a] = "wait" /\ pipeIndex = i THEN "popping" ELSE pc[a]]

WokenThread(i) == IF push[i].at = "wait" THEN [push[i] EXCEPT !.at = "push"] ELSE push[i]

-----------------------------------------------------------------------------
(* FalconStore::ReadFile of a large file.  The first caller starts the     *)
(* prefetching.                                                            *)
Read(r, o) ==
    /\ pc[r] = "idle" /\ pc[Closer] = "idle"
    /\ reads[r] < MaxReads
    /\ off' = [off EXCEPT ![r] = o]
    /\ reads' = [reads EXCEPT ![r] = @ + 1]
    /\ started' = TRUE
    /\ Goto(r, IF started THEN "check" ELSE "begin")
    /\ UNCHANGED <<got, direct, serial, fileMx, streamVars, pipe, push, broken>>

NeededPipes == Min({(FileSize + Cap - 1) \div Cap, QueueSize})

(* ReadStream::Init.                                                       *)
StreamInit(r) ==
    /\ pc[r] = "begin" /\ pipeMx = Nobody
    /\ pipeNum' = NeededPipes
    /\ streamStop' = FALSE
    /\ pipe' = [i \in Pipes |->
          IF i < NeededPipes
            THEN [capacity |-> Cap, size |-> Cap, index |-> Cap,
                  stop |-> FALSE, base |-> 0]
            ELSE pipe[i]]
    /\ Goto(r, "start")
    /\ UNCHANGED <<callVars, storeVars, pipeMx, stopOffset, pipeIndex, toStop, push,
                   broken>>

(* The same without memory: the stream counts as running, on pipes that    *)
(* were never filled, until its caller stops it.                           *)
StreamInitFails(r) ==
    /\ pc[r] = "begin" /\ pipeMx = Nobody
    /\ "start" \in Faults
    /\ pipeNum' = NeededPipes
    /\ streamStop' = FALSE
    /\ Goto(r, "failed")
    /\ UNCHANGED <<callVars, storeVars, pipeMx, stopOffset, pipeIndex, toStop, pipe,
                   push, broken>>

(* No prefetching, since Init failed or the file is on this node:          *)
(* StopPreReadThreaded.                                                    *)
NotStarted(r) ==
    /\ pc[r] = "failed" \/ (pc[r] = "begin" /\ "start" \in Faults)
    /\ direct' = TRUE
    /\ Goto(r, "stop")
    /\ UNCHANGED <<callVars, started, serial, fileMx, streamVars, pipe, push, broken>>

(* ReadStream::StartPushThreaded.                                          *)
StartPushThreaded(r) ==
    /\ pc[r] = "start" /\ pipeMx = Nobody
    /\ push' = [i \in Pipes |-> IF i < pipeNum
                                  THEN [at |-> "loop", off |-> i * Cap, ret |-> 0]
                                  ELSE push[i]]
    /\ Goto(r, "check")
    /\ UNCHANGED <<callVars, storeVars, streamVars, pipe, broken>>

(* ReadToBuffer: the first look at directReadFile is without a lock.       *)
Check(r) ==
    /\ pc[r] = "check"
    /\ Goto(r, IF direct THEN "random" ELSE "lock")
    /\ UNCHANGED <<callVars, storeVars, streamVars, pipe, push, broken>>

(* Under fileMutex: a read that is not the next one in order stops the     *)
(* prefetching.                                                            *)
Lock(r) ==
    /\ pc[r] = "lock" /\ fileMx = Nobody
    /\ fileMx' = r
    /\ IF direct \/ serial # off[r]
         THEN direct' = TRUE /\ Goto(r, "stop")
         ELSE UNCHANGED direct /\ Goto(r, "pop")
    /\ UNCHANGED <<callVars, started, serial, streamVars, pipe, push, broken>>

\* ReadFile returns.
Finish(r) ==
    /\ off' = [off EXCEPT ![r] = 0]
    /\ got' = [got EXCEPT ![r] = 0]
    /\ Goto(r, "idle")

(* RandomRead: ReadFileLR at the reader's own offset, without the stream.  *)
RandomRead(r) ==
    /\ pc[r] = "random"
    /\ Finish(r)
    /\ UNCHANGED <<reads, storeVars, streamVars, pipe, push, broken>>

-----------------------------------------------------------------------------
(* ReadStream::WaitPop, called by SequenceRead with fileMutex held.        *)
WaitPop(r) ==
    /\ pc[r] = "pop" /\ pipeMx = Nobody
    /\ pipeMx' = r
    /\ Goto(r, "popping")
    /\ UNCHANGED <<callVars, storeVars, streamStop, stopOffset, pipeIndex, pipeNum,
                   toStop, pipe, push, broken>>

\* It returns, and with it SequenceRead and ReadFile.
PopReturns(r, result) ==
    /\ Finish(r)
    /\ serial' = IF result > 0 THEN serial + result ELSE serial
    /\ fileMx' = Nobody /\ pipeMx' = Nobody

(* The loop has all it wants, or the stream is stopped.                    *)
PopEnough(r) ==
    /\ pc[r] = "popping"
    /\ streamStop \/ got[r] = ReadSize
    /\ PopReturns(r, got[r])
    /\ UNCHANGED <<reads, started, direct, streamStop, stopOffset, pipeIndex, pipeNum,
                   toStop, pipe, push, broken>>

\* Inside Pipe::WaitPop of the current pipe, which no thread has locked.
AtPipe(r) ==
    /\ pc[r] = "popping"
    /\ ~ streamStop /\ got[r] # ReadSize
    /\ push[pipeIndex].at # "block"

(* Nothing to pop yet: the condition of readCV is false.                   *)
PopMustWait(r) ==
    LET p == pipe[pipeIndex] IN
    /\ AtPipe(r)
    /\ p.index = p.size /\ p.size > 0 /\ ~ p.stop
    /\ Goto(r, "block")
    /\ UNCHANGED <<callVars, storeVars, streamVars, pipe, push, broken>>

PopBlock(r) ==
    /\ pc[r] = "block"
    /\ Goto(r, "wait")
    /\ UNCHANGED <<callVars, storeVars, streamVars, pipe, push, broken>>

(* A read error, the end of the file, or a pipe that nobody fills again.   *)
PopEnds(r) ==
    LET p == pipe[pipeIndex] IN
    /\ AtPipe(r)
    /\ p.size <= 0 \/ (p.index = p.size /\ p.stop)
    /\ pipe' = [pipe EXCEPT ![pipeIndex] = Destroyed]
    /\ PopReturns(r, IF p.size < 0 THEN Error ELSE got[r])
    /\ broken' = (broken \/ p.size < 0)
    /\ UNCHANGED <<reads, started, direct, streamStop, stopOffset, pipeIndex, pipeNum,
                   toStop, push>>

\* Mutant: the index of the pipe does not move on.
PopDataSamePipe(r) ==
    LET i == pipeIndex
        p == pipe[i]
        n == Min({ReadSize - got[r], p.size - p.index})
    IN
    /\ AtPipe(r)
    /\ p.size > 0 /\ p.index # p.size
    /\ got' = [got EXCEPT ![r] = @ + n]
    /\ pipe' = [pipe EXCEPT ![i].index = @ + n]
    /\ push' = IF p.index + n = p.size THEN [push EXCEPT ![i] = WokenThread(i)] ELSE push
    /\ UNCHANGED <<pc, off, reads, storeVars, streamVars, broken>>

(* Data: when the pipe is empty afterwards its thread is woken, and the    *)
(* next pipe is next.                                                      *)
PopData(r) ==
    LET i == pipeIndex
        p == pipe[i]
        n == Min({ReadSize - got[r], p.size - p.index})
        all == p.index + n = p.size
    IN
    /\ AtPipe(r)
    /\ p.size > 0 /\ p.index # p.size
    /\ got' = [got EXCEPT ![r] = @ + n]
    /\ pipe' = [pipe EXCEPT ![i] = IF all /\ p.stop THEN Destroyed
                                   ELSE [p EXCEPT !.index = @ + n]]
    /\ pipeIndex' = IF all THEN (i + 1) % pipeNum ELSE i
    /\ push' = IF all THEN [push EXCEPT ![i] = WokenThread(i)] ELSE push
    /\ UNCHANGED <<pc, off, reads, storeVars, pipeMx, streamStop, stopOffset,
                   pipeNum, toStop, broken>>

-----------------------------------------------------------------------------
(* The thread of pipe i: the head of its loop.                             *)
PushLoop(i) ==
    /\ push[i].at = "loop"
    /\ push' = [push EXCEPT ![i].at =
          IF ~ streamStop /\ push[i].off < stopOffset THEN "push" ELSE "exit"]
    /\ UNCHANGED <<pc, callVars, storeVars, streamVars, pipe, broken>>

\* Pipe::WaitPush of pipe i, which no reader has locked.
AtPush(i) ==
    /\ push[i].at = "push"
    /\ ~ \E r \in Readers : pc[r] = "block" /\ pipeIndex = i

PushMustWait(i) ==
    /\ AtPush(i)
    /\ pipe[i].index # pipe[i].size /\ ~ pipe[i].stop
    /\ push' = [push EXCEPT ![i].at = "block"]
    /\ UNCHANGED <<pc, callVars, storeVars, streamVars, pipe, broken>>

PushBlock(i) ==
    /\ push[i].at = "block"
    /\ push' = [push EXCEPT ![i].at = "wait"]
    /\ UNCHANGED <<pc, callVars, storeVars, streamVars, pipe, broken>>

PushStopped(i) ==
    /\ AtPush(i)
    /\ pipe[i].stop
    /\ pc' = WokenReaders(i)
    /\ push' = [push EXCEPT ![i].at = "pushed", ![i].ret = 0]
    /\ UNCHANGED <<callVars, storeVars, streamVars, pipe, broken>>

(* The pipe is empty: ReadFileLR fills it.                                 *)
PushData(i) ==
    /\ AtPush(i)
    /\ pipe[i].index = pipe[i].size /\ ~ pipe[i].stop
    /\ \E n \in {Available(push[i].off, pipe[i].capacity)}
                  \cup (IF "read" \in Faults THEN {Error} ELSE {}) :
          /\ pipe' = [pipe EXCEPT ![i].index = 0, ![i].size = n,
                                  ![i].base = push[i].off]
          /\ push' = [push EXCEPT ![i].at = "pushed", ![i].ret = n]
    /\ pc' = WokenReaders(i)
    /\ UNCHANGED <<callVars, storeVars, streamVars, broken>>

\* Mutant: what stops the other threads is not the offset of the short block.
PushedStopsAll(i) ==
    LET p == push[i] IN
    /\ p.at = "pushed"
    /\ IF p.ret # pipe[i].capacity
         THEN /\ stopOffset' = 0
              /\ push' = [push EXCEPT ![i].at = "exit"]
         ELSE /\ push' = [push EXCEPT ![i].at = "loop",
                                      ![i].off = Min({@ + pipeNum * Cap, Far})]
              /\ UNCHANGED stopOffset
    /\ UNCHANGED <<pc, callVars, storeVars, pipeMx, streamStop, pipeIndex, pipeNum,
                   toStop, pipe, broken>>

(* Less than a block is an error or the end of the file, and ends the      *)
(* other threads too.  The capacity is read without the mutex: a reader    *)
(* may have destroyed the pipe.                                            *)
Pushed(i) ==
    LET p == push[i] IN
    /\ p.at = "pushed"
    /\ IF p.ret # pipe[i].capacity
         THEN /\ stopOffset' = p.off
              /\ push' = [push EXCEPT ![i].at = "exit"]
         ELSE /\ push' = [push EXCEPT ![i].at = "loop",
                                      ![i].off = Min({@ + pipeNum * Cap, Far})]
              /\ UNCHANGED stopOffset
    /\ UNCHANGED <<pc, callVars, storeVars, pipeMx, streamStop, pipeIndex, pipeNum,
                   toStop, pipe, broken>>

(* The thread ends: it sets the pipe's stop and notifies, both without the *)
(* mutex.                                                                  *)
PushExit(i) ==
    /\ push[i].at = "exit"
    /\ pipe' = [pipe EXCEPT ![i].stop = TRUE]
    /\ push' = [push EXCEPT ![i].at = "notify"]
    /\ UNCHANGED <<pc, callVars, storeVars, streamVars, broken>>

PushNotify(i) ==
    /\ push[i].at = "notify"
    /\ pc' = WokenReaders(i)
    /\ push' = [push EXCEPT ![i].at = "ended"]
    /\ UNCHANGED <<callVars, storeVars, streamVars, pipe, broken>>

-----------------------------------------------------------------------------
(* A write stops the prefetching, and so does the close of the file, which *)
(* comes after the last read and write.                                    *)
Write ==
    /\ "write" \in Faults
    /\ pc[Writer] = "idle" /\ pc[Closer] = "idle"
    /\ started /\ ~ direct
    /\ direct' = TRUE
    /\ Goto(Writer, "stop")
    /\ UNCHANGED <<callVars, started, serial, fileMx, streamVars, pipe, push, broken>>

Close ==
    /\ \A a \in Actors : pc[a] = "idle"
    /\ direct' = TRUE
    /\ Goto(Closer, "stop")
    /\ UNCHANGED <<callVars, started, serial, fileMx, streamVars, pipe, push, broken>>

(* ReadStream::StopPushThreaded: first the stream, then pipe after pipe.   *)
StopPushThreaded(a) ==
    /\ pc[a] = "stop" /\ pipeMx = Nobody
    /\ pipeMx' = a
    /\ streamStop' = TRUE
    /\ toStop' = {i \in Pipes : i < pipeNum}
    /\ Goto(a, "stopping")
    /\ UNCHANGED <<callVars, storeVars, stopOffset, pipeIndex, pipeNum, pipe, push,
                   broken>>

\* Mutant: the thread that waits for its pipe to be emptied is not notified.
StopPipeSilently(a, i) ==
    /\ pc[a] = "stopping" /\ i \in toStop
    /\ push[i].at # "block"
    /\ pipe' = [pipe EXCEPT ![i] = Destroyed]
    /\ toStop' = toStop \ {i}
    /\ UNCHANGED <<pc, callVars, storeVars, pipeMx, streamStop, stopOffset, pipeIndex,
                   pipeNum, push, broken>>

StopPipe(a, i) ==
    /\ pc[a] = "stopping" /\ i \in toStop
    /\ push[i].at # "block"
    /\ pipe' = [pipe EXCEPT ![i] = Destroyed]
    /\ push' = [push EXCEPT ![i] = WokenThread(i)]
    /\ toStop' = toStop \ {i}
    /\ UNCHANGED <<pc, callVars, storeVars, pipeMx, streamStop, stopOffset, pipeIndex,
                   pipeNum, broken>>

\* A reader then reads for itself, the closer waits for the threads.
StopReturns(a) ==
    /\ pc[a] = "stopping" /\ toStop = {}
    /\ pipeMx' = Nobody
    /\ fileMx' = IF fileMx = a THEN Nobody ELSE fileMx
    /\ Goto(a, IF a = Closer THEN "join" ELSE IF a = Writer THEN "idle" ELSE
               IF fileMx = a THEN "random" ELSE "check")
    /\ UNCHANGED <<callVars, started, direct, serial, streamStop, stopOffset, pipeIndex,
                   pipeNum, toStop, pipe, push, broken>>

(* ReadStream::WaitPushEnded.                                              *)
WaitPushEnded ==
    /\ pc[Closer] = "join"
    /\ \A i \in Pipes : push[i].at \in {"none", "ended"}
    /\ Goto(Closer, "closed")
    /\ UNCHANGED <<callVars, storeVars, streamVars, pipe, push, broken>>

-----------------------------------------------------------------------------
ReadStep(r) ==
    \/ StreamInit(r) \/ StreamInitFails(r) \/ NotStarted(r) \/ StartPushThreaded(r)
    \/ Check(r) \/ Lock(r) \/ RandomRead(r) \/ WaitPop(r) \/ PopEnough(r) \/ PopMustWait(r) \/ PopBlock(r)
    \/ PopEnds(r) \/ PopData(r)

PushStep(i) ==
    \/ PushLoop(i) \/ PushMustWait(i) \/ PushBlock(i) \/ PushStopped(i) \/ PushData(i)
    \/ Pushed(i) \/ PushExit(i) \/ PushNotify(i)

StopStep(a) ==
    \/ StopPushThreaded(a) \/ (\E i \in Pipes : StopPipe(a, i)) \/ StopReturns(a)

\* Reads are aligned with one another, as the kernel's are.
Offsets == {o \in 0 .. FileSize : o % ReadSize = 0}

Next ==
    \/ \E r \in Readers, o \in Offsets : Read(r, o)
    \/ \E r \in Readers : ReadStep(r)
    \/ \E i \in Pipes : PushStep(i)
    \/ \E a \in Actors : StopStep(a)
    \/ Write \/ Close \/ WaitPushEnded

Spec == Init /\ [][Next]_vars

(* Threads run.                                                            *)
FairSpec ==
    /\ Spec
    /\ \A r \in Readers : WF_vars(ReadStep(r))
    /\ \A i \in Pipes : WF_vars(PushStep(i))
    /\ \A a \in Actors : WF_vars(StopStep(a))
    /\ WF_vars(WaitPushEnded)

-----------------------------------------------------------------------------
\* How much of the current read has been popped already.
Taken == IF \E r \in Readers : pipeMx = r THEN got[pipeMx] ELSE 0

(* The data that comes next is the data at the reader's position, and what *)
(* the other pipes hold are the blocks that follow: the threads fill the   *)
(* pipes independently, and only the order in which addPipeIndex visits    *)
(* them puts the file together.  The bytes a read has taken before it      *)
(* found the stream broken or stopped are lost to the next one, which is   *)
(* not served from the stream any more.                                    *)
InOrder ==
    ~ streamStop /\ ~ broken =>
        LET pos == serial + Taken IN
        \A i \in 0 .. pipeNum - 1 :
            LET p == pipe[i]
                d == (i - pipeIndex + pipeNum) % pipeNum   \* turns until pipe i
            IN  p.size > 0 /\ p.index # p.size
                  => p.base + (IF d = 0 THEN p.index ELSE 0)
                        = IF d = 0 THEN pos ELSE (pos \div Cap + d) * Cap

Inv == TypeOK /\ InOrder

\* The prefetching has been started and not been stopped.
Prefetching == ~ streamStop /\ \A i \in 0 .. pipeNum - 1 : push[i].at # "none"

(* A read that the stream serves while the threads prefetch ends early     *)
(* only at the end of the file, unless a read met an error (stopOffset,    *)
(* set by the thread that meets the end first, must not keep data before   *)
(* it from being pushed; StartPushThreaded).                               *)
EndIsReal ==
    [][\A r \in Readers :
          pc[r] = "popping" /\ pc'[r] = "idle" /\ Prefetching /\ ~ broken'
            => got[r] = Available(off[r], ReadSize)]_vars

(* Closing a file ends: every prefetching thread, wherever it is in its    *)
(* loop, notices the stop (StopPushThreaded and WaitPushEnded in           *)
(* CloseTmpFiles).                                                         *)
CloseEnds == pc[Closer] = "stop" ~> pc[Closer] = "closed"

(* Every read returns: there is data, or the reader is woken when there    *)
(* will be no more ("no data will be pushed to pipe later, wake up         *)
(* reader", read_stream.cpp:206).                                          *)
ReadReturns == \A r \in Readers : pc[r] # "idle" ~> pc[r] = "idle"

-----------------------------------------------------------------------------
(* Why the data is in order and only the end of the file ends a read: what *)
(* the proofs add to InOrder and EndIsReal.                                *)

Filled == 0 .. pipeNum - 1                       \* the pipes of the stream
Start(b) == b * Cap                              \* where block b starts
HasData(p) == p.size > 0 /\ p.index # p.size
Turns(i) == (i - pipeIndex + pipeNum) % pipeNum
Blocks(k) == [i \in Filled |-> k + Turns(i)]     \* when the reader is at block k

\* The same place in the file, or both behind its end.
SamePlace(x, y) == x = y \/ (x >= FileSize /\ y >= FileSize)

\* What the thread of a pipe for block b fetches next, of n pipes.
NextBlock(p, b, n) == IF HasData(p) THEN b + n ELSE b

\* A thread that has filled its pipe and not yet looked at the result.
Fetched(p, t, b, n) ==
    /\ t.ret = p.size
    /\ t.ret > 0 => t.off + Start(n) = Start(NextBlock(p, b, n))
    /\ t.ret <= 0 => SamePlace(t.off, Start(b))
    /\ t.ret = 0 => t.off >= FileSize
    /\ t.ret \in 0 .. Cap - 1 => t.off + Cap >= FileSize

\* Pipe i of n has, or its thread will fetch, block b.
PipeAt(p, t, i, b, n) ==
    /\ HasData(p) => p.base = Start(b) /\ p.base < FileSize /\ p.size = Available(p.base, Cap)
    /\ ~ p.stop =>
         /\ p.capacity = Cap
         /\ t.at = "none" => b = i /\ p.size > 0 /\ ~ HasData(p)
         /\ t.at \in {"loop", "push", "block", "wait"} =>
              p.size > 0 /\ SamePlace(t.off, Start(NextBlock(p, b, n)))
         /\ t.at = "pushed" => Fetched(p, t, b, n)

\* Block c is behind the end of the file, or an error comes before it.
Over(ps, bs, c) ==
    Start(c) >= FileSize \/ \E j \in DOMAIN bs : ps[j].size < 0 /\ bs[j] <= c

\* A thread ends, and stopOffset ends others, only where nothing is left to fetch.
EndAt(ps, t, stopAt, bs, i, n) ==
    LET c == NextBlock(ps[i], bs[i], n) IN
    /\ ps[i].stop => t.at \in {"exit", "notify", "ended"} \/ t.off >= FileSize
    /\ ps[i].stop \/ t.at \in {"exit", "notify", "ended"} => Over(ps, bs, c)
    /\ Start(c) >= stopAt => Over(ps, bs, c)

Ending(ps, ts, stopAt, bs, k, n) ==
    /\ \A i \in DOMAIN bs : EndAt(ps, ts[i], stopAt, bs, i, n)
    /\ \A c \in 0 .. FileSize : c >= k + n /\ Start(c) >= stopAt => Over(ps, bs, c)

\* The reader has come to block k.
Position(p, k) == IF HasData(p) THEN Start(k) + p.index ELSE Min({Start(k), FileSize})

Synced(k) ==
    /\ serial + Taken = Position(pipe[pipeIndex], k)
    /\ \A i \in Filled : PipeAt(pipe[i], push[i], i, Blocks(k)[i], pipeNum)
    /\ \A i \in Filled : i # pipeIndex /\ HasData(pipe[i]) => pipe[i].index = 0
    /\ Prefetching => Ending(pipe, push, stopOffset, Blocks(k), k, pipeNum)

\* The stream starts once, on pipes as Init left them.
StartsOnce ==
    /\ \A r \in Readers : pc[r] \in {"begin", "failed", "start"} =>
          started /\ \A i \in Pipes : push[i].at = "none"
    /\ \A r, s \in Readers : {pc[r], pc[s]} \subseteq {"begin", "failed", "start"} => r = s
    /\ \A r \in Readers : pc[r] = "begin" => pipeNum = 0
    /\ ~ started => pipeNum = 0
    /\ pipeNum = 0 => /\ streamStop /\ ~ broken /\ serial = 0 /\ pipeIndex = 0
                      /\ \A r \in Readers : got[r] = 0
                      /\ \A i \in Pipes : pipe[i] = Destroyed /\ push[i].at = "none"
    /\ \A i, j \in Filled : push[i].at = "none" => push[j].at = "none"
    /\ \A i \in Pipes \ Filled : push[i].at = "none"
    /\ (\A i \in Pipes : push[i].at = "none") => stopOffset = Infinity
    /\ \A r \in Readers : pc[r] = "start" /\ ~ streamStop =>
          \A i \in Filled : ~ pipe[i].stop /\ ~ HasData(pipe[i])

\* Whose the two mutexes are.
MutexesHeld ==
    /\ \A r \in Readers : pc[r] \in {"popping", "block", "wait"} => pipeMx = r
    /\ \A r \in Readers : pc[r] \in {"pop", "popping", "block", "wait"} =>
          fileMx = r /\ off[r] = serial
    /\ \A a \in Actors : pc[a] = "stopping" => pipeMx = a /\ streamStop
    /\ \A r \in Readers : got[r] # 0 => pc[r] \in {"popping", "block", "wait"}

StreamInv ==
    /\ serial + Taken <= FileSize
    /\ pipeNum > 0 => pipeIndex < pipeNum
    /\ \A i \in Pipes : pipe[i].size > 0 => pipe[i].index <= pipe[i].size
    /\ ~ streamStop /\ broken => pipe[pipeIndex] = Destroyed
    /\ ~ streamStop /\ ~ broken => \E k \in 0 .. FileSize : Synced(k)

StreamIInv == TypeOK /\ StartsOnce /\ MutexesHeld /\ StreamInv
=============================================================================
