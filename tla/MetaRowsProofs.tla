--------------------------- MODULE MetaRowsProofs ---------------------------
(***************************************************************************)
(* Proofs about MetaRows: for any number of backends, names, shards and    *)
(* requests, no update that has committed is lost and no slice id is given *)
(* out twice, a create is answered by what it publishes, and a listing     *)
(* that is read page by page has every name once.                          *)
(***************************************************************************)
EXTENDS MetaRows, FiniteSetTheorems, SequenceTheorems, TLAPS

USE DEF SliceId

\* What another session leaves alone.
SameBut(f, g, s) == DOMAIN g = Sessions /\ \A o \in Sessions \ {s} : g[o] = f[o]

\* A step of s that leaves the tables and the other sessions alone; what s writes
\* anew nobody else is writing.
Beside(s) ==
    /\ table' = table
    /\ \A o \in Sessions \ {s} :
         /\ own'[o] = own[o] /\ seen'[o] = seen[o] /\ pc'[o] = pc[o] /\ turn'[o] = turn[o]
         /\ answer'[o] = answer[o] /\ group'[o] = group[o] /\ ids'[o] = ids[o]
         /\ job'[o] = job[o] /\ cache'[o] = cache[o]
    /\ \A k \in DOMAIN own'[s] : k \in DOMAIN own[s] \/ Free(s, k)

\* A step of s that changes nothing but where s stands and what it has written
\* so far; what it writes anew nobody else is writing.
Local(s) ==
    /\ UNCHANGED <<table, job, ids, sequence, cache, granted, updated>>
    /\ SameBut(own, own', s) /\ SameBut(seen, seen', s) /\ SameBut(pc, pc', s)
    /\ SameBut(turn, turn', s) /\ SameBut(answer, answer', s) /\ SameBut(group, group', s)
    /\ \A k \in DOMAIN own'[s] : k \in DOMAIN own[s] \/ Free(s, k)
    /\ pc[s] \notin {"start", "done"} /\ pc'[s] # "start"

\* The keys of the tables are different from each other.
LEMMA KeysDiffer ==
    /\ SliceId \in Keys /\ SliceId \notin InodeKeys
    /\ InodeKeys \subseteq Keys /\ {"kv"} \X UserKeys \subseteq Keys
    /\ \A k \in {"kv"} \X UserKeys : k \notin InodeKeys /\ k # SliceId
    /\ \A n \in Names : InodeKey(n) \in InodeKeys
    /\ \A m, n \in Names : InodeKey(m) = InodeKey(n) => m = n
BY DEF Keys, InodeKeys, InodeKey

\* A step of one session leaves what holds of another one as it is.
LEMMA OthersStay ==
    ASSUME RowsInv, NEW s \in Sessions, NEW o \in Sessions \ {s}, Beside(s)
    PROVE  SessionInv(o)'
<1>1. /\ own'[o] = own[o] /\ seen'[o] = seen[o] /\ pc'[o] = pc[o] /\ turn'[o] = turn[o]
      /\ answer'[o] = answer[o] /\ group'[o] = group[o] /\ ids'[o] = ids[o]
      /\ job'[o] = job[o] /\ cache'[o] = cache[o] /\ table' = table
  BY DEF Beside
<1>2. SessionInv(o)
  BY DEF RowsInv
<1>3. SessionTyped(o)'
  BY <1>1, <1>2 DEF SessionInv, SessionTyped
<1>4. StepFits(o)'
  BY <1>1, <1>2 DEF SessionInv, StepFits, Op, HasItem
<1>5. OneWriter(o)'
  <2> SUFFICES ASSUME NEW k \in DOMAIN own[o]
               PROVE  \A p \in Sessions \ {o} : k \notin DOMAIN own'[p]
    BY <1>1, <1>2 DEF SessionInv, OneWriter, Op
  <2>1. \A p \in Sessions \ {o} : k \notin DOMAIN own[p]
    BY <1>2 DEF SessionInv, OneWriter
  <2>2. k \notin DOMAIN own'[s]
    BY <2>1 DEF Beside, Free
  <2> QED BY <2>1, <2>2 DEF Beside
<1>6. SeenIsCurrent(o)'
  BY <1>1, <1>2 DEF SessionInv, SeenIsCurrent, SeenKey, ItemKey, Item, Sees, Op
<1>7. CounterGoesOn(o)'
  BY <1>1, <1>2 DEF SessionInv, CounterGoesOn, Op
<1>8. CreateIsSound(o)'
  BY <1>1, <1>2 DEF SessionInv, CreateIsSound, ItemsDone, InShards, InList
<1> QED BY <1>3, <1>4, <1>5, <1>6, <1>7, <1>8 DEF SessionInv

\* So what has to be shown of a local step is about its session.
LEMMA LocalStep ==
    ASSUME RowsInv, NEW s \in Sessions, Local(s), SessionInv(s)'
    PROVE  RowsInv'
<1>1. RowsTyped'
  BY DEF RowsInv, RowsTyped, Local, SameBut
<1>2. GrantedBelow' /\ UpdatesKept'
  BY DEF RowsInv, GrantedBelow, UpdatesKept, Local
<1>3. IdsAreFresh'
  <2>1. \A o \in Sessions : pc'[o] = "start" => pc[o] = "start"
    BY DEF Local, SameBut
  <2>2. UNCHANGED <<ids, cache, sequence>> /\ IdsAreFresh
    BY DEF Local, RowsInv
  <2> QED BY <2>1, <2>2 DEF IdsAreFresh, Cached
<1>4. IdsArePublished'
  <2>1. \A o \in Sessions : pc[o] = "done" => pc'[o] = "done"
    BY DEF Local, SameBut
  <2>2. UNCHANGED <<ids, table, updated>> /\ IdsArePublished
    BY DEF Local, RowsInv
  <2>3. \A x : Published(x) => Published(x)'
    BY <2>1, <2>2 DEF Published
  <2> QED BY <2>2, <2>3 DEF IdsArePublished
<1>5. \A o \in Sessions : SessionInv(o)'
  <2>1. Beside(s)
    BY DEF Local, SameBut, Beside
  <2> QED BY <2>1, OthersStay
<1> QED BY <1>1, <1>2, <1>3, <1>4, <1>5 DEF RowsInv

\* A transaction that fails has written nothing.
LEMMA FailStep ==
    ASSUME RowsInv, NEW s \in Sessions, pc[s] \in Working, Fail(s)
    PROVE  RowsInv'
<1>1. RowsTyped /\ SessionInv(s)
  BY DEF RowsInv
<1>2. /\ pc'[s] = "failed" /\ own'[s] = NoFun /\ seen'[s] = seen[s] /\ group'[s] = group[s]
      /\ turn'[s] = turn[s] /\ job'[s] = job[s] /\ ids'[s] = ids[s] /\ cache'[s] = cache[s]
  BY <1>1 DEF Fail, Rest, RowsTyped
<1>3. DOMAIN NoFun = {}
  BY DEF NoFun
<1>4. Local(s)
  BY <1>1, <1>2, <1>3 DEF Fail, Rest, history, Local, SameBut, RowsTyped, Working
<1>5. SessionInv(s)'
  <2>1. SessionTyped(s)'
    BY <1>1, <1>2, <1>3 DEF SessionInv, SessionTyped, AreRows, Steps
  <2>2. StepFits(s)'
    BY <1>1, <1>2, <1>3 DEF SessionInv, StepFits, Working, Creating, Op
  <2>3. OneWriter(s)' /\ SeenIsCurrent(s)' /\ CounterGoesOn(s)' /\ CreateIsSound(s)'
    BY <1>2, <1>3 DEF OneWriter, SeenIsCurrent, CounterGoesOn, CreateIsSound, Working, Creating
  <2> QED BY <2>1, <2>2, <2>3 DEF SessionInv
<1> QED BY <1>4, <1>5, LocalStep

\* A step between the items of a request that writes no row.
LEMMA NothingWritten ==
    ASSUME RowsInv, NEW s \in Sessions, pc[s] \in Working, pc'[s] \in Working, Local(s),
           own'[s] = own[s], group'[s] = group[s],
           seen'[s] \in [row : Row, ver : Nat], turn'[s] \in Nat \ {0},
           pc'[s] = "delete" => Op(s) = "slicedel",
           pc'[s] = "write" => /\ Op(s) \in UpdateOps \cup {"fetch"} /\ HasItem(s)'
                               /\ SeenIsCurrent(s)',
           Op(s) = "fetch" => turn'[s] = turn[s] /\ turn[s] = 1
    PROVE  RowsInv'
<1>1. RowsTyped /\ SessionInv(s)
  BY DEF RowsInv
<1>2. /\ table' = table /\ job' = job /\ ids' = ids /\ cache' = cache
      /\ \A o \in Sessions : own'[o] = own[o]
  BY DEF Local, SameBut
<1>3. Op(s)' = Op(s)
  BY <1>2 DEF Op
<1>4. SessionTyped(s)'
  BY <1>1, <1>2 DEF SessionInv, SessionTyped, Steps
<1>5. StepFits(s)'
  BY <1>1, <1>2, <1>3 DEF SessionInv, StepFits, Working, Creating
<1>6. OneWriter(s)'
  BY <1>1, <1>2, <1>3 DEF SessionInv, OneWriter
<1>7. SeenIsCurrent(s)'
  BY <1>1 DEF SeenIsCurrent
<1>8. CounterGoesOn(s)' /\ CreateIsSound(s)'
  BY <1>1, <1>2, <1>3 DEF SessionInv, CounterGoesOn, CreateIsSound, Working, Creating
<1> QED BY <1>4, <1>5, <1>6, <1>7, <1>8, LocalStep DEF SessionInv

\* The row a session sees is one.
LEMMA SeesRow ==
    ASSUME RowsInv, NEW s \in Sessions, NEW k \in Keys
    PROVE  Sees(s, k) \in Row /\ table[k] \in [row : Row, ver : Nat] /\ table[k].ver \in Nat
BY DEF RowsInv, RowsTyped, SessionInv, SessionTyped, AreRows, Sees

\* The item that is at hand has a row.
LEMMA ItemHasKey ==
    ASSUME RowsInv, NEW s \in Sessions, HasItem(s), pc[s] \in Working
    PROVE  /\ Op(s) \in (ReadOps \cup InodeUpdates) \ {"kvget"} => ItemKey(s) \in InodeKeys
           /\ Op(s) \in {"kvput", "kvget", "kvdel"} => ItemKey(s) \in {"kv"} \X UserKeys
           /\ Op(s) = "fetch" => turn[s] = 1 /\ Item(s) \in Nat /\ Len(job[s].items) = 1
           /\ Op(s) \in ReadOps \cup UpdateOps \cup {"kvput"} => ItemKey(s) \in Keys
<1>1. /\ job[s] \in Requests[s] /\ turn[s] \in Nat \ {0}
  BY DEF RowsInv, SessionInv, SessionTyped, StepFits, Working
<1>2. /\ job[s].op \in Ops /\ job[s].items \in Seq(ItemsOf(job[s].op))
      /\ job[s].op = "fetch" => Len(job[s].items) = 1
  BY <1>1, MetaRowsAssumptions
<1>3. turn[s] \in 1..Len(job[s].items)
  BY <1>1, <1>2 DEF HasItem
<1>4. Item(s) \in ItemsOf(Op(s))
  BY <1>2, <1>3 DEF Item, Op
<1>5. Op(s) \in (ReadOps \cup InodeUpdates) \ {"kvget"} => ItemsOf(Op(s)) = Names
  BY DEF ItemsOf, ReadOps, InodeUpdates, UpdateOps, SliceOps
<1>6. Op(s) \in {"kvput", "kvget", "kvdel"} => ItemsOf(Op(s)) = UserKeys
  BY DEF ItemsOf
<1>7. Op(s) = "fetch" => ItemsOf(Op(s)) = Nat
  BY DEF ItemsOf, SliceOps
<1>8. Op(s) \in (ReadOps \cup InodeUpdates) \ {"kvget"} => ItemKey(s) \in InodeKeys
  BY <1>4, <1>5 DEF ItemKey, InodeKeys, ReadOps, InodeUpdates, UpdateOps
<1>9. Op(s) \in {"kvput", "kvget", "kvdel"} => ItemKey(s) \in {"kv"} \X UserKeys
  BY <1>4, <1>6 DEF ItemKey
<1>10. Op(s) = "fetch" => turn[s] = 1 /\ Item(s) \in Nat /\ Len(job[s].items) = 1
  <2>1. Op(s) = "fetch" => Item(s) \in Nat
    BY <1>4, <1>7, Zenon
  <2>2. job[s].op = "fetch" => turn[s] = 1 /\ Len(job[s].items) = 1
    <3> SUFFICES ASSUME job[s].op = "fetch" PROVE turn[s] = 1 /\ Len(job[s].items) = 1
      OBVIOUS
    <3>1. Len(job[s].items) = 1
      BY <1>2
    <3>2. turn[s] \in 1..1
      BY <1>3, <3>1
    <3> QED BY <3>1, <3>2
  <2> QED BY <2>1, <2>2 DEF Op
<1> QED BY <1>8, <1>9, <1>10, KeysDiffer DEF ReadOps, InodeUpdates, UpdateOps

\* The handlers that only read, or only look for what they will change.
LEMMA ReadStep ==
    ASSUME RowsInv, NEW s \in Sessions, At(s, ReadOps), ReadRow(s)
    PROVE  RowsInv'
<1>1. RowsTyped /\ SessionInv(s) /\ pc[s] = "item" /\ HasItem(s) /\ Op(s) \in ReadOps
  BY DEF RowsInv, At
<1>2. /\ pc'[s] = "item" /\ own'[s] = own[s] /\ group'[s] = group[s] /\ turn'[s] = turn[s] + 1
      /\ seen'[s] = [seen[s] EXCEPT !.row = Sees(s, ItemKey(s))]
  BY <1>1 DEF ReadRow, Answer, RowsTyped
<1>3. Local(s)
  BY <1>1 DEF ReadRow, Answer, Rest, history, Local, SameBut, RowsTyped
<1>4. seen'[s] \in [row : Row, ver : Nat] /\ turn'[s] \in Nat \ {0}
  BY <1>1, <1>2, ItemHasKey, SeesRow DEF SessionInv, SessionTyped, Working
<1> QED BY <1>1, <1>2, <1>3, <1>4, NothingWritten DEF Working, ReadOps

\* The scan of an update takes down the row as the session sees it, with the
\* version of the committed one (SearchAndUpdateInodeTableInfo).
LEMMA FindStep ==
    ASSUME RowsInv, NEW s \in Sessions, FindRow(s)
    PROVE  RowsInv'
<1>1. RowsTyped /\ SessionInv(s) /\ pc[s] = "item" /\ HasItem(s) /\ Op(s) \in UpdateOps
  BY DEF RowsInv, FindRow, At
<1>2. ItemKey(s) \in Keys /\ (Op(s) \in InodeUpdates => ItemKey(s) \in InodeKeys)
  BY <1>1, ItemHasKey DEF Working, InodeUpdates, UpdateOps, ReadOps
<1> DEFINE k == ItemKey(s)
<1>3. CASE /\ Sees(s, k) # None
           /\ seen' = [seen EXCEPT ![s] = [row |-> Sees(s, k), ver |-> table[k].ver]]
           /\ pc' = [pc EXCEPT ![s] = "write"]
           /\ UNCHANGED <<Rest, turn, answer, own, ownSlices, group>>
  <2>1. /\ pc'[s] = "write" /\ own'[s] = own[s] /\ group'[s] = group[s] /\ turn'[s] = turn[s]
        /\ seen'[s] = [row |-> Sees(s, k), ver |-> table[k].ver]
        /\ own' = own /\ table' = table /\ job' = job
    BY <1>1, <1>3 DEF RowsTyped, Rest
  <2>2. Local(s)
    BY <1>1, <1>3 DEF Rest, history, Local, SameBut, RowsTyped
  <2>3. seen'[s] \in [row : Row, ver : Nat] /\ turn'[s] \in Nat \ {0}
    BY <1>1, <1>2, <2>1, SeesRow DEF SessionInv, SessionTyped
  <2>4. HasItem(s)' /\ SeenKey(s)' = k /\ Sees(s, k)' = Sees(s, k) /\ Op(s)' = Op(s)
    BY <1>1, <2>1 DEF HasItem, SeenKey, ItemKey, Item, Sees, Op, UpdateOps
  <2>5. Op(s) \in InodeUpdates => Sees(s, k).id # 0
    <3> SUFFICES ASSUME Op(s) \in InodeUpdates PROVE Sees(s, k).id # 0
      OBVIOUS
    <3>1. k \in InodeKeys /\ (table[k].row = None \/ table[k].row.id # 0)
      BY <1>2 DEF RowsInv, IdsArePublished
    <3>2. k \in DOMAIN own[s] => KeepsUpdates(own[s][k], table[k].row)
      BY <1>1 DEF SessionInv, OneWriter, InodeUpdates, UpdateOps
    <3> QED BY <1>3, <3>1, <3>2 DEF Sees, KeepsUpdates
  <2>6. SeenIsCurrent(s)'
    <3> HIDE DEF k
    <3>1. seen'[s].row = Sees(s, k) /\ seen'[s].ver = table[k].ver /\ table[k].ver \in Nat
      BY <2>1, <1>2, SeesRow DEF k
    <3>2. SeenKey(s)' = k /\ table'[k] = table[k] /\ Sees(s, SeenKey(s))' = Sees(s, k)
      BY <2>1, <2>4 DEF Sees
    <3> QED BY <2>4, <2>5, <3>1, <3>2 DEF SeenIsCurrent
  <2> QED BY <1>1, <2>1, <2>2, <2>3, <2>4, <2>6, NothingWritten DEF Working, UpdateOps
<1>4. CASE /\ Sees(s, k) = None /\ Op(s) \in {"close", "unlink"}
           /\ Answer(s, "FILE_NOT_EXISTS") /\ UNCHANGED <<Rest, pc, txn>>
  <2>1. /\ pc'[s] = "item" /\ own'[s] = own[s] /\ group'[s] = group[s]
        /\ turn'[s] = turn[s] + 1 /\ seen'[s] = seen[s]
    BY <1>1, <1>4 DEF RowsTyped, Answer, txn
  <2>2. Local(s)
    BY <1>1, <1>4 DEF Answer, Rest, txn, history, Local, SameBut, RowsTyped
  <2>3. seen'[s] \in [row : Row, ver : Nat] /\ turn'[s] \in Nat \ {0}
    BY <1>1, <2>1 DEF SessionInv, SessionTyped
  <2> QED BY <1>1, <2>1, <2>2, <2>3, NothingWritten DEF Working, UpdateOps
<1>5. CASE Fail(s)
  BY <1>1, <1>5, FailStep DEF Working
<1> QED BY <1>3, <1>4, <1>5 DEF FindRow

\* A write puts one row to what the transaction has written.
LEMMA WriteStep ==
    ASSUME RowsInv, NEW s \in Sessions, NEW k \in Keys, NEW row \in Row, Write(s, k, row)
    PROVE  /\ DOMAIN own' = Sessions /\ \A o \in Sessions \ {s} : own'[o] = own[o]
           /\ DOMAIN own'[s] = DOMAIN own[s] \cup {k} /\ own'[s][k] = row
           /\ \A x \in DOMAIN own[s] \ {k} : own'[s][x] = own[s][x]
           /\ AreRows(own'[s])
<1>1. DOMAIN own = Sessions /\ AreRows(own[s])
  BY DEF RowsInv, RowsTyped, SessionInv, SessionTyped
<1>2. own'[s] = [x \in DOMAIN own[s] \cup {k} |-> IF x = k THEN row ELSE own[s][x]]
  BY <1>1 DEF Write, Put
<1>3. DOMAIN own' = Sessions /\ \A o \in Sessions \ {s} : own'[o] = own[o]
  BY <1>1 DEF Write
<1>4. AreRows(own'[s])
  BY <1>1, <1>2 DEF AreRows
<1> QED BY <1>2, <1>3, <1>4

\* The row an update writes.
LEMMA NewRowKeeps ==
    ASSUME NEW s \in Sessions, NEW row \in Row, row.id # 0
    PROVE  /\ SearchAndUpdateInodeTableInfo(s, row, 0, FALSE) \in Row
           /\ KeepsUpdates(SearchAndUpdateInodeTableInfo(s, row, 0, FALSE), row)
           /\ SearchAndUpdateInodeTableInfo(s, row, 1, TRUE) \in Row
           /\ KeepsUpdates(SearchAndUpdateInodeTableInfo(s, row, 1, TRUE), row)
<1>1. None \in Row
  BY DEF None, Row
<1>2. \A b \in SUBSET Sessions, n \in Int : [row EXCEPT !.by = b, !.nlink = n] \in Row
  BY DEF Row
<1>3. row.by \cup {s} \in SUBSET Sessions /\ row.nlink - 0 \in Int /\ row.nlink - 1 \in Int
  BY DEF Row
<1>4. \A b \in SUBSET Sessions, n \in Int :
        row.by \subseteq b => KeepsUpdates([row EXCEPT !.by = b, !.nlink = n], row)
  BY DEF KeepsUpdates, Row
<1>5. KeepsUpdates(row, row) /\ KeepsUpdates(None, row)
  BY DEF KeepsUpdates
<1>6. \A links \in {0, 1} :
        LET new == [row EXCEPT !.by = @ \cup {s}, !.nlink = @ - links]
        IN  new \in Row /\ KeepsUpdates(new, row)
  BY <1>2, <1>3, <1>4
<1>7. SearchAndUpdateInodeTableInfo(s, row, 0, FALSE)
        = [row EXCEPT !.by = @ \cup {s}, !.nlink = @ - 0]
  BY DEF SearchAndUpdateInodeTableInfo
<1>8. SearchAndUpdateInodeTableInfo(s, row, 1, TRUE)
        \in {None, row, [row EXCEPT !.by = @ \cup {s}, !.nlink = @ - 1]}
  BY DEF SearchAndUpdateInodeTableInfo
<1> QED BY <1>1, <1>5, <1>6, <1>7, <1>8

\* An update of a row that has all updates has them all.
LEMMA KeepsTransitive ==
    ASSUME NEW a \in Row, NEW b \in Row, NEW c \in Row,
           KeepsUpdates(a, b), KeepsUpdates(b, c), b # None
    PROVE  KeepsUpdates(a, c)
BY DEF KeepsUpdates

\* An update writes the row it has found only when nobody has changed it since,
\* so it has all that the committed row has.
LEMMA UpdateStep ==
    ASSUME RowsInv, NEW s \in Sessions, UpdateRow(s)
    PROVE  RowsInv'
<1>1. /\ RowsTyped /\ SessionInv(s) /\ pc[s] = "write" /\ HasItem(s) /\ Op(s) \in UpdateOps
  BY DEF RowsInv, UpdateRow, SessionInv, StepFits
<1>2. ItemKey(s) \in Keys /\ (Op(s) \in InodeUpdates => ItemKey(s) \in InodeKeys)
      /\ (Op(s) = "kvdel" => ItemKey(s) \in {"kv"} \X UserKeys)
  BY <1>1, ItemHasKey DEF Working, InodeUpdates, UpdateOps, ReadOps
<1>3. turn[s] + 1 \in Nat \ {0} /\ seen[s] \in [row : Row, ver : Nat]
  BY <1>1 DEF SessionInv, SessionTyped
<1>4. CASE /\ WrongType(s) /\ Answer(s, "PATH_VERIFY_FAILED")
           /\ pc' = [pc EXCEPT ![s] = "item"] /\ UNCHANGED <<Rest, txn>>
  <2>1. /\ pc'[s] = "item" /\ own'[s] = own[s] /\ group'[s] = group[s]
        /\ turn'[s] = turn[s] + 1 /\ seen'[s] = seen[s]
    BY <1>1, <1>4 DEF RowsTyped, Answer, txn
  <2>2. Local(s)
    BY <1>1, <1>4 DEF Answer, Rest, txn, history, Local, SameBut, RowsTyped
  <2> QED BY <1>1, <1>3, <2>1, <2>2, NothingWritten DEF Working, UpdateOps
<1>5. CASE /\ ~WrongType(s) /\ Free(s, ItemKey(s)) /\ ~Changed(s)
           /\ Write(s, ItemKey(s), NewRow(s)) /\ Answer(s, "SUCCESS")
           /\ pc' = [pc EXCEPT ![s] = "item"] /\ UNCHANGED <<Rest, ownSlices, seen, group>>
  <2> DEFINE k == ItemKey(s)
  <2>1. /\ k \in Keys /\ seen[s].row \in Row
        /\ Sees(s, k) = seen[s].row /\ (Op(s) \in InodeUpdates => seen[s].row.id # 0)
    BY <1>1, <1>2, <1>3, <1>5 DEF Changed, SessionInv, SeenIsCurrent, SeenKey, UpdateOps
  <2>2. /\ NewRow(s) \in Row
        /\ Op(s) \in InodeUpdates => KeepsUpdates(NewRow(s), seen[s].row)
        /\ Op(s) = "kvdel" => NewRow(s) = None
    <3>1. CASE Op(s) = "kvdel"
      BY <3>1 DEF NewRow, KvmetaDelHandle, None, Row, InodeUpdates
    <3>2. CASE Op(s) = "unlink"
      <4>1. NewRow(s) = SearchAndUpdateInodeTableInfo(s, seen[s].row, 1, TRUE)
        BY <3>2 DEF NewRow, UnlinkHandle
      <4>2. seen[s].row.id # 0
        BY <2>1, <3>2 DEF InodeUpdates, UpdateOps
      <4>3. NewRow(s) \in Row /\ KeepsUpdates(NewRow(s), seen[s].row)
        BY <2>1, <4>1, <4>2, NewRowKeeps
      <4> QED BY <3>2, <4>3
    <3>3. CASE Op(s) \in {"close", "utimens", "chown", "chmod"}
      <4>1. NewRow(s) = SearchAndUpdateInodeTableInfo(s, seen[s].row, 0, FALSE)
        BY <3>3 DEF NewRow, CloseHandle, UtimeNsHandle, ChownHandle, ChmodHandle
      <4>2. seen[s].row.id # 0
        BY <2>1, <3>3 DEF InodeUpdates, UpdateOps
      <4>3. NewRow(s) \in Row /\ KeepsUpdates(NewRow(s), seen[s].row)
        BY <2>1, <4>1, <4>2, NewRowKeeps
      <4> QED BY <3>3, <4>3
    <3> QED BY <1>1, <3>1, <3>2, <3>3 DEF UpdateOps
  <2>3. Op(s) \in InodeUpdates => KeepsUpdates(NewRow(s), table[k].row)
    <3> SUFFICES ASSUME Op(s) \in InodeUpdates PROVE KeepsUpdates(NewRow(s), table[k].row)
      OBVIOUS
    <3>1. CASE k \in DOMAIN own[s]
      <4>1. own[s][k] = seen[s].row /\ KeepsUpdates(seen[s].row, table[k].row)
        BY <1>1, <2>1, <3>1 DEF SessionInv, OneWriter, Sees, InodeUpdates, UpdateOps
      <4>2. table[k].row \in Row /\ seen[s].row # None
        BY <2>1, SeesRow DEF None
      <4> QED BY <2>1, <2>2, <4>1, <4>2, KeepsTransitive
    <3>2. CASE k \notin DOMAIN own[s]
      BY <2>1, <2>2, <3>2 DEF Sees
    <3> QED BY <3>1, <3>2
  <2> HIDE DEF k
  <2>4. /\ DOMAIN own' = Sessions /\ \A o \in Sessions \ {s} : own'[o] = own[o]
        /\ DOMAIN own'[s] = DOMAIN own[s] \cup {k} /\ own'[s][k] = NewRow(s)
        /\ \A x \in DOMAIN own[s] \ {k} : own'[s][x] = own[s][x]
        /\ AreRows(own'[s])
    BY <1>5, <2>1, <2>2, WriteStep DEF k
  <2>5. /\ pc'[s] = "item" /\ group' = group /\ turn'[s] = turn[s] + 1 /\ seen' = seen
        /\ table' = table /\ job' = job /\ ids' = ids /\ cache' = cache
    BY <1>1, <1>5 DEF RowsTyped, Answer, Rest
  <2>6. Local(s)
    <3>1. \A x \in DOMAIN own'[s] : x \in DOMAIN own[s] \/ Free(s, x)
      BY <1>5, <2>4 DEF k
    <3> QED BY <1>1, <1>5, <2>4, <3>1 DEF Answer, Rest, history, Local, SameBut, RowsTyped
  <2>7. SessionTyped(s)' /\ StepFits(s)'
    BY <1>1, <1>3, <2>4, <2>5
       DEF SessionInv, SessionTyped, StepFits, Steps, Working, Creating, Op
  <2>8. OneWriter(s)'
    <3>1. Op(s)' = Op(s) /\ Op(s) # "create" /\ Op(s) # "fetch"
      BY <1>1, <2>5 DEF Op, UpdateOps
    <3> SUFFICES ASSUME NEW x \in DOMAIN own'[s]
                 PROVE  /\ \A o \in Sessions \ {s} : x \notin DOMAIN own'[o]
                        /\ \/ /\ Op(s) \in {"kvput", "kvdel"} /\ x \in {"kv"} \X UserKeys
                              /\ own'[s][x].by = {}
                           \/ /\ Op(s) \in InodeUpdates /\ x \in InodeKeys
                              /\ KeepsUpdates(own'[s][x], table[x].row)
      BY <2>5, <3>1 DEF OneWriter
    <3>2. CASE x = k
      <4>1. \A o \in Sessions \ {s} : x \notin DOMAIN own'[o]
        BY <1>5, <2>4, <3>2 DEF Free, k
      <4>2. CASE Op(s) = "kvdel"
        BY <1>2, <2>2, <2>4, <3>2, <4>1, <4>2 DEF None, k
      <4>3. CASE Op(s) \in InodeUpdates
        BY <1>2, <2>3, <2>4, <3>2, <4>1, <4>3 DEF k
      <4> QED BY <1>1, <4>2, <4>3 DEF InodeUpdates
    <3>3. CASE x # k
      BY <1>1, <2>4, <3>1, <3>3 DEF SessionInv, OneWriter
    <3> QED BY <3>2, <3>3
  <2>9. SeenIsCurrent(s)' /\ CounterGoesOn(s)' /\ CreateIsSound(s)'
    BY <1>1, <2>5 DEF SeenIsCurrent, CounterGoesOn, CreateIsSound, Creating, Op, UpdateOps
  <2> QED BY <2>6, <2>7, <2>8, <2>9, LocalStep DEF SessionInv
<1>6. CASE Fail(s)
  BY <1>1, <1>6, FailStep DEF Working
<1> QED BY <1>4, <1>5, <1>6 DEF UpdateRow

\* A value or a counter is a row that no update of other columns is in.
LEMMA ValueIsRow ==
    ASSUME NEW n \in Nat
    PROVE  Value(n) \in Row /\ Value(n).by = {} /\ Value(n).id = n
BY DEF Value, Row

\* A key is put when it is not there (FalconKvmetaPutHandle).
LEMMA PutStep ==
    ASSUME RowsInv, NEW s \in Sessions, KvmetaPutHandle(s)
    PROVE  RowsInv'
<1>1. RowsTyped /\ SessionInv(s) /\ pc[s] = "item" /\ HasItem(s) /\ Op(s) = "kvput"
  BY DEF RowsInv, KvmetaPutHandle, At
<1>2. ItemKey(s) \in Keys /\ ItemKey(s) \in {"kv"} \X UserKeys
  BY <1>1, ItemHasKey DEF Working, UpdateOps, ReadOps
<1>3. turn[s] + 1 \in Nat \ {0} /\ seen[s] \in [row : Row, ver : Nat]
  BY <1>1 DEF SessionInv, SessionTyped
<1>4. /\ pc'[s] = "item" /\ group' = group /\ turn'[s] = turn[s] + 1 /\ seen' = seen
      /\ table' = table /\ job' = job /\ ids' = ids /\ cache' = cache
  BY <1>1 DEF KvmetaPutHandle, RowsTyped, Answer, Rest
<1>5. CASE own' = own
  <2>1. Local(s)
    BY <1>1, <1>5 DEF KvmetaPutHandle, Answer, Rest, history, Local, SameBut, RowsTyped
  <2> QED BY <1>1, <1>3, <1>4, <1>5, <2>1, NothingWritten DEF Working
<1>6. CASE Write(s, ItemKey(s), Value(1))
  <2> DEFINE k == ItemKey(s)
  <2>1. Value(1) \in Row /\ Value(1).by = {} /\ Free(s, k)
    <3>1. Free(s, k)
      BY DEF KvmetaPutHandle
    <3> QED BY <3>1, ValueIsRow
  <2>2. /\ DOMAIN own' = Sessions /\ \A o \in Sessions \ {s} : own'[o] = own[o]
        /\ DOMAIN own'[s] = DOMAIN own[s] \cup {k} /\ own'[s][k] = Value(1)
        /\ \A x \in DOMAIN own[s] \ {k} : own'[s][x] = own[s][x]
        /\ AreRows(own'[s])
    BY <1>2, <1>6, <2>1, WriteStep
  <2> HIDE DEF k
  <2>3. Local(s)
    <3>1. \A x \in DOMAIN own'[s] : x \in DOMAIN own[s] \/ Free(s, x)
      BY <2>1, <2>2
    <3> QED BY <1>1, <2>2, <3>1
            DEF KvmetaPutHandle, Answer, Rest, history, Local, SameBut, RowsTyped
  <2>4. SessionTyped(s)' /\ StepFits(s)'
    BY <1>1, <1>3, <1>4, <2>2
       DEF SessionInv, SessionTyped, StepFits, Steps, Working, Creating, Op
  <2>5. OneWriter(s)'
    <3>1. Op(s)' = "kvput"
      BY <1>1, <1>4 DEF Op
    <3> SUFFICES ASSUME NEW x \in DOMAIN own'[s]
                 PROVE  /\ \A o \in Sessions \ {s} : x \notin DOMAIN own'[o]
                        /\ x \in {"kv"} \X UserKeys /\ own'[s][x].by = {}
      BY <3>1 DEF OneWriter
    <3>2. CASE x = k
      BY <1>2, <2>1, <2>2, <3>2 DEF Free, k
    <3>3. CASE x # k
      BY <1>1, <2>2, <3>3 DEF SessionInv, OneWriter, InodeUpdates, UpdateOps
    <3> QED BY <3>2, <3>3
  <2>6. SeenIsCurrent(s)' /\ CounterGoesOn(s)' /\ CreateIsSound(s)'
    BY <1>1, <1>4 DEF SeenIsCurrent, CounterGoesOn, CreateIsSound, Creating, Op
  <2> QED BY <2>3, <2>4, <2>5, <2>6, LocalStep DEF SessionInv
<1> QED BY <1>5, <1>6 DEF KvmetaPutHandle

\* The slice tables are none of these rows' business.
LEMMA SliceStep ==
    ASSUME RowsInv, NEW s \in Sessions,
           SlicePutHandle(s) \/ SliceDelScan(s) \/ SliceDelHandle(s) \/ SliceGetHandle(s)
    PROVE  RowsInv'
<1>1. RowsTyped /\ SessionInv(s)
  BY DEF RowsInv
<1>2. turn[s] \in Nat \ {0} /\ turn[s] + 1 \in Nat \ {0} /\ seen[s] \in [row : Row, ver : Nat]
  BY <1>1 DEF SessionInv, SessionTyped
<1>3. CASE SlicePutHandle(s)
  <2>1. /\ pc[s] = "item" /\ Op(s) = "sliceput" /\ pc'[s] = "item" /\ turn'[s] = turn[s] + 1
        /\ own' = own /\ group' = group /\ seen' = seen
    BY <1>1, <1>3 DEF SlicePutHandle, At, Answer, Rest, RowsTyped
  <2>2. Local(s)
    BY <1>1, <1>3, <2>1 DEF SlicePutHandle, Answer, Rest, history, Local, SameBut, RowsTyped
  <2> QED BY <1>2, <2>1, <2>2, NothingWritten DEF Working
<1>4. CASE SliceDelScan(s)
  <2>1. /\ pc[s] = "item" /\ Op(s) = "slicedel" /\ pc'[s] = "delete" /\ turn'[s] = turn[s]
        /\ own' = own /\ group' = group /\ seen' = seen
    BY <1>1, <1>4 DEF SliceDelScan, At, Rest, RowsTyped
  <2>2. Local(s)
    BY <1>1, <1>4, <2>1 DEF SliceDelScan, Rest, history, Local, SameBut, RowsTyped
  <2> QED BY <1>2, <2>1, <2>2, NothingWritten DEF Working
<1>5. CASE SliceDelHandle(s) /\ ~Fail(s)
  <2>1. /\ pc[s] = "delete" /\ Op(s) = "slicedel" /\ pc'[s] = "item" /\ turn'[s] = turn[s] + 1
        /\ own' = own /\ group' = group /\ seen' = seen
    BY <1>1, <1>5 DEF SliceDelHandle, Answer, Rest, RowsTyped, SessionInv, StepFits
  <2>2. Local(s)
    BY <1>1, <1>5, <2>1 DEF SliceDelHandle, Answer, Rest, history, Local, SameBut, RowsTyped
  <2> QED BY <1>2, <2>1, <2>2, NothingWritten DEF Working
<1>6. CASE SliceDelHandle(s) /\ Fail(s)
  BY <1>6, FailStep DEF SliceDelHandle, Working
<1>7. CASE SliceGetHandle(s)
  <2>1. /\ pc[s] = "item" /\ Op(s) = "sliceget" /\ pc'[s] = "item" /\ turn'[s] = turn[s] + 1
        /\ own' = own /\ group' = group /\ seen' = seen
    BY <1>1, <1>7 DEF SliceGetHandle, At, Answer, Rest, txn, RowsTyped
  <2>2. Local(s)
    BY <1>1, <1>7, <2>1 DEF SliceGetHandle, Answer, Rest, txn, history, Local, SameBut, RowsTyped
  <2> QED BY <1>2, <2>1, <2>2, NothingWritten DEF Working
<1> QED BY <1>3, <1>4, <1>5, <1>6, <1>7

\* Reading the counter of slice ids, and writing it.
LEMMA FetchReadStep ==
    ASSUME RowsInv, NEW s \in Sessions, FetchSliceIdRead(s)
    PROVE  RowsInv'
<1>1. RowsTyped /\ SessionInv(s) /\ pc[s] = "item" /\ HasItem(s) /\ Op(s) = "fetch"
  BY DEF RowsInv, FetchSliceIdRead, At
<1>2. turn[s] = 1
  BY <1>1, ItemHasKey DEF Working
<1>3. /\ pc'[s] = "write" /\ own' = own /\ group' = group /\ turn' = turn /\ table' = table
      /\ seen'[s] = [row |-> Sees(s, SliceId), ver |-> table[SliceId].ver] /\ job' = job
  BY <1>1 DEF FetchSliceIdRead, RowsTyped, Rest
<1>4. Local(s)
  BY <1>1 DEF FetchSliceIdRead, Rest, history, Local, SameBut, RowsTyped
<1>5. seen'[s] \in [row : Row, ver : Nat] /\ turn'[s] \in Nat \ {0} /\ table[SliceId].ver \in Nat
  BY <1>2, <1>3, SeesRow, KeysDiffer
<1>6. HasItem(s)' /\ Op(s)' = "fetch" /\ SeenKey(s)' = SliceId
      /\ Sees(s, SeenKey(s))' = Sees(s, SliceId)
  BY <1>1, <1>3 DEF HasItem, SeenKey, Sees, Op
<1>7. SeenIsCurrent(s)'
  <2>1. seen'[s].row = Sees(s, SliceId) /\ seen'[s].ver = table[SliceId].ver
    BY <1>3
  <2>2. Op(s)' \notin InodeUpdates
    BY <1>6 DEF InodeUpdates, UpdateOps
  <2> QED BY <1>3, <1>5, <1>6, <2>1, <2>2 DEF SeenIsCurrent
<1> QED BY <1>1, <1>2, <1>3, <1>4, <1>5, <1>6, <1>7, NothingWritten DEF Working

\* The counter is written from what was read when it has not changed since.
LEMMA FetchWriteStep ==
    ASSUME RowsInv, NEW s \in Sessions, FetchSliceIdWrite(s)
    PROVE  RowsInv'
<1>1. RowsTyped /\ SessionInv(s) /\ pc[s] = "write" /\ HasItem(s) /\ Op(s) = "fetch"
      /\ Free(s, SliceId)
  BY DEF RowsInv, FetchSliceIdWrite, SessionInv, StepFits
<1>2. turn[s] = 1 /\ Item(s) \in Nat /\ DOMAIN own[s] = {}
  BY <1>1, ItemHasKey DEF Working, SessionInv, CounterGoesOn
<1>3. CASE table[SliceId].ver # seen[s].ver
  BY <1>1, <1>3, FailStep DEF FetchSliceIdWrite, Working
<1>4. CASE table[SliceId].ver = seen[s].ver
  <2> DEFINE new == Value(seen[s].row.id + Item(s))
  <2>1. /\ Write(s, SliceId, new) /\ pc'[s] = "item" /\ group' = group /\ seen' = seen
        /\ turn'[s] = 2 /\ table' = table /\ job' = job /\ ids' = ids /\ cache' = cache
    BY <1>1, <1>2, <1>4 DEF FetchSliceIdWrite, RowsTyped, Answer, Rest
  <2>2. seen[s].row \in Row /\ seen[s].row = table[SliceId].row
    BY <1>1, <1>2, <1>4 DEF SessionInv, SessionTyped, SeenIsCurrent, SeenKey, Sees
  <2>3. new \in Row /\ new.by = {} /\ new.id = seen[s].row.id + Item(s)
    <3>1. seen[s].row.id + Item(s) \in Nat
      BY <1>2, <2>2 DEF Row
    <3> QED BY <3>1, ValueIsRow
  <2>4. seen[s].row.id <= new.id
    BY <1>2, <2>2, <2>3 DEF Row
  <2> HIDE DEF new
  <2>5. /\ DOMAIN own' = Sessions /\ \A o \in Sessions \ {s} : own'[o] = own[o]
        /\ DOMAIN own'[s] = {SliceId} /\ own'[s][SliceId] = new
        /\ AreRows(own'[s])
    BY <1>2, <2>1, <2>3, WriteStep, KeysDiffer
  <2>6. Local(s)
    <3>1. \A x \in DOMAIN own'[s] : x \in DOMAIN own[s] \/ Free(s, x)
      BY <1>1, <2>5
    <3> QED BY <1>1, <1>4, <2>1, <2>5, <3>1
            DEF FetchSliceIdWrite, Answer, Rest, history, Local, SameBut, RowsTyped
  <2>7. SessionTyped(s)' /\ StepFits(s)'
    BY <1>1, <2>1, <2>5 DEF SessionInv, SessionTyped, StepFits, Steps, Working, Creating, Op
  <2>8. OneWriter(s)'
    <3>1. Op(s)' = "fetch"
      BY <1>1, <2>1 DEF Op
    <3>2. \A o \in Sessions \ {s} : SliceId \notin DOMAIN own'[o]
      BY <1>1, <2>5 DEF Free
    <3> QED BY <2>3, <2>5, <3>1, <3>2 DEF OneWriter
  <2>9. SeenIsCurrent(s)' /\ CreateIsSound(s)'
    BY <2>1 DEF SeenIsCurrent, CreateIsSound, Creating
  <2>10. CounterGoesOn(s)'
    BY <2>1, <2>2, <2>4, <2>5 DEF CounterGoesOn
  <2> QED BY <2>6, <2>7, <2>8, <2>9, <2>10, LocalStep DEF SessionInv
<1> QED BY <1>3, <1>4

\* Reading the directory writes nothing (FalconReadDirHandle).
LEMMA ReadDirStep ==
    ASSUME RowsInv, NEW s \in Sessions, ReadDirScan(s) \/ ReadDirEnd(s)
    PROVE  RowsInv'
<1>1. RowsTyped /\ SessionInv(s) /\ pc[s] = "scan"
  BY DEF RowsInv, ReadDirScan, ReadDirEnd
<1>2. /\ pc'[s] \in {"scan", "done"} /\ own' = own /\ group' = group /\ turn' = turn
      /\ table' = table /\ job' = job /\ ids' = ids /\ cache' = cache /\ seen' = seen
  BY <1>1 DEF ReadDirScan, ReadDirEnd, txn, RowsTyped
<1>4. Local(s)
  BY <1>1 DEF ReadDirScan, ReadDirEnd, txn, history, Local, SameBut, RowsTyped
<1>5. SessionTyped(s)' /\ StepFits(s)'
  BY <1>1, <1>2 DEF SessionInv, SessionTyped, StepFits, Steps, Working, Creating, Op
<1>6. OneWriter(s)' /\ SeenIsCurrent(s)' /\ CounterGoesOn(s)' /\ CreateIsSound(s)'
  BY <1>1, <1>2 DEF SessionInv, StepFits, OneWriter, SeenIsCurrent, CounterGoesOn,
                    CreateIsSound, Working, Creating
<1> QED BY <1>4, <1>5, <1>6, LocalStep DEF SessionInv

-----------------------------------------------------------------------------
(* Creates.                                                                 *)

\* The sequences that hold the elements of a finite set once hold all of them.
LEMMA SeqOfSet ==
    ASSUME NEW S, IsFiniteSet(S), NEW f \in SetToSeqs(S)
    PROVE  /\ f \in Seq(S)
           /\ \A i, j \in 1..Len(f) : f[i] = f[j] => i = j
           /\ \A x \in S : \E j \in 1..Len(f) : f[j] = x
<1> DEFINE n == Cardinality(S)
<1>1. n \in Nat
  BY FS_CardinalityType
<1>2. f \in [1..n -> S] /\ \A i, j \in 1..n : i # j => f[i] # f[j]
  BY DEF SetToSeqs
<1>3. IsFiniteSet(1..n) /\ Cardinality(1..n) = n
  BY <1>1, FS_Interval
<1> HIDE DEF n
<1>4. f \in Injection(1..n, S)
  BY <1>2 DEF Injection, IsInjective
<1>5. f \in Surjection(1..n, S)
  BY <1>3, <1>4, FS_Injection DEF n
<1>6. f \in Seq(S) /\ Len(f) = n
  BY <1>1, <1>2
<1>7. \A x \in S : \E j \in 1..n : f[j] = x
  BY <1>5 DEF Surjection
<1> QED BY <1>2, <1>6, <1>7

\* What a session that is creating has and does not change.
CreateStays(s) ==
    /\ table' = table /\ job' = job /\ ids' = ids /\ cache' = cache
    /\ seen'[s] = seen[s] /\ turn'[s] = turn[s]

\* So a step of a create is sound when its group and its answers are.
LEMMA CreateLocal ==
    ASSUME RowsInv, NEW s \in Sessions, pc[s] \in Creating, pc'[s] \in Creating, Local(s),
           CreateStays(s), SessionTyped(s)', CreateIsSound(s)',
           \A k \in DOMAIN own'[s] : k \in InodeKeys
    PROVE  RowsInv'
<1>1. RowsTyped /\ SessionInv(s)
  BY DEF RowsInv
<1>2. Op(s) = "create" /\ Op(s)' = "create"
  BY <1>1 DEF SessionInv, StepFits, CreateStays, Op
<1>3. StepFits(s)'
  BY <1>1, <1>2 DEF SessionInv, StepFits, CreateStays, Creating, Working
<1>4. OneWriter(s)'
  <2> SUFFICES ASSUME NEW k \in DOMAIN own'[s]
               PROVE  \A o \in Sessions \ {s} : k \notin DOMAIN own'[o]
    BY <1>2 DEF OneWriter
  <2>1. \A o \in Sessions \ {s} : k \notin DOMAIN own[o]
    BY <1>1 DEF Local, Free, SessionInv, OneWriter
  <2> QED BY <2>1 DEF Local, SameBut
<1>5. SeenIsCurrent(s)' /\ CounterGoesOn(s)'
  BY DEF SeenIsCurrent, CounterGoesOn, Creating, Working
<1> QED BY <1>3, <1>4, <1>5, LocalStep DEF SessionInv

\* The items of a create are names.
LEMMA CreateItems ==
    ASSUME RowsInv, NEW s \in Sessions, pc[s] \in Creating
    PROVE  /\ job[s].items \in Seq(Names) /\ DOMAIN ids[s] = 1..Len(job[s].items)
           /\ DOMAIN ids[s] = DOMAIN job[s].items
           /\ \A i \in DOMAIN ids[s] : job[s].items[i] \in Names /\ ids[s][i] \in Nat
<1>1. SessionInv(s)
  BY DEF RowsInv
<1>2. job[s] \in Requests[s] /\ job[s].op = "create"
  BY <1>1 DEF SessionInv, StepFits, Creating, Op
<1>3. job[s].items \in Seq(Names)
  <2>1. job[s].items \in Seq(ItemsOf("create"))
    BY <1>2, MetaRowsAssumptions
  <2>2. ItemsOf("create") = Names
    BY DEF ItemsOf, SliceOps
  <2> QED BY <2>1, <2>2
<1>4. DOMAIN ids[s] = DOMAIN job[s].items /\ ids[s] \in Seq(Nat)
  BY <1>1 DEF SessionInv, SessionTyped, CreateIsSound
<1> QED BY <1>3, <1>4

\* The items of the next shard become the list: as many are pending as before.
LEMMA ShardStep ==
    ASSUME RowsInv, NEW s \in Sessions, CreateShard(s)
    PROVE  RowsInv'
<1>1. RowsTyped /\ SessionInv(s) /\ pc[s] = "shard"
  BY DEF RowsInv, CreateShard
<1> DEFINE items == job[s].items
           inShard(sh) == {i \in DOMAIN items : ShardOf[items[i]] = sh}
<1>a. PICK sh \in group[s].shards : \E list \in SetToSeqs(inShard(sh)) :
        group' = [group EXCEPT ![s].shards = @ \ {sh}, ![s].list = list]
  BY DEF CreateShard
<1>2. PICK list \in SetToSeqs(inShard(sh)) :
        group' = [group EXCEPT ![s].shards = @ \ {sh}, ![s].list = list]
  BY <1>a
<1>3. /\ items \in Seq(Names) /\ DOMAIN ids[s] = 1..Len(items) /\ DOMAIN ids[s] = DOMAIN items
  BY <1>1, CreateItems DEF Creating
<1>4. IsFiniteSet(inShard(sh))
  <2>1. IsFiniteSet(1..Len(items)) /\ inShard(sh) \subseteq 1..Len(items)
    BY <1>3, FS_Interval
  <2> QED BY <2>1, FS_Subset
<1>5. /\ list \in Seq(inShard(sh))
      /\ \A i, j \in 1..Len(list) : list[i] = list[j] => i = j
      /\ \A x \in inShard(sh) : \E j \in 1..Len(list) : list[j] = x
  <2> HIDE DEF inShard
  <2> QED BY <1>4, SeqOfSet
<1>6. /\ group[s].list = <<>> /\ ItemsDone(s, own[s], InShards(s) \cup InList(s, 1))
      /\ answer[s] \in [DOMAIN ids[s] -> {"SUCCESS", "FILE_EXISTS"}]
  BY <1>1 DEF SessionInv, CreateIsSound, Creating
<1>7. DOMAIN group[s] = {"shards", "list", "at", "left", "saved"}
  BY <1>1 DEF SessionInv, SessionTyped, NoGroup
<1>8. /\ group'[s].shards = group[s].shards \ {sh} /\ group'[s].list = list
      /\ group'[s].at = group[s].at /\ group'[s].left = group[s].left
      /\ group'[s].saved = group[s].saved /\ DOMAIN group'[s] = DOMAIN group[s]
      /\ pc'[s] = "group" /\ own' = own /\ answer' = answer
  BY <1>1, <1>2, <1>7 DEF CreateShard, RowsTyped
<1>9. CreateStays(s) /\ Local(s)
  BY <1>1, <1>2 DEF CreateShard, CreateStays, Rest, history, Local, SameBut, RowsTyped
<1>10. list \in Seq(Nat)
  <2>1. inShard(sh) \subseteq Nat
    BY <1>3
  <2> HIDE DEF inShard
  <2> QED BY <1>5, <2>1
<1>11. SessionTyped(s)'
  BY <1>1, <1>8, <1>9, <1>10
     DEF SessionInv, SessionTyped, CreateStays, Steps, Creating
<1>12. \A j \in 1..Len(list) :
         list[j] \in inShard(sh)
  <2> HIDE DEF inShard
  <2> QED BY <1>5
<1>13. InShards(s)' = InShards(s) \ inShard(sh)
  BY <1>3, <1>8, <1>9 DEF InShards, CreateStays
<1>14. InList(s, 1)' = inShard(sh) /\ InList(s, 1) = {}
  <2>1. InList(s, 1) = {}
    BY <1>6 DEF InList
  <2> HIDE DEF inShard
  <2>2. InList(s, 1)' = {list[j] : j \in 1..Len(list)}
    BY <1>8 DEF InList
  <2>3. \A x \in inShard(sh) : x \in {list[j] : j \in 1..Len(list)}
    BY <1>5
  <2>4. \A x \in {list[j] : j \in 1..Len(list)} : x \in inShard(sh)
    BY <1>12
  <2> QED BY <2>1, <2>2, <2>3, <2>4
<1>15. inShard(sh) \subseteq InShards(s)
  BY <1>2, <1>3 DEF InShards
<1>16. (InShards(s) \cup InList(s, 1))' = InShards(s) \cup InList(s, 1)
  <2> HIDE DEF inShard
  <2> QED BY <1>13, <1>14, <1>15
<1>17. ItemsDone(s, own[s], InShards(s) \cup InList(s, 1))'
  BY <1>6, <1>8, <1>9, <1>16 DEF ItemsDone, CreateStays
<1>18. \A j \in 1..Len(list) : list[j] \in DOMAIN ids'[s] \ InShards(s)'
  <2>1. inShard(sh) \subseteq DOMAIN ids'[s]
    BY <1>3, <1>9 DEF CreateStays
  <2> HIDE DEF inShard
  <2> QED BY <1>12, <1>13, <2>1
<1>19. CreateIsSound(s)'
  <2>1. DOMAIN ids'[s] = DOMAIN job'[s].items
        /\ answer'[s] \in [DOMAIN ids'[s] -> {"SUCCESS", "FILE_EXISTS"}]
    BY <1>3, <1>6, <1>8, <1>9 DEF CreateStays
  <2>2. \A j \in 1..Len(group'[s].list) :
             /\ group'[s].list[j] \in DOMAIN ids'[s] \ InShards(s)'
             /\ \A l \in 1..Len(group'[s].list) : group'[s].list[j] = group'[s].list[l] => j = l
    BY <1>5, <1>8, <1>18
  <2> QED BY <1>8, <1>17, <2>1, <2>2 DEF CreateIsSound
<1>20. \A k \in DOMAIN own'[s] : k \in InodeKeys
  BY <1>1, <1>8 DEF SessionInv, StepFits, OneWriter, Creating, InodeUpdates, UpdateOps
<1> QED BY <1>1, <1>8, <1>9, <1>11, <1>19, <1>20, CreateLocal DEF Creating

\* A group begins with the rows that are there, or the list is at its end.
LEMMA GroupStep ==
    ASSUME RowsInv, NEW s \in Sessions, CreateGroup(s)
    PROVE  RowsInv'
<1>1. RowsTyped /\ SessionInv(s) /\ pc[s] = "group" /\ own' = own /\ answer' = answer
  BY DEF RowsInv, CreateGroup
<1>2. CreateStays(s) /\ Local(s)
  BY <1>1 DEF CreateGroup, CreateStays, Rest, history, Local, SameBut, RowsTyped
<1>3. \A k \in DOMAIN own'[s] : k \in InodeKeys
  BY <1>1 DEF SessionInv, StepFits, OneWriter, Creating, InodeUpdates, UpdateOps
<1>4. DOMAIN group[s] = {"shards", "list", "at", "left", "saved"}
  BY <1>1 DEF SessionInv, SessionTyped, NoGroup
<1>5. CASE group[s].list = <<>>
  <2>1. pc'[s] = "shard" /\ group' = group
    BY <1>1, <1>5 DEF CreateGroup, RowsTyped
  <2>2. SessionTyped(s)'
    BY <1>1, <1>2, <2>1 DEF SessionInv, SessionTyped, CreateStays, Steps, Creating
  <2>3. CreateIsSound(s)'
    BY <1>1, <1>2, <1>5, <2>1
       DEF SessionInv, CreateIsSound, CreateStays, Creating, ItemsDone, InShards, InList
  <2> QED BY <1>1, <1>2, <1>3, <2>1, <2>2, <2>3, CreateLocal DEF Creating
<1>6. CASE group[s].list # <<>>
  <2>1. /\ pc'[s] = "insert" /\ group'[s].shards = group[s].shards
        /\ group'[s].list = group[s].list /\ group'[s].at = 1 /\ group'[s].left = GroupSize
        /\ group'[s].saved = own[s] /\ DOMAIN group'[s] = DOMAIN group[s]
    BY <1>1, <1>4, <1>6 DEF CreateGroup, RowsTyped
  <2>2. SessionTyped(s)'
    BY <1>1, <1>2, <2>1, MetaRowsAssumptions
       DEF SessionInv, SessionTyped, CreateStays, Steps, Creating
  <2>3. InShards(s)' = InShards(s) /\ InList(s, 1)' = InList(s, 1)
        /\ InList(s, group[s].at)' = InList(s, 1)
    BY <1>2, <2>1 DEF InShards, InList, CreateStays
  <2>4. ItemsDone(s, own[s], InShards(s) \cup InList(s, 1))
    BY <1>1 DEF SessionInv, CreateIsSound, Creating
  <2>5. /\ ItemsDone(s, group[s].saved, InShards(s) \cup InList(s, 1))'
        /\ ItemsDone(s, own[s], InShards(s) \cup InList(s, group[s].at))'
    BY <1>1, <1>2, <2>1, <2>3, <2>4 DEF ItemsDone, CreateStays
  <2>6. group'[s].at <= Len(group'[s].list) + 1
    BY <1>1, <2>1 DEF SessionInv, SessionTyped
  <2>7. CreateIsSound(s)'
    BY <1>1, <1>2, <2>1, <2>3, <2>5, <2>6 DEF SessionInv, CreateIsSound, CreateStays, Creating
  <2> QED BY <1>1, <1>2, <1>3, <2>1, <2>2, <2>7, CreateLocal DEF Creating
<1> QED BY <1>5, <1>6

\* What is known of the item at hand.
LEMMA AtHand ==
    ASSUME RowsInv, NEW s \in Sessions, pc[s] = "insert", ~GroupIsOver(s)
    PROVE  /\ group[s].at \in 1..Len(group[s].list) /\ group[s].left \in Nat \ {0}
           /\ CreateIndex(s) \in DOMAIN ids[s] \ InShards(s) /\ CreateIndex(s) \in InList(s, 1)
           /\ CreateKey(s) \in InodeKeys /\ ids[s][CreateIndex(s)] \in Nat
           /\ answer[s] \in [DOMAIN ids[s] -> {"SUCCESS", "FILE_EXISTS"}]
           /\ InList(s, group[s].at + 1) = InList(s, group[s].at) \ {CreateIndex(s)}
<1>1. SessionInv(s)
  BY DEF RowsInv
<1>2. /\ group[s].at \in 1..Len(group[s].list) /\ group[s].left \in Nat \ {0}
      /\ Len(group[s].list) \in Nat
  BY <1>1 DEF SessionInv, SessionTyped, GroupIsOver
<1>3. /\ \A j \in 1..Len(group[s].list) :
           /\ group[s].list[j] \in DOMAIN ids[s] \ InShards(s)
           /\ \A l \in 1..Len(group[s].list) : group[s].list[j] = group[s].list[l] => j = l
      /\ answer[s] \in [DOMAIN ids[s] -> {"SUCCESS", "FILE_EXISTS"}]
  BY <1>1 DEF SessionInv, CreateIsSound, Creating
<1>4. CreateIndex(s) \in DOMAIN ids[s] \ InShards(s) /\ CreateIndex(s) \in InList(s, 1)
  BY <1>2, <1>3 DEF CreateIndex, InList
<1>5. CreateKey(s) \in InodeKeys /\ ids[s][CreateIndex(s)] \in Nat
  BY <1>4, CreateItems, KeysDiffer DEF CreateKey, Creating
<1>6. InList(s, group[s].at + 1) = InList(s, group[s].at) \ {CreateIndex(s)}
  <2> DEFINE list == group[s].list
             at == group[s].at
             n == Len(list)
  <2>1. n \in Nat /\ at \in 1..n /\ \A j, l \in 1..n : list[j] = list[l] => j = l
    BY <1>2, <1>3
  <2> HIDE DEF list, at, n
  <2>2. {list[j] : j \in (at + 1)..n} = {list[j] : j \in at..n} \ {list[at]}
    BY <2>1
  <2> QED BY <2>2 DEF list, at, n, InList, CreateIndex
<1> QED BY <1>2, <1>3, <1>4, <1>5, <1>6

\* An item is inserted: its row is the transaction's, and one item less is
\* pending (FalconCreateHandle).
LEMMA InsertStep ==
    ASSUME RowsInv, NEW s \in Sessions, CreateInsert(s)
    PROVE  RowsInv'
<1>1. RowsTyped /\ SessionInv(s) /\ pc[s] = "insert" /\ pc' = pc /\ answer' = answer
      /\ ~GroupIsOver(s)
  BY DEF RowsInv, CreateInsert
<1>2. CreateStays(s)
  BY <1>1 DEF CreateInsert, CreateStays, Rest
<1>3. DOMAIN group[s] = {"shards", "list", "at", "left", "saved"}
  BY <1>1 DEF SessionInv, SessionTyped, NoGroup
<1> DEFINE i == CreateIndex(s)
           k == CreateKey(s)
<1>4. /\ group[s].at \in 1..Len(group[s].list) /\ group[s].left \in Nat \ {0}
      /\ i \in DOMAIN ids[s] \ InShards(s) /\ i \in InList(s, 1)
      /\ k \in InodeKeys /\ ids[s][i] \in Nat
      /\ answer[s] \in [DOMAIN ids[s] -> {"SUCCESS", "FILE_EXISTS"}]
      /\ InList(s, group[s].at + 1) = InList(s, group[s].at) \ {i}
  BY <1>1, AtHand
<1>5. \A x \in DOMAIN own[s] : x \in InodeKeys
  BY <1>1 DEF SessionInv, StepFits, OneWriter, Creating, InodeUpdates, UpdateOps
<1>6. /\ DOMAIN group' = Sessions /\ \A o \in Sessions \ {s} : group'[o] = group[o]
      /\ group'[s].shards = group[s].shards /\ group'[s].list = group[s].list
      /\ group'[s].at = group[s].at + 1 /\ group'[s].left \in {group[s].left, group[s].left - 1}
      /\ group'[s].saved = group[s].saved /\ DOMAIN group'[s] = DOMAIN group[s]
  BY <1>1, <1>3 DEF CreateInsert, RowsTyped
<1>7. InShards(s)' = InShards(s) /\ InList(s, 1)' = InList(s, 1)
      /\ InList(s, group[s].at)' = InList(s, group[s].at) \ {i}
  <2>1. InList(s, group[s].at)' = InList(s, group[s].at + 1)
    BY <1>6 DEF InList
  <2> QED BY <1>2, <1>4, <1>6, <2>1 DEF InShards, InList, CreateStays
<1>8. /\ ItemsDone(s, group[s].saved, InShards(s) \cup InList(s, 1))
      /\ ItemsDone(s, own[s], InShards(s) \cup InList(s, group[s].at))
      /\ DOMAIN group[s].saved \subseteq DOMAIN own[s]
      /\ DOMAIN ids[s] = DOMAIN job[s].items
      /\ \A j \in 1..Len(group[s].list) :
           /\ group[s].list[j] \in DOMAIN ids[s] \ InShards(s)
           /\ \A l \in 1..Len(group[s].list) : group[s].list[j] = group[s].list[l] => j = l
  BY <1>1 DEF SessionInv, CreateIsSound, Creating
<1>9. ItemsDone(s, group[s].saved, InShards(s) \cup InList(s, 1))'
  BY <1>1, <1>2, <1>6, <1>7, <1>8 DEF ItemsDone, CreateStays
<1>10. group'[s].at <= Len(group'[s].list) + 1 /\ group'[s].at \in Nat \ {0} /\ group'[s].left \in Nat
  BY <1>4, <1>6
<1> HIDE DEF i, k
<1>11. ASSUME AreRows(own'[s]), DOMAIN own[s] \subseteq DOMAIN own'[s],
              ItemsDone(s, own[s], InShards(s) \cup InList(s, group[s].at))'
       PROVE  SessionTyped(s)' /\ CreateIsSound(s)'
  <2>1. SessionTyped(s)'
    BY <1>1, <1>2, <1>6, <1>10, <1>11 DEF SessionInv, SessionTyped, CreateStays
  <2>2. DOMAIN group'[s].saved \subseteq DOMAIN own'[s]
    BY <1>6, <1>8, <1>11
  <2>3. CreateIsSound(s)'
    BY <1>1, <1>2, <1>4, <1>6, <1>7, <1>8, <1>9, <1>10, <1>11, <2>2
       DEF CreateIsSound, CreateStays
  <2> QED BY <2>1, <2>3
<1>12. CASE answer[s][i] = "FILE_EXISTS"
  <2>1. own' = own
    BY <1>12 DEF CreateInsert, i
  <2>2. ItemsDone(s, own[s], InShards(s) \cup InList(s, group[s].at))'
    BY <1>1, <1>2, <1>4, <1>7, <1>8, <1>12, <2>1 DEF ItemsDone, CreateStays
  <2>3. SessionTyped(s)' /\ CreateIsSound(s)'
    BY <1>1, <1>11, <2>1, <2>2 DEF SessionInv, SessionTyped
  <2>4. Local(s)
    BY <1>1, <1>6, <2>1 DEF CreateInsert, Rest, history, Local, SameBut, RowsTyped
  <2> QED BY <1>1, <1>2, <1>5, <2>1, <2>3, <2>4, CreateLocal DEF Creating
<1>13. CASE answer[s][i] # "FILE_EXISTS"
  <2> DEFINE row == File(ids[s][i])
  <2>1. Free(s, k) /\ Sees(s, k) = None /\ Write(s, k, row) /\ answer[s][i] = "SUCCESS"
    BY <1>4, <1>13 DEF CreateInsert, i, k
  <2>2. row \in Row /\ row.id = ids[s][i]
    BY <1>4 DEF File, Row
  <2> HIDE DEF row
  <2>3. /\ DOMAIN own' = Sessions /\ \A o \in Sessions \ {s} : own'[o] = own[o]
        /\ DOMAIN own'[s] = DOMAIN own[s] \cup {k} /\ own'[s][k] = row
        /\ \A x \in DOMAIN own[s] \ {k} : own'[s][x] = own[s][x]
        /\ AreRows(own'[s])
    BY <1>4, <2>1, <2>2, WriteStep, KeysDiffer
  <2>4. k \notin DOMAIN own[s]
    <3>1. \A x \in DOMAIN own[s] : own[s][x] # None
      <4>1. \A x : File(x) # None
        BY DEF File, None
      <4> QED BY <1>8, <4>1 DEF ItemsDone
    <3> QED BY <2>1, <3>1 DEF Sees
  <2>5. k = InodeKey(job[s].items[i])
    BY DEF k, i, CreateKey
  <2>6. ItemsDone(s, own[s], InShards(s) \cup InList(s, group[s].at))'
    <3> DEFINE P == InShards(s) \cup InList(s, group[s].at)
               Q == InShards(s) \cup (InList(s, group[s].at) \ {i})
    <3>1. i \notin Q /\ \A j : j \notin Q => j = i \/ j \notin P
      <4>1. i \notin InShards(s)
        BY <1>4
      <4> QED BY <4>1
    <3>2. Q \subseteq P
      OBVIOUS
    <3>3. ItemsDone(s, own[s], P)
      BY <1>8
    <3>4. (InShards(s) \cup InList(s, group[s].at))' = Q
      BY <1>7
    <3> HIDE DEF P, Q
    <3>5. \A x \in DOMAIN own'[s] : \E j \in DOMAIN ids[s] \ Q :
            x = InodeKey(job[s].items[j]) /\ own'[s][x] = File(ids[s][j])
            /\ answer[s][j] = "SUCCESS"
      <4> SUFFICES ASSUME NEW x \in DOMAIN own'[s]
                   PROVE  \E j \in DOMAIN ids[s] \ Q :
                            x = InodeKey(job[s].items[j]) /\ own'[s][x] = File(ids[s][j])
                            /\ answer[s][j] = "SUCCESS"
        OBVIOUS
      <4>1. CASE x = k
        BY <1>4, <2>1, <2>3, <2>5, <3>1, <4>1 DEF row
      <4>2. CASE x # k
        <5>1. x \in DOMAIN own[s] /\ own'[s][x] = own[s][x]
          BY <2>3, <4>2
        <5> QED BY <3>2, <3>3, <5>1 DEF ItemsDone
      <4> QED BY <4>1, <4>2
    <3>6. \A j \in DOMAIN ids[s] \ Q : answer[s][j] = "SUCCESS" =>
            /\ InodeKey(job[s].items[j]) \in DOMAIN own'[s]
            /\ own'[s][InodeKey(job[s].items[j])].id = ids[s][j]
      <4> SUFFICES ASSUME NEW j \in DOMAIN ids[s] \ Q, answer[s][j] = "SUCCESS"
                   PROVE  /\ InodeKey(job[s].items[j]) \in DOMAIN own'[s]
                          /\ own'[s][InodeKey(job[s].items[j])].id = ids[s][j]
        OBVIOUS
      <4>1. CASE j = i
        BY <2>2, <2>3, <2>5, <4>1
      <4>2. CASE j # i
        <5>1. /\ InodeKey(job[s].items[j]) \in DOMAIN own[s]
              /\ own[s][InodeKey(job[s].items[j])].id = ids[s][j]
          BY <3>1, <3>3, <4>2 DEF ItemsDone
        <5> QED BY <2>3, <2>4, <5>1
      <4> QED BY <4>1, <4>2
    <3> QED BY <1>1, <1>2, <3>4, <3>5, <3>6 DEF ItemsDone, CreateStays
  <2>7. SessionTyped(s)' /\ CreateIsSound(s)'
    BY <1>11, <2>3, <2>6
  <2>8. Local(s)
    <3>1. \A x \in DOMAIN own'[s] : x \in DOMAIN own[s] \/ Free(s, x)
      BY <2>1, <2>3
    <3> QED BY <1>1, <1>6, <2>3, <3>1
            DEF CreateInsert, Rest, history, Local, SameBut, RowsTyped
  <2>9. \A x \in DOMAIN own'[s] : x \in InodeKeys
    BY <1>4, <1>5, <2>3
  <2> QED BY <1>1, <1>2, <2>7, <2>8, <2>9, CreateLocal DEF Creating
<1> QED BY <1>12, <1>13

\* The rest of a sequence from a place on.
IsRest(rest, list, at) ==
    /\ rest \in Seq(Nat) /\ Len(rest) = Len(list) - at + 1
    /\ \A j \in 1..Len(rest) : rest[j] = list[at + j - 1] /\ at + j - 1 \in at..Len(list)
    /\ \A l \in at..Len(list) : \E j \in 1..Len(rest) : list[l] = rest[j]

\* What is left of a list from a place on is the list's elements from there on.
LEMMA RestOfSeq ==
    ASSUME NEW list \in Seq(Nat), NEW at \in Nat \ {0}, at <= Len(list) + 1
    PROVE  IsRest(SubSeq(list, at, Len(list)), list, at)
<1> DEFINE rest == SubSeq(list, at, Len(list))
<1>1. at \in Int /\ Len(list) \in Int /\ \A i \in at..Len(list) : list[i] \in Nat
  OBVIOUS
<1>2. /\ rest \in Seq(Nat) /\ Len(rest) = Len(list) - at + 1
      /\ \A j \in 1..(Len(list) - at + 1) : rest[j] = list[at + j - 1]
  BY <1>1, SubSeqProperties
<1>3. \A j \in 1..Len(rest) : at + j - 1 \in at..Len(list)
  BY <1>1, <1>2
<1>4. \A l \in at..Len(list) : \E j \in 1..Len(rest) : list[l] = rest[j]
  <2> SUFFICES ASSUME NEW l \in at..Len(list)
               PROVE  \E j \in 1..Len(rest) : list[l] = rest[j]
    OBVIOUS
  <2>1. l - at + 1 \in 1..(Len(list) - at + 1) /\ at + (l - at + 1) - 1 = l
    BY <1>1
  <2> QED BY <1>2, <2>1
<1> QED BY <1>2, <1>3, <1>4 DEF IsRest

\* What the group has handled leaves the list.
LEMMA GroupDoneStep ==
    ASSUME RowsInv, NEW s \in Sessions, CreateGroupDone(s)
    PROVE  RowsInv'
<1>1. RowsTyped /\ SessionInv(s) /\ pc[s] = "insert" /\ pc'[s] = "group" /\ answer' = answer
      /\ own' = own
  BY DEF RowsInv, CreateGroupDone, RowsTyped
<1>2. CreateStays(s) /\ Local(s)
  BY <1>1 DEF CreateGroupDone, CreateStays, Rest, history, Local, SameBut, RowsTyped
<1>3. DOMAIN group[s] = {"shards", "list", "at", "left", "saved"}
  BY <1>1 DEF SessionInv, SessionTyped, NoGroup
<1> DEFINE list == group[s].list
           at == group[s].at
           rest == SubSeq(list, at, Len(list))
<1>4. /\ group'[s].shards = group[s].shards /\ group'[s].list = rest
      /\ group'[s].at = at /\ group'[s].left = group[s].left
      /\ group'[s].saved = group[s].saved /\ DOMAIN group'[s] = DOMAIN group[s]
  BY <1>1, <1>3 DEF CreateGroupDone, RowsTyped
<1>5. list \in Seq(Nat) /\ at \in Nat \ {0} /\ at <= Len(list) + 1
  BY <1>1 DEF SessionInv, SessionTyped, CreateIsSound, Creating
<1>6. /\ \A j \in 1..Len(list) :
           /\ list[j] \in DOMAIN ids[s] \ InShards(s)
           /\ \A l \in 1..Len(list) : list[j] = list[l] => j = l
      /\ answer[s] \in [DOMAIN ids[s] -> {"SUCCESS", "FILE_EXISTS"}]
      /\ DOMAIN ids[s] = DOMAIN job[s].items
      /\ ItemsDone(s, own[s], InShards(s) \cup InList(s, at))
  BY <1>1 DEF SessionInv, CreateIsSound, Creating
<1>7. /\ rest \in Seq(Nat) /\ Len(rest) = Len(list) - at + 1
      /\ \A j \in 1..Len(rest) : rest[j] = list[at + j - 1] /\ at + j - 1 \in at..Len(list)
      /\ \A l \in at..Len(list) : \E j \in 1..Len(rest) : list[l] = rest[j]
  <2> HIDE DEF list, at
  <2>1. IsRest(rest, list, at)
    BY <1>5, RestOfSeq
  <2> HIDE DEF rest
  <2> QED BY <2>1 DEF IsRest
<1>8. InList(s, 1)' = InList(s, at)
  <2>1. InList(s, 1)' = {rest[j] : j \in 1..Len(rest)}
    BY <1>4 DEF InList
  <2>2. InList(s, at) = {list[j] : j \in at..Len(list)}
    BY DEF InList
  <2> HIDE DEF rest, list, at
  <2>3. \A j \in 1..Len(rest) : rest[j] \in {list[l] : l \in at..Len(list)}
    BY <1>7
  <2>4. \A l \in at..Len(list) : list[l] \in {rest[j] : j \in 1..Len(rest)}
    BY <1>7
  <2> QED BY <2>1, <2>2, <2>3, <2>4
<1>9. InShards(s)' = InShards(s)
  BY <1>2, <1>4 DEF InShards, CreateStays
<1> HIDE DEF rest, list, at
<1>10. ItemsDone(s, own[s], InShards(s) \cup InList(s, 1))'
  BY <1>1, <1>2, <1>6, <1>8, <1>9 DEF ItemsDone, CreateStays
<1>11. SessionTyped(s)'
  BY <1>1, <1>2, <1>4, <1>5, <1>7 DEF SessionInv, SessionTyped, CreateStays, Steps, Creating
<1>12. \A j \in 1..Len(rest) :
           /\ rest[j] \in DOMAIN ids[s] \ InShards(s)
           /\ \A l \in 1..Len(rest) : rest[j] = rest[l] => j = l
  <2>1. \A j \in at..Len(list) : j \in 1..Len(list)
    BY <1>5
  <2> SUFFICES ASSUME NEW j \in 1..Len(rest)
               PROVE  /\ rest[j] \in DOMAIN ids[s] \ InShards(s)
                      /\ \A l \in 1..Len(rest) : rest[j] = rest[l] => j = l
    OBVIOUS
  <2>2. rest[j] \in DOMAIN ids[s] \ InShards(s)
    BY <1>6, <1>7, <2>1
  <2>3. ASSUME NEW l \in 1..Len(rest), rest[j] = rest[l] PROVE j = l
    <3>1. PICK a \in 1..Len(list) : a = at + j - 1 /\ rest[j] = list[a]
      BY <1>7, <2>1
    <3>2. PICK b \in 1..Len(list) : b = at + l - 1 /\ rest[l] = list[b]
      BY <1>7, <2>1
    <3>3. a = b
      BY <1>6, <2>3, <3>1, <3>2
    <3> QED BY <1>5, <3>1, <3>2, <3>3
  <2> QED BY <2>2, <2>3
<1>13. CreateIsSound(s)'
  <2>1. /\ ids' = ids /\ job' = job
    BY <1>2 DEF CreateStays
  <2> QED BY <1>1, <1>4, <1>6, <1>9, <1>10, <1>12, <2>1 DEF CreateIsSound
<1>14. \A k \in DOMAIN own'[s] : k \in InodeKeys
  BY <1>1 DEF SessionInv, StepFits, OneWriter, Creating, InodeUpdates, UpdateOps
<1> QED BY <1>1, <1>2, <1>11, <1>13, <1>14, CreateLocal DEF Creating

\* A group that fails has written nothing, and the item that failed is answered.
LEMMA RollbackStep ==
    ASSUME RowsInv, NEW s \in Sessions, pc[s] = "insert", ~GroupIsOver(s), CreateRollback(s)
    PROVE  RowsInv'
<1>1. RowsTyped /\ SessionInv(s) /\ pc'[s] = "group" /\ group' = group
      /\ own'[s] = group[s].saved
  BY DEF RowsInv, CreateRollback, RowsTyped
<1> DEFINE i == CreateIndex(s)
<1>2. /\ i \in DOMAIN ids[s] /\ i \in InList(s, 1)
      /\ answer[s] \in [DOMAIN ids[s] -> {"SUCCESS", "FILE_EXISTS"}]
  BY AtHand
<1>3. /\ ItemsDone(s, group[s].saved, InShards(s) \cup InList(s, 1))
      /\ DOMAIN group[s].saved \subseteq DOMAIN own[s]
      /\ DOMAIN ids[s] = DOMAIN job[s].items
      /\ \A j \in 1..Len(group[s].list) :
           /\ group[s].list[j] \in DOMAIN ids[s] \ InShards(s)
           /\ \A l \in 1..Len(group[s].list) : group[s].list[j] = group[s].list[l] => j = l
  BY <1>1 DEF SessionInv, CreateIsSound, Creating
<1>4. CreateStays(s) /\ Local(s)
  BY <1>1, <1>3 DEF CreateRollback, CreateStays, Rest, history, Local, SameBut, RowsTyped
<1>5. answer'[s] = [answer[s] EXCEPT ![i] = "FILE_EXISTS"]
  BY <1>1 DEF CreateRollback, RowsTyped
<1> HIDE DEF i
<1>6. /\ answer'[s] \in [DOMAIN ids[s] -> {"SUCCESS", "FILE_EXISTS"}]
      /\ \A j \in DOMAIN ids[s] : j # i => answer'[s][j] = answer[s][j]
  BY <1>2, <1>5
<1>7. InShards(s)' = InShards(s) /\ InList(s, 1)' = InList(s, 1)
  BY <1>1, <1>4 DEF InShards, InList, CreateStays
<1>8. ItemsDone(s, own[s], InShards(s) \cup InList(s, 1))'
  <2> DEFINE P == InShards(s) \cup InList(s, 1)
  <2>1. (InShards(s) \cup InList(s, 1))' = P /\ i \in P
    BY <1>2, <1>7
  <2>2. ItemsDone(s, group[s].saved, P)
    BY <1>3
  <2> HIDE DEF P
  <2>3. \A j \in DOMAIN ids[s] \ P : answer'[s][j] = answer[s][j]
    BY <1>6, <2>1
  <2> QED BY <1>1, <1>4, <2>1, <2>2, <2>3 DEF ItemsDone, CreateStays
<1>9. SessionTyped(s)'
  BY <1>1, <1>4 DEF SessionInv, SessionTyped, CreateStays, Steps, Creating
<1>10. CreateIsSound(s)'
  <2>1. /\ ids' = ids /\ job' = job
    BY <1>4 DEF CreateStays
  <2> QED BY <1>1, <1>3, <1>6, <1>7, <1>8, <2>1 DEF CreateIsSound
<1>11. \A k \in DOMAIN own'[s] : k \in InodeKeys
  BY <1>1, <1>3 DEF SessionInv, StepFits, OneWriter, Creating, InodeUpdates, UpdateOps
<1> QED BY <1>1, <1>4, <1>9, <1>10, <1>11, CreateLocal DEF Creating

\* The session that is to end a deadlock loses its group or its transaction.
LEMMA VictimStep ==
    ASSUME RowsInv, NEW s \in Sessions, DeadlockVictim(s)
    PROVE  RowsInv'
<1>1. \/ pc[s] \in {"write", "delete"}
      \/ pc[s] = "insert" /\ ~GroupIsOver(s)
  BY DEF DeadlockVictim, BlockedBy
<1> QED BY <1>1, FailStep, RollbackStep DEF DeadlockVictim, Working

-----------------------------------------------------------------------------
(* Inode ids.                                                               *)

\* The ids of a block, and what the ids that are drawn from one have to be: of
\* the block in hand or new from the sequence, different, and not in the block
\* that is left.
Block(c) == c.next..(c.next + c.left - 1)
DrawnWell(c, q, n, d) ==
    /\ d.got \in [1..n -> Nat] /\ d.got \in Seq(Nat)
    /\ d.cache \in [left : Nat, next : Nat] /\ d.sequence \in Nat /\ q <= d.sequence
    /\ \A i \in 1..n : /\ d.got[i] \in Block(c) \cup (q..(d.sequence - 1))
                       /\ d.got[i] \notin Block(d.cache)
    /\ \A i, j \in 1..n : d.got[i] = d.got[j] => i = j
    /\ Block(d.cache) \subseteq Block(c) \cup (q..(d.sequence - 1))

\* As many whole blocks as are needed hold as many ids as are needed.
LEMMA WholeBlocks ==
    ASSUME NEW more \in Nat, NEW size \in Nat \ {0}
    PROVE  LET taken == ((more + size - 1) \div size) * size
           IN  taken \in Nat /\ more <= taken /\ (more = 0 => taken = 0)
<1> DEFINE a == more + size - 1
           b == a \div size
<1>1. a \in Nat
  OBVIOUS
<1>2. b \in Nat /\ a < b * size + size /\ (a < size => b = 0)
  <2> HIDE DEF a
  <2> QED BY <1>1
<1>3. b * size \in Nat
  <2> HIDE DEF b
  <2> QED BY <1>2
<1> QED BY <1>2, <1>3

\* A draw gives ids that are different from each other, out of the backend's
\* block or out of the sequence, and keeps none of them (GetNextSequenceNum).
LEMMA DrawIsFresh ==
    ASSUME NEW c \in [left : Nat, next : Nat], NEW q \in Nat, NEW n \in Nat,
           Block(c) \subseteq 0..(q - 1)
    PROVE  DrawnWell(c, q, n, GetNextSequenceNum(c, q, n))
<1> DEFINE left == c.left
           next == c.next
           more == IF n > left THEN n - left ELSE 0
           taken == ((more + BlockSize - 1) \div BlockSize) * BlockSize
           id(i) == IF i <= left THEN next + i - 1 ELSE q + i - left - 1
           left2 == left + taken - n
           next2 == IF more = 0 THEN next + n ELSE q + more
           d == GetNextSequenceNum(c, q, n)
<1>1. left \in Nat /\ next \in Nat /\ more \in Nat /\ BlockSize \in Nat \ {0}
  BY MetaRowsAssumptions
<1>2. taken \in Nat /\ more <= taken /\ (more = 0 => taken = 0)
  <2> HIDE DEF more
  <2> QED BY <1>1, WholeBlocks
<1>3. /\ d.got = [i \in 1..n |-> id(i)] /\ d.cache = [left |-> left2, next |-> next2]
      /\ d.sequence = q + taken
  BY DEF GetNextSequenceNum
<1>4. left > 0 => next + left <= q
  <2> SUFFICES ASSUME left > 0 PROVE next + left <= q
    OBVIOUS
  <2>1. next + left - 1 \in Block(c)
    BY <1>1 DEF Block
  <2> QED BY <1>1, <2>1
<1> HIDE DEF taken, d, left, next
<1>5. left2 \in Nat /\ next2 \in Nat /\ q + taken \in Nat
  BY <1>1, <1>2
<1>6. \A i \in 1..n : id(i) \in Nat
  BY <1>1, <1>2
<1>7. \A i \in 1..n : id(i) \in (next..(next + left - 1)) \cup (q..(q + taken - 1))
  BY <1>1, <1>2
<1>8. \A i \in 1..n : id(i) \notin next2..(next2 + left2 - 1)
  BY <1>1, <1>2, <1>4
<1>9. \A i, j \in 1..n : id(i) = id(j) => i = j
  BY <1>1, <1>2, <1>4
<1>10. next2..(next2 + left2 - 1) \subseteq (next..(next + left - 1)) \cup (q..(q + taken - 1))
  BY <1>1, <1>2
<1>11. Block(c) = next..(next + left - 1) /\ Block(d.cache) = next2..(next2 + left2 - 1)
  BY <1>3 DEF Block, left, next
<1> HIDE DEF left2, next2, id
<1>12. d.got \in [1..n -> Nat] /\ \A i \in 1..n : d.got[i] = id(i)
  BY <1>3, <1>6
<1>13. d.got \in Seq(Nat)
  BY <1>12
<1>14. d.cache \in [left : Nat, next : Nat] /\ d.sequence \in Nat /\ q <= d.sequence
  BY <1>2, <1>3, <1>5
<1>15. q..(d.sequence - 1) = q..(q + taken - 1)
  <2>1. d.sequence = q + taken
    BY <1>3
  <2> QED BY <2>1, <1>2
<1>16. \A i \in 1..n : /\ d.got[i] \in Block(c) \cup (q..(d.sequence - 1))
                       /\ d.got[i] \notin Block(d.cache)
  BY <1>7, <1>8, <1>11, <1>12, <1>15
<1>17. \A i, j \in 1..n : d.got[i] = d.got[j] => i = j
  BY <1>9, <1>12
<1>18. Block(d.cache) \subseteq Block(c) \cup (q..(d.sequence - 1))
  BY <1>10, <1>11, <1>15
<1>19. DrawnWell(c, q, n, d)
  BY <1>12, <1>13, <1>14, <1>16, <1>17, <1>18 DEF DrawnWell
<1> QED BY <1>19 DEF d

\* What a request finds when it begins.
BegunWith(s, r, n, d) ==
    /\ job'[s] = r /\ ids'[s] = d.got /\ cache'[s] = d.cache /\ sequence' = d.sequence
    /\ answer'[s] = [i \in 1..Len(r.items) |-> "SUCCESS"]
    /\ n = IF r.op = "create" THEN Len(r.items) ELSE 0
    /\ group'[s].shards = {ShardOf[r.items[i]] : i \in 1..n}
    /\ group'[s].list = <<>> /\ group'[s].at = 1 /\ group'[s].left = 0
    /\ group'[s].saved = NoFun /\ DOMAIN group'[s] = DOMAIN NoGroup
    /\ pc'[s] = IF r.op = "create" THEN "shard" ELSE IF r.op = "readdir" THEN "scan" ELSE "item"
    /\ own' = own /\ seen' = seen /\ turn' = turn /\ table' = table
    /\ granted' = granted /\ updated' = updated

\* The ids that are drawn when it begins are fresh.
LEMMA BeginIds ==
    ASSUME RowsInv, NEW s \in Sessions, pc[s] = "start", pc'[s] # "start", Beside(s),
           NEW n \in Nat, NEW d, DrawnWell(cache[s], sequence, n, d),
           ids'[s] = d.got, cache'[s] = d.cache, sequence' = d.sequence
    PROVE  IdsAreFresh'
<1> DEFINE q == sequence
           q2 == sequence'
           fresh == Cached(s) \cup (q..(q2 - 1))
<1>1. IdsAreFresh /\ q \in Nat /\ q2 \in Nat /\ q <= q2 /\ FirstId \in Nat
  BY MetaRowsAssumptions DEF RowsInv, RowsTyped, DrawnWell
<1>2. /\ FirstId <= q /\ \A o \in Sessions : Cached(o) \subseteq FirstId..(q - 1)
      /\ \A o \in Sessions \ {s} : Cached(s) \cap Cached(o) = {}
      /\ \A o \in Sessions : \A j \in DOMAIN ids[o] :
           ids[o][j] \in FirstId..(q - 1) /\ \A p \in Sessions : ids[o][j] \notin Cached(p)
  BY <1>1 DEF IdsAreFresh
<1>3. /\ Cached(s)' \subseteq fresh
      /\ DOMAIN ids'[s] = 1..n
      /\ \A i \in 1..n : ids'[s][i] \in fresh /\ ids'[s][i] \notin Cached(s)'
      /\ \A i, j \in 1..n : ids'[s][i] = ids'[s][j] => i = j
  BY DEF DrawnWell, Block, Cached
<1>4. \A o \in Sessions \ {s} : Cached(o)' = Cached(o) /\ ids'[o] = ids[o] /\ pc'[o] = pc[o]
  BY DEF Beside, Cached
<1> HIDE DEF q, q2
<1>5. /\ fresh \subseteq FirstId..(q2 - 1)
      /\ \A x \in fresh, o \in Sessions \ {s} :
           x \notin Cached(o) /\ \A j \in DOMAIN ids[o] : x # ids[o][j]
  <2>1. \A x \in FirstId..(q - 1) : x \in FirstId..(q2 - 1) /\ x \notin q..(q2 - 1)
    BY <1>1
  <2>2. q..(q2 - 1) \subseteq FirstId..(q2 - 1)
    BY <1>1, <1>2
  <2> QED BY <1>2, <2>1, <2>2
<1> HIDE DEF fresh
<1>6. FirstId <= q2
  BY <1>1, <1>2
<1>7. \A o \in Sessions :
         /\ Cached(o)' \subseteq FirstId..(q2 - 1)
         /\ \A p \in Sessions \ {o} : Cached(o)' \cap Cached(p)' = {}
  <2>1. \A o \in Sessions \ {s} : Cached(o) \subseteq FirstId..(q2 - 1)
    BY <1>1, <1>2
  <2>2. \A o \in Sessions \ {s} : Cached(s)' \cap Cached(o) = {}
    BY <1>3, <1>5
  <2>3. \A o, p \in Sessions \ {s} : o # p => Cached(o) \cap Cached(p) = {}
    BY <1>1 DEF IdsAreFresh
  <2>4. Cached(s)' \subseteq FirstId..(q2 - 1)
    BY <1>3, <1>5
  <2>5. ASSUME NEW o \in Sessions
        PROVE  /\ Cached(o)' \subseteq FirstId..(q2 - 1)
               /\ \A p \in Sessions \ {o} : Cached(o)' \cap Cached(p)' = {}
    <3>1. CASE o = s
      BY <1>4, <2>2, <2>4, <3>1
    <3>2. CASE o # s
      <4>1. Cached(o)' = Cached(o)
        BY <1>4, <3>2
      <4>2. \A p \in Sessions \ {o} : Cached(o)' \cap Cached(p)' = {}
        BY <1>4, <2>2, <2>3, <3>2, <4>1
      <4> QED BY <2>1, <3>2, <4>1, <4>2
    <3> QED BY <3>1, <3>2
  <2> QED BY <2>5
<1>8. \A o \in Sessions : \A i \in DOMAIN ids'[o] :
              /\ ids'[o][i] \in FirstId..(q2 - 1)
              /\ \A p \in Sessions : ids'[o][i] \notin Cached(p)'
  <2>1. \A i \in DOMAIN ids'[s] : /\ ids'[s][i] \in FirstId..(q2 - 1)
                                  /\ \A p \in Sessions : ids'[s][i] \notin Cached(p)'
    <3> SUFFICES ASSUME NEW i \in DOMAIN ids'[s]
                 PROVE  /\ ids'[s][i] \in FirstId..(q2 - 1)
                        /\ \A p \in Sessions : ids'[s][i] \notin Cached(p)'
      OBVIOUS
    <3>1. ids'[s][i] \in fresh /\ ids'[s][i] \notin Cached(s)'
      BY <1>3
    <3>2. \A p \in Sessions \ {s} : ids'[s][i] \notin Cached(p)
      BY <1>5, <3>1
    <3> QED BY <1>4, <1>5, <3>1, <3>2
  <2>2. \A o \in Sessions \ {s} : \A i \in DOMAIN ids[o] :
           /\ ids[o][i] \in FirstId..(q2 - 1)
           /\ \A p \in Sessions : ids[o][i] \notin Cached(p)'
    <3>1. \A o \in Sessions \ {s} : \A i \in DOMAIN ids[o] : ids[o][i] \in FirstId..(q2 - 1)
      BY <1>1, <1>2
    <3>2. \A o \in Sessions \ {s} : \A i \in DOMAIN ids[o] : ids[o][i] \notin Cached(s)'
      <4>1. \A x \in Cached(s)' : x \in fresh
        BY <1>3
      <4>2. \A x \in fresh, o \in Sessions \ {s} : \A j \in DOMAIN ids[o] : x # ids[o][j]
        BY <1>5
      <4> QED BY <4>1, <4>2
    <3> QED BY <1>2, <1>4, <3>1, <3>2
  <2> QED BY <1>4, <2>1, <2>2
<1>9. \A o, p \in Sessions : \A i \in DOMAIN ids'[o], j \in DOMAIN ids'[p] :
                   ids'[o][i] = ids'[p][j] => o = p /\ i = j
  <2>1. \A o, p \in Sessions \ {s} : \A i \in DOMAIN ids[o], j \in DOMAIN ids[p] :
          ids[o][i] = ids[p][j] => o = p /\ i = j
    BY <1>1 DEF IdsAreFresh
  <2>2. \A o \in Sessions \ {s} : \A i \in DOMAIN ids[o], j \in DOMAIN ids'[s] :
          ids[o][i] # ids'[s][j]
    BY <1>3, <1>5
  <2> QED BY <1>3, <1>4, <2>1, <2>2
<1>10. \A o \in Sessions : pc'[o] = "start" => ids'[o] = <<>>
  BY <1>1, <1>4 DEF IdsAreFresh
<1> QED BY <1>6, <1>7, <1>8, <1>9, <1>10 DEF IdsAreFresh, q2

\* A request that begins has written nothing, and a create has all its items
\* ahead of it.
LEMMA BeginStep ==
    ASSUME RowsInv, NEW s \in Sessions, Begin(s)
    PROVE  RowsInv'
<1>1. RowsTyped /\ SessionInv(s) /\ pc[s] = "start" /\ group[s] = NoGroup /\ turn[s] = 1
      /\ DOMAIN own[s] = {}
  BY DEF RowsInv, Begin, SessionInv, StepFits, Creating, Working
<1> DEFINE size(r) == IF r.op = "create" THEN Len(r.items) ELSE 0
           draw(r) == GetNextSequenceNum(cache[s], sequence, size(r))
<1>2. PICK r \in Requests[s] :
        LET created == IF r.op = "create" THEN 1..Len(r.items) ELSE {} IN
        /\ job' = [job EXCEPT ![s] = r]
        /\ ids' = [ids EXCEPT ![s] = draw(r).got]
        /\ cache' = [cache EXCEPT ![s] = draw(r).cache] /\ sequence' = draw(r).sequence
        /\ answer' = [answer EXCEPT ![s] = [i \in 1..Len(r.items) |-> "SUCCESS"]]
        /\ group' = [group EXCEPT ![s].shards = {ShardOf[r.items[i]] : i \in created}]
        /\ pc' = [pc EXCEPT ![s] = CASE r.op = "create" -> "shard"
                                     [] r.op = "readdir" -> "scan" [] OTHER -> "item"]
  BY DEF Begin
<1>3. /\ own' = own /\ seen' = seen /\ turn' = turn /\ table' = table
      /\ granted' = granted /\ updated' = updated
  BY DEF Begin
<1>4. r.op \in Ops /\ r.items \in Seq(ItemsOf(r.op)) /\ Len(r.items) \in Nat
  BY MetaRowsAssumptions
<1> DEFINE n == size(r)
           d == draw(r)
<1>5. n \in Nat /\ (r.op = "create" => n = Len(r.items)) /\ (r.op # "create" => n = 0)
  BY <1>4
<1>6. BegunWith(s, r, n, d)
  <2>1. DOMAIN NoGroup = {"shards", "list", "at", "left", "saved"}
    BY DEF NoGroup
  <2> DEFINE created == IF r.op = "create" THEN 1..Len(r.items) ELSE {}
  <2>2. created = 1..n
    BY <1>4, <1>5
  <2>3. group'[s] = [NoGroup EXCEPT !.shards = {ShardOf[r.items[i]] : i \in 1..n}]
    <3>1. group'[s] = [NoGroup EXCEPT !.shards = {ShardOf[r.items[i]] : i \in created}]
      BY <1>1, <1>2 DEF RowsTyped
    <3> QED BY <2>2, <3>1
  <2> HIDE DEF n, d
  <2>4. /\ group'[s].shards = {ShardOf[r.items[i]] : i \in 1..n}
        /\ group'[s].list = <<>> /\ group'[s].at = 1 /\ group'[s].left = 0
        /\ group'[s].saved = NoFun /\ DOMAIN group'[s] = DOMAIN NoGroup
    BY <2>1, <2>3 DEF NoGroup
  <2>5. /\ job'[s] = r /\ ids'[s] = d.got /\ cache'[s] = d.cache /\ sequence' = d.sequence
        /\ answer'[s] = [i \in 1..Len(r.items) |-> "SUCCESS"]
    BY <1>1, <1>2 DEF RowsTyped, d
  <2>6. pc'[s] = IF r.op = "create" THEN "shard"
                 ELSE IF r.op = "readdir" THEN "scan" ELSE "item"
    BY <1>1, <1>2 DEF RowsTyped
  <2>7. n = IF r.op = "create" THEN Len(r.items) ELSE 0
    BY DEF n
  <2> QED BY <1>3, <2>4, <2>5, <2>6, <2>7 DEF BegunWith
<1>7. DrawnWell(cache[s], sequence, n, d)
  <2>1. cache[s] \in [left : Nat, next : Nat] /\ sequence \in Nat
    BY <1>1 DEF SessionInv, SessionTyped, RowsTyped
  <2>2. Block(cache[s]) \subseteq 0..(sequence - 1)
    <3>1. Block(cache[s]) \subseteq FirstId..(sequence - 1) /\ FirstId \in Nat
      BY MetaRowsAssumptions DEF RowsInv, IdsAreFresh, Cached, Block
    <3> QED BY <2>1, <3>1
  <2> HIDE DEF n
  <2> QED BY <1>5, <2>1, <2>2, DrawIsFresh DEF n
<1> HIDE DEF n, d, size, draw
<1>8. Beside(s)
  BY <1>1, <1>2, <1>3 DEF Beside, RowsTyped
<1>9. RowsTyped'
  BY <1>1, <1>2, <1>3, <1>6, <1>7 DEF RowsTyped, BegunWith, DrawnWell
<1>10. IdsAreFresh'
  BY <1>1, <1>5, <1>6, <1>7, <1>8, BeginIds DEF BegunWith
<1>11. GrantedBelow' /\ UpdatesKept'
  BY <1>3 DEF RowsInv, GrantedBelow, UpdatesKept
<1>12. IdsArePublished'
  <2>1. \A x : Published(x) => Published(x)'
    BY <1>1, <1>8 DEF Published, Beside
  <2> QED BY <1>3, <2>1 DEF RowsInv, IdsArePublished
<1>13. SessionInv(s)'
  <2>1. r.op = "create" => r.items \in Seq(Names)
    BY <1>4 DEF ItemsOf, SliceOps
  <2>2. SessionTyped(s)'
    <3>1. group'[s].shards \subseteq 1..Shards
      <4>1. group'[s].shards = {ShardOf[r.items[i]] : i \in 1..n}
        BY <1>6 DEF BegunWith
      <4>2. \A i \in 1..n : r.items[i] \in Names
        <5>1. CASE r.op = "create"
          BY <1>5, <2>1, <5>1
        <5>2. CASE r.op # "create"
          BY <1>5, <5>2
        <5> QED BY <5>1, <5>2
      <4>3. \A x \in Names : ShardOf[x] \in 1..Shards
        BY MetaRowsAssumptions
      <4> QED BY <4>1, <4>2, <4>3
    <3>2. AreRows(NoFun)
      BY DEF AreRows, NoFun
    <3>3. pc'[s] \in Steps
      BY <1>6 DEF BegunWith, Steps, Creating, Working
    <3>4. group'[s].list \in Seq(Nat)
      BY <1>6 DEF BegunWith
    <3>5. AreRows(own'[s]) /\ seen'[s] \in [row : Row, ver : Nat] /\ turn'[s] \in Nat \ {0}
      BY <1>1, <1>3 DEF SessionInv, SessionTyped
    <3> QED BY <1>6, <1>7, <3>1, <3>2, <3>3, <3>4, <3>5
            DEF BegunWith, DrawnWell, SessionTyped
  <2>3. Op(s)' = r.op /\ job'[s] = r /\ DOMAIN own'[s] = {} /\ turn'[s] = 1
    BY <1>1, <1>6 DEF BegunWith, Op
  <2>4. StepFits(s)'
    BY <1>6, <2>3 DEF BegunWith, StepFits, Creating, Working
  <2>5. OneWriter(s)' /\ SeenIsCurrent(s)' /\ CounterGoesOn(s)'
    BY <1>6, <2>3 DEF BegunWith, OneWriter, SeenIsCurrent, CounterGoesOn
  <2>6. CreateIsSound(s)'
    <3> SUFFICES ASSUME r.op = "create" PROVE CreateIsSound(s)'
      BY <1>6 DEF BegunWith, CreateIsSound, Creating
    <3>1. n = Len(r.items) /\ r.items \in Seq(Names) /\ DOMAIN r.items = 1..n
      BY <1>5, <2>1
    <3>2. DOMAIN ids'[s] = 1..n /\ pc'[s] = "shard" /\ group'[s].list = <<>>
      BY <1>6, <1>7 DEF BegunWith, DrawnWell
    <3>3. answer'[s] \in [1..n -> {"SUCCESS", "FILE_EXISTS"}]
      BY <1>6, <3>1 DEF BegunWith
    <3>4. \A i \in 1..n : i \in InShards(s)'
      <4>1. InShards(s)' = {i \in 1..n : ShardOf[r.items[i]] \in group'[s].shards}
        BY <2>3, <3>2 DEF InShards
      <4> QED BY <1>6, <4>1 DEF BegunWith
    <3>5. ItemsDone(s, own[s], InShards(s) \cup InList(s, 1))'
      BY <2>3, <3>2, <3>4 DEF ItemsDone
    <3>6. Len(group'[s].list) = 0
      BY <3>2
    <3> QED BY <2>3, <3>1, <3>2, <3>3, <3>5, <3>6 DEF CreateIsSound
  <2> QED BY <2>2, <2>4, <2>5, <2>6 DEF SessionInv
<1>14. \A o \in Sessions : SessionInv(o)'
  BY <1>8, <1>13, OthersStay
<1> QED BY <1>9, <1>10, <1>11, <1>12, <1>14 DEF RowsInv

-----------------------------------------------------------------------------
(* Commit.                                                                  *)

\* What a transaction publishes of inodes: a deletion, the committed row with
\* more updates, or a new file with an id drawn for it.
LEMMA WrittenInodes ==
    ASSUME RowsInv, NEW s \in Sessions, pc[s] \in {"item", "shard"}, NEW k \in DOMAIN own[s]
    PROVE  /\ own[s][k] \in Row /\ k \in Keys
           /\ k \notin InodeKeys => own[s][k].by = {}
           /\ k \in InodeKeys =>
                \/ KeepsUpdates(own[s][k], table[k].row)
                \/ \E i \in DOMAIN ids[s] : own[s][k] = File(ids[s][i])
<1>1. SessionInv(s)
  BY DEF RowsInv
<1>2. own[s][k] \in Row /\ k \in Keys
  BY <1>1 DEF SessionInv, SessionTyped, AreRows
<1>3. k \notin InodeKeys => own[s][k].by = {}
  BY <1>1 DEF SessionInv, OneWriter
<1>4. CASE Op(s) = "create"
  <2>1. pc[s] = "shard"
    BY <1>1, <1>4 DEF SessionInv, StepFits, Working
  <2>2. \E i \in DOMAIN ids[s] : own[s][k] = File(ids[s][i])
    BY <1>1, <2>1 DEF SessionInv, CreateIsSound, Creating, ItemsDone
  <2> QED BY <1>2, <1>3, <2>2
<1>5. CASE Op(s) # "create"
  <2>1. k \in InodeKeys => KeepsUpdates(own[s][k], table[k].row)
    BY <1>1, <1>5, KeysDiffer DEF SessionInv, OneWriter
  <2> QED BY <1>2, <1>3, <2>1
<1> QED BY <1>4, <1>5

\* What a commit does to the tables and to the histories.
Committed(s) ==
    /\ \A k \in Keys : /\ k \in DOMAIN own[s] =>
                            table'[k].row = own[s][k] /\ table'[k].ver = table[k].ver + 1
                       /\ k \notin DOMAIN own[s] => table'[k] = table[k]
    /\ \A o \in Sessions \ {s} : own'[o] = own[o] /\ pc'[o] = pc[o]
    /\ DOMAIN own'[s] = {} /\ own'[s] = NoFun /\ pc'[s] = "done"
    /\ UNCHANGED <<seen, group, job, turn, answer, ids, sequence, cache>>
    /\ pc[s] \in {"item", "shard"}
    /\ granted' = IF Op(s) # "fetch" THEN granted
                  ELSE granted \cup {[by |-> s, from |-> seen[s].row.id,
                                      to |-> own[s][SliceId].id]}
    /\ updated' = updated \cup
         {<<s, k, own[s][k].id>> : k \in {k \in DOMAIN own[s] : s \in own[s][k].by}}

\* A commit leaves what holds of another session as it is: the rows that this one
\* has written stay, and the row it has found is no longer the one it has found.
LEMMA CommitOthers ==
    ASSUME RowsInv, NEW s \in Sessions, NEW o \in Sessions \ {s}, Committed(s)
    PROVE  SessionInv(o)'
<1>1. /\ own'[o] = own[o] /\ seen'[o] = seen[o] /\ pc'[o] = pc[o] /\ turn'[o] = turn[o]
      /\ answer'[o] = answer[o] /\ group'[o] = group[o] /\ ids'[o] = ids[o]
      /\ job'[o] = job[o] /\ cache'[o] = cache[o]
  BY DEF Committed
<1>2. SessionInv(o)
  BY DEF RowsInv
<1>3. SessionTyped(o)'
  BY <1>1, <1>2 DEF SessionInv, SessionTyped
<1>4. StepFits(o)'
  BY <1>1, <1>2 DEF SessionInv, StepFits, Op, HasItem
<1>5. \A k \in DOMAIN own[o] : k \in Keys /\ table'[k] = table[k]
  BY <1>2 DEF Committed, SessionInv, SessionTyped, AreRows, OneWriter
<1>6. OneWriter(o)'
  <2> SUFFICES ASSUME NEW k \in DOMAIN own[o]
               PROVE  \A p \in Sessions \ {o} : k \notin DOMAIN own'[p]
    BY <1>1, <1>2, <1>5 DEF SessionInv, OneWriter, Op
  <2>1. \A p \in Sessions \ {o} : k \notin DOMAIN own[p]
    BY <1>2 DEF SessionInv, OneWriter
  <2> QED BY <2>1 DEF Committed
<1>7. SeenIsCurrent(o)'
  <2> SUFFICES ASSUME pc[o] = "write" PROVE SeenIsCurrent(o)'
    BY <1>1 DEF SeenIsCurrent
  <2>1. SeenKey(o) \in Keys /\ SeenKey(o)' = SeenKey(o) /\ Op(o)' = Op(o)
    <3>1. SeenKey(o) \in Keys
      BY <1>2, ItemHasKey, KeysDiffer DEF SeenKey, SessionInv, StepFits, Working
    <3> QED BY <1>1, <3>1 DEF SeenKey, ItemKey, Item, Op
  <2> DEFINE k == SeenKey(o)
  <2>2. /\ seen[o].ver <= table[k].ver
        /\ seen[o].ver = table[k].ver => seen[o].row = Sees(o, k)
        /\ Op(o) \in InodeUpdates => seen[o].row.id # 0
        /\ seen[o].ver \in Nat
    BY <1>2 DEF SessionInv, SeenIsCurrent, SessionTyped
  <2>3. table[k].ver \in Nat
    BY <2>1, SeesRow
  <2> HIDE DEF k
  <2>4. CASE k \in DOMAIN own[s]
    <3>1. table'[k].ver = table[k].ver + 1
      BY <2>1, <2>4 DEF Committed, k
    <3>2. seen[o].ver <= table'[k].ver /\ seen[o].ver # table'[k].ver
      BY <2>2, <2>3, <3>1
    <3> QED BY <1>1, <2>1, <2>2, <3>2 DEF SeenIsCurrent, k
  <2>5. CASE k \notin DOMAIN own[s]
    <3>1. table'[k] = table[k]
      BY <2>1, <2>5 DEF Committed, k
    <3>2. Sees(o, SeenKey(o))' = Sees(o, k)
      BY <1>1, <2>1, <3>1 DEF Sees, k
    <3> QED BY <1>1, <2>1, <2>2, <3>1, <3>2 DEF SeenIsCurrent, k
  <2> QED BY <2>4, <2>5
<1>8. CounterGoesOn(o)'
  BY <1>1, <1>2, <1>5 DEF SessionInv, CounterGoesOn, Op
<1>9. CreateIsSound(o)'
  BY <1>1, <1>2 DEF SessionInv, CreateIsSound, ItemsDone, InShards, InList
<1> QED BY <1>3, <1>4, <1>6, <1>7, <1>8, <1>9 DEF SessionInv

\* Slice ids are given out from where the committed counter ends.
LEMMA CommitGrants ==
    ASSUME RowsInv, NEW s \in Sessions, Committed(s), ~HasItem(s) \/ pc[s] = "shard"
    PROVE  /\ GrantedBelow'
           /\ \A a, b \in granted' : a # b => a.to <= b.from \/ b.to <= a.from
<1>1. SessionInv(s) /\ GrantedBelow
      /\ \A a, b \in granted : a # b => a.to <= b.from \/ b.to <= a.from
  BY DEF RowsInv, UpdatesKept
<1> DEFINE old == table[SliceId].row.id
           new == table'[SliceId].row.id
<1>2. old \in Nat
  BY SeesRow, KeysDiffer DEF Row
<1>3. CASE Op(s) # "fetch"
  <2>1. SliceId \notin DOMAIN own[s]
    BY <1>1, <1>3, KeysDiffer DEF SessionInv, OneWriter
  <2>2. table'[SliceId] = table[SliceId] /\ granted' = granted
    BY <1>3, <2>1, KeysDiffer DEF Committed
  <2> QED BY <1>1, <2>2 DEF GrantedBelow
<1>4. CASE Op(s) = "fetch"
  <2>1. pc[s] = "item" /\ ~HasItem(s)
    BY <1>1, <1>4 DEF Committed, SessionInv, StepFits, Creating
  <2>2. turn[s] # 1
    <3>1. Len(job[s].items) = 1
      BY <1>1, <1>4, <2>1, MetaRowsAssumptions DEF SessionInv, StepFits, Op
    <3> QED BY <2>1, <3>1 DEF HasItem
  <2>3. SliceId \in DOMAIN own[s] /\ seen[s].row.id = old /\ old <= own[s][SliceId].id
    BY <1>1, <1>4, <2>1, <2>2 DEF SessionInv, CounterGoesOn, Working
  <2>4. new = own[s][SliceId].id /\ own[s][SliceId] \in Row
    BY <1>1, <2>3, KeysDiffer DEF Committed, SessionInv, SessionTyped, AreRows
  <2>5. new \in Nat /\ old <= new
    BY <2>3, <2>4 DEF Row
  <2>6. granted' = granted \cup {[by |-> s, from |-> old, to |-> new]}
    BY <1>4, <2>3, <2>4 DEF Committed
  <2> HIDE DEF old, new
  <2>7. \A a \in granted : a.from \in Nat /\ a.to \in Nat /\ a.from <= a.to /\ a.to <= old
    BY <1>1 DEF GrantedBelow, old
  <2>8. \A a \in granted' : a.from \in Nat /\ a.to \in Nat /\ a.from <= a.to /\ a.to <= new
    <3> SUFFICES ASSUME NEW a \in granted'
                 PROVE  a.from \in Nat /\ a.to \in Nat /\ a.from <= a.to /\ a.to <= new
      OBVIOUS
    <3>1. CASE a \in granted
      BY <1>2, <2>5, <2>7, <3>1
    <3>2. CASE a = [by |-> s, from |-> old, to |-> new]
      BY <1>2, <2>5, <3>2
    <3> QED BY <2>6, <3>1, <3>2
  <2>9. GrantedBelow'
    BY <2>8 DEF GrantedBelow, new
  <2>10. \A a, b \in granted' : a # b => a.to <= b.from \/ b.to <= a.from
    <3> DEFINE g == [by |-> s, from |-> old, to |-> new]
    <3>1. \A a \in granted : a.to <= g.from
      BY <2>7
    <3> HIDE DEF g
    <3> QED BY <1>1, <2>6, <3>1 DEF g
  <2> QED BY <2>9, <2>10
<1> QED BY <1>3, <1>4

\* The ids in the tables after a commit are published.
LEMMA CommitPublishes ==
    ASSUME RowsInv, NEW s \in Sessions, Committed(s)
    PROVE  IdsArePublished'
<1>1. IdsArePublished /\ IdsAreFresh /\ FirstId \in Nat \ {0}
  BY MetaRowsAssumptions DEF RowsInv
<1>2. \A x : Published(x) => Published(x)'
  BY DEF Published, Committed
<1>3. ASSUME NEW k \in DOMAIN own[s], k \in InodeKeys, NEW x, x = own[s][k].id
      PROVE  Published(x)' /\ (own[s][k] = None \/ x # 0)
  <2>1. \/ KeepsUpdates(own[s][k], table[k].row)
        \/ \E i \in DOMAIN ids[s] : own[s][k] = File(ids[s][i])
    BY <1>3, WrittenInodes DEF Committed
  <2>2. CASE own[s][k] = None
    <3>1. x < FirstId
      BY <1>1, <1>3, <2>2 DEF None
    <3> QED BY <2>2, <3>1 DEF Published
  <2>3. CASE own[s][k] # None /\ KeepsUpdates(own[s][k], table[k].row)
    <3>1. x = table[k].row.id /\ x # 0
      BY <1>3, <2>3 DEF KeepsUpdates
    <3>2. Published(x)
      BY <1>1, <1>3, <3>1 DEF IdsArePublished
    <3> QED BY <1>2, <3>1, <3>2
  <2>4. CASE \E i \in DOMAIN ids[s] : own[s][k] = File(ids[s][i])
    <3>1. PICK i \in DOMAIN ids[s] : x = ids[s][i]
      BY <1>3, <2>4 DEF File
    <3>2. pc'[s] = "done" /\ ids' = ids
      BY DEF Committed
    <3>3. Published(x)'
      BY <3>1, <3>2 DEF Published
    <3>4. ids[s][i] \in FirstId..(sequence - 1)
      BY <1>1 DEF IdsAreFresh
    <3>5. x # 0
      BY <1>1, <3>1, <3>4
    <3> QED BY <3>3, <3>5
  <2> QED BY <2>1, <2>2, <2>3, <2>4
<1>4. ASSUME NEW k \in InodeKeys
      PROVE  /\ Published(table[k].row.id)'
             /\ table'[k].row = None \/ table'[k].row.id # 0
  <2>1. k \in Keys
    BY KeysDiffer
  <2>2. PICK x : x = table'[k].row.id
    OBVIOUS
  <2>3. Published(x)' /\ (table'[k].row = None \/ x # 0)
    <3>1. CASE k \in DOMAIN own[s]
      <4>1. table'[k].row = own[s][k]
        BY <2>1, <3>1 DEF Committed
      <4> QED BY <1>3, <1>4, <2>2, <3>1, <4>1
    <3>2. CASE k \notin DOMAIN own[s]
      <4>1. table'[k] = table[k]
        BY <2>1, <3>2 DEF Committed
      <4>2. Published(x)
        BY <1>1, <2>2, <4>1 DEF IdsArePublished
      <4> QED BY <1>1, <1>2, <2>2, <4>1, <4>2 DEF IdsArePublished
    <3> QED BY <3>1, <3>2
  <2> QED BY <2>2, <2>3 DEF Published
<1>5. ASSUME NEW u \in updated'
      PROVE  u[2] \in InodeKeys /\ Published(u[3])' /\ u[3] # 0
  <2>1. CASE u \in updated
    BY <1>1, <1>2, <2>1 DEF IdsArePublished
  <2>2. CASE u \notin updated
    <3>1. PICK k \in DOMAIN own[s] : s \in own[s][k].by /\ u = <<s, k, own[s][k].id>>
      BY <2>2 DEF Committed
    <3>2. k \in InodeKeys /\ own[s][k] # None
      BY <3>1, WrittenInodes DEF Committed, None
    <3>3. PICK x : x = own[s][k].id
      OBVIOUS
    <3>4. Published(x)' /\ x # 0
      BY <1>3, <3>2, <3>3
    <3> QED BY <3>1, <3>2, <3>3, <3>4
  <2> QED BY <2>1, <2>2
<1>6. \A k \in InodeKeys : /\ Published(table[k].row.id)'
                           /\ table'[k].row = None \/ table'[k].row.id # 0
  BY <1>4
<1> QED BY <1>5, <1>6 DEF IdsArePublished

\* The row that is committed has every update of the row of its id.
LEMMA CommitKeeps ==
    ASSUME RowsInv, NEW s \in Sessions, Committed(s)
    PROVE  \A u \in updated' : table'[u[2]].row.id = u[3] => u[1] \in table'[u[2]].row.by
<1> SUFFICES ASSUME NEW u \in updated', table'[u[2]].row.id = u[3]
             PROVE  u[1] \in table'[u[2]].row.by
  OBVIOUS
<1>1. CASE u \in updated
  <2> DEFINE k == u[2]
  <2>1. /\ k \in InodeKeys /\ k \in Keys /\ Published(u[3]) /\ u[3] # 0
        /\ table[k].row.id = u[3] => u[1] \in table[k].row.by
    BY <1>1, KeysDiffer DEF RowsInv, IdsArePublished, UpdatesKept
  <2> HIDE DEF k
  <2>2. CASE k \notin DOMAIN own[s]
    BY <2>1, <2>2 DEF Committed, k
  <2>3. CASE k \in DOMAIN own[s]
    <3>1. table'[k].row = own[s][k]
      BY <2>1, <2>3 DEF Committed
    <3>2. own[s][k].id = u[3]
      BY <3>1 DEF k
    <3>3. \/ KeepsUpdates(own[s][k], table[k].row)
          \/ \E i \in DOMAIN ids[s] : own[s][k] = File(ids[s][i])
      BY <2>1, <2>3, WrittenInodes DEF Committed
    <3>4. CASE KeepsUpdates(own[s][k], table[k].row)
      <4>1. own[s][k] # None
        BY <2>1, <3>2 DEF None
      <4>2. own[s][k].id = table[k].row.id /\ table[k].row.by \subseteq own[s][k].by
        BY <3>4, <4>1 DEF KeepsUpdates
      <4> QED BY <2>1, <3>1, <3>2, <4>2 DEF k
    <3>5. CASE \E i \in DOMAIN ids[s] : own[s][k] = File(ids[s][i])
      <4>1. PICK i \in DOMAIN ids[s] : u[3] = ids[s][i]
        BY <3>2, <3>5 DEF File
      <4>2. ids[s][i] \in FirstId..(sequence - 1) /\ FirstId \in Nat /\ sequence \in Nat
        BY MetaRowsAssumptions DEF RowsInv, RowsTyped, IdsAreFresh
      <4>3. ~(u[3] < FirstId)
        BY <4>1, <4>2
      <4>4. PICK o \in Sessions : pc[o] = "done" /\ \E j \in DOMAIN ids[o] : u[3] = ids[o][j]
        BY <2>1, <4>3 DEF Published
      <4>5. PICK j \in DOMAIN ids[o] : u[3] = ids[o][j]
        BY <4>4
      <4>6. ids[s][i] = ids[o][j] => s = o
        BY DEF RowsInv, IdsAreFresh
      <4>7. o = s
        BY <4>1, <4>5, <4>6
      <4> QED BY <4>4, <4>7 DEF Committed
    <3> QED BY <3>3, <3>4, <3>5
  <2> QED BY <2>2, <2>3
<1>2. CASE u \notin updated
  <2>1. PICK k \in DOMAIN own[s] : s \in own[s][k].by /\ u = <<s, k, own[s][k].id>>
    BY <1>2 DEF Committed
  <2>2. k \in Keys
    BY WrittenInodes DEF Committed
  <2>3. table'[k].row = own[s][k]
    BY <2>2 DEF Committed
  <2> QED BY <2>1, <2>3
<1> QED BY <1>1, <1>2

\* A commit publishes the rows of its transaction and leaves the others theirs.
LEMMA CommitStep ==
    ASSUME RowsInv, NEW s \in Sessions, Commit(s)
    PROVE  RowsInv'
<1>1. RowsTyped /\ SessionInv(s)
  BY DEF RowsInv
<1>2. Committed(s)
  <2>1. \A k \in Keys : /\ k \in DOMAIN own[s] =>
                             table'[k].row = own[s][k] /\ table'[k].ver = table[k].ver + 1
                        /\ k \notin DOMAIN own[s] => table'[k] = table[k]
    BY DEF Commit
  <2>2. DOMAIN NoFun = {}
    BY DEF NoFun
  <2>3. /\ \A o \in Sessions \ {s} : own'[o] = own[o] /\ pc'[o] = pc[o]
        /\ own'[s] = NoFun /\ pc'[s] = "done"
    BY <1>1 DEF Commit, RowsTyped
  <2> QED BY <2>1, <2>2, <2>3 DEF Commit, Committed
<1>3. ~HasItem(s) \/ pc[s] = "shard"
  BY DEF Commit
<1>4. RowsTyped'
  <2>1. table' \in [Keys -> [row : Row, ver : Nat]]
    <3>1. ASSUME NEW k \in Keys PROVE table'[k] \in [row : Row, ver : Nat]
      <4>1. table[k] \in [row : Row, ver : Nat] /\ table[k].ver + 1 \in Nat
        BY <1>1 DEF RowsTyped
      <4>2. CASE k \in DOMAIN own[s]
        <5>1. own[s][k] \in Row
          BY <1>1, <4>2 DEF SessionInv, SessionTyped, AreRows
        <5>2. table'[k] = [row |-> own[s][k], ver |-> table[k].ver + 1]
          BY <4>2 DEF Commit
        <5> QED BY <4>1, <5>1, <5>2
      <4>3. CASE k \notin DOMAIN own[s]
        BY <4>1, <4>3 DEF Commit
      <4> QED BY <4>2, <4>3
    <3>2. table' = [k \in Keys |-> table'[k]]
      BY DEF Commit
    <3> QED BY <3>1, <3>2
  <2> QED BY <1>1, <2>1 DEF Commit, RowsTyped
<1>5. GrantedBelow' /\ UpdatesKept'
  BY <1>2, <1>3, CommitGrants, CommitKeeps DEF UpdatesKept
<1>6. IdsAreFresh'
  <2>1. \A o \in Sessions : pc'[o] = "start" => pc[o] = "start"
    BY <1>2 DEF Committed
  <2>2. UNCHANGED <<ids, cache, sequence>> /\ IdsAreFresh
    BY <1>2 DEF Committed, RowsInv
  <2> QED BY <2>1, <2>2 DEF IdsAreFresh, Cached
<1>7. IdsArePublished'
  BY <1>2, CommitPublishes
<1>8. SessionInv(s)'
  <2>1. SessionTyped(s)'
    BY <1>1, <1>2 DEF Committed, SessionInv, SessionTyped, AreRows, Steps
  <2>2. StepFits(s)'
    BY <1>1, <1>2 DEF Committed, SessionInv, StepFits, Working, Creating, Op
  <2>3. OneWriter(s)' /\ SeenIsCurrent(s)' /\ CounterGoesOn(s)' /\ CreateIsSound(s)'
    BY <1>2 DEF Committed, OneWriter, SeenIsCurrent, CounterGoesOn, CreateIsSound, Working,
                Creating
  <2> QED BY <2>1, <2>2, <2>3 DEF SessionInv
<1>9. \A o \in Sessions : SessionInv(o)'
  BY <1>2, <1>8, CommitOthers
<1> QED BY <1>4, <1>5, <1>6, <1>7, <1>9 DEF RowsInv

-----------------------------------------------------------------------------
(* The theorems.                                                            *)

\* The tables hold old rows with old ids, and nobody has begun.
LEMMA InitRows == Init => RowsInv
<1> SUFFICES ASSUME Init PROVE RowsInv
  OBVIOUS
<1>1. \A k \in Keys : table[k].row \in Row /\ table[k].ver = 0
  <2> SUFFICES ASSUME NEW k \in Keys PROVE table[k].row \in Row /\ table[k].ver = 0
    OBVIOUS
  <2>1. None \in Row
    BY DEF None, Row
  <2>2. \A n \in Nat : File(n) \in Row /\ Directory(n) \in Row
    BY DEF File, Directory, Row
  <2>3. k[2] \in OldNames \cup OldDirs => k[2] \in Nat
    BY MetaRowsAssumptions
  <2> QED BY <2>1, <2>2, <2>3 DEF Init
<1>2. RowsTyped
  <2>1. table \in [Keys -> [row : Row, ver : Nat]]
    <3>1. \A r \in Row : [row |-> r, ver |-> 0] \in [row : Row, ver : Nat]
      OBVIOUS
    <3>2. ASSUME NEW k \in Keys PROVE table[k] \in [row : Row, ver : Nat]
      <4>1. PICK r : table[k] = [row |-> r, ver |-> 0]
        BY DEF Init
      <4>2. r \in Row
        BY <1>1, <4>1
      <4> QED BY <3>1, <4>1, <4>2
    <3>3. table = [k \in Keys |-> table[k]]
      BY DEF Init
    <3> QED BY <3>2, <3>3
  <2> QED BY <2>1, MetaRowsAssumptions DEF Init, RowsTyped
<1>3. GrantedBelow /\ UpdatesKept
  BY DEF Init, GrantedBelow, UpdatesKept
<1>4. IdsAreFresh
  <2>1. \A s \in Sessions : Cached(s) = {}
    BY DEF Init, Cached
  <2>2. \A s \in Sessions : ids[s] = <<>> /\ DOMAIN ids[s] = {}
    BY DEF Init
  <2> QED BY <2>1, <2>2, MetaRowsAssumptions DEF Init, IdsAreFresh
<1>5. IdsArePublished
  <2> SUFFICES ASSUME NEW k \in InodeKeys
               PROVE  /\ table[k].row.id < FirstId
                      /\ table[k].row = None \/ table[k].row.id # 0
    BY DEF Init, IdsArePublished, Published
  <2>1. k \in Keys /\ k[1] = "inode"
    BY KeysDiffer DEF InodeKeys
  <2>2. \A n \in OldNames \cup OldDirs : n < FirstId /\ n # 0
    BY MetaRowsAssumptions
  <2>3. None.id < FirstId
    BY MetaRowsAssumptions DEF None
  <2>4. \/ table[k].row = None
        \/ k[2] \in OldNames /\ table[k].row = File(k[2])
        \/ k[2] \in OldDirs /\ table[k].row = Directory(k[2])
    BY <2>1 DEF Init
  <2>5. File(k[2]).id = k[2] /\ Directory(k[2]).id = k[2]
    BY DEF File, Directory
  <2> QED BY <2>2, <2>3, <2>4, <2>5
<1>6. ASSUME NEW s \in Sessions PROVE SessionInv(s)
  <2>1. /\ own[s] = NoFun /\ pc[s] = "start" /\ group[s] = NoGroup /\ turn[s] = 1
        /\ ids[s] = <<>> /\ cache[s] = [left |-> 0, next |-> 0]
        /\ seen[s] = [row |-> None, ver |-> 0]
    BY DEF Init
  <2>2. DOMAIN NoFun = {} /\ None \in Row
    BY DEF NoFun, None, Row
  <2>3. /\ NoGroup.shards = {} /\ NoGroup.list = <<>> /\ NoGroup.at = 1 /\ NoGroup.left = 0
        /\ NoGroup.saved = NoFun
    BY DEF NoGroup
  <2>4. SessionTyped(s)
    BY <2>1, <2>2, <2>3 DEF SessionTyped, AreRows, Steps
  <2>5. StepFits(s) /\ OneWriter(s) /\ SeenIsCurrent(s) /\ CounterGoesOn(s) /\ CreateIsSound(s)
    BY <2>1, <2>2 DEF StepFits, OneWriter, SeenIsCurrent, CounterGoesOn, CreateIsSound, Creating,
                      Working
  <2> QED BY <2>4, <2>5 DEF SessionInv
<1> QED BY <1>2, <1>3, <1>4, <1>5, <1>6 DEF RowsInv

\* One step for each operation.
LEMMA StepKeepsRows ==
    ASSUME RowsInv, NEW s \in Sessions, Step(s)
    PROVE  RowsInv'
<1>1. CASE Begin(s)
  BY <1>1, BeginStep
<1>2. CASE CreateStep(s)
  <2>1. CASE CreateExists(s)
    BY <2>1, RollbackStep DEF CreateExists
  <2> QED BY <1>2, <2>1, ShardStep, GroupStep, InsertStep, GroupDoneStep DEF CreateStep
<1>3. CASE DeadlockVictim(s)
  BY <1>3, VictimStep
<1>4. CASE StatHandle(s) \/ OpenHandle(s) \/ KvmetaGetHandle(s)
  <2>1. CASE KvmetaGetHandle(s) /\ Fail(s)
    BY <2>1, FailStep DEF KvmetaGetHandle, At, Working
  <2>2. CASE At(s, ReadOps) /\ ReadRow(s)
    BY <2>2, ReadStep
  <2> QED BY <1>4, <2>1, <2>2 DEF StatHandle, OpenHandle, KvmetaGetHandle, At, ReadOps
<1>5. CASE FindRow(s)
  BY <1>5, FindStep
<1>6. CASE UpdateRow(s)
  BY <1>6, UpdateStep
<1>7. CASE KvmetaPutHandle(s)
  BY <1>7, PutStep
<1>8. CASE SlicePutHandle(s) \/ SliceDelScan(s) \/ SliceDelHandle(s) \/ SliceGetHandle(s)
  BY <1>8, SliceStep
<1>9. CASE FetchSliceIdRead(s)
  BY <1>9, FetchReadStep
<1>10. CASE FetchSliceIdWrite(s)
  BY <1>10, FetchWriteStep
<1>11. CASE ReadDirScan(s) \/ ReadDirEnd(s)
  BY <1>11, ReadDirStep
<1>12. CASE Commit(s)
  BY <1>12, CommitStep
<1> QED BY <1>1, <1>2, <1>3, <1>4, <1>5, <1>6, <1>7, <1>8, <1>9, <1>10, <1>11, <1>12 DEF Step

\* A step that changes nothing.
LEMMA StutterKeepsRows ==
    ASSUME RowsInv, UNCHANGED vars PROVE RowsInv'
<1>1. UNCHANGED <<table, own, seen, pc, job, turn, answer, ids, group, sequence, cache,
                  granted, updated>>
  BY DEF vars, txn, history
<1>2. RowsTyped'
  BY <1>1 DEF RowsInv, RowsTyped
<1>3. GrantedBelow' /\ UpdatesKept'
  BY <1>1 DEF RowsInv, GrantedBelow, UpdatesKept
<1>4. IdsAreFresh'
  BY <1>1 DEF RowsInv, IdsAreFresh, Cached
<1>5. IdsArePublished'
  BY <1>1 DEF RowsInv, IdsArePublished, Published
<1>6. ASSUME NEW s \in Sessions PROVE SessionInv(s)'
  <2>1. SessionInv(s)
    BY DEF RowsInv
  <2>2. SessionTyped(s)' /\ StepFits(s)'
    BY <1>1, <2>1 DEF SessionInv, SessionTyped, StepFits, Op, HasItem
  <2>3. OneWriter(s)' /\ CounterGoesOn(s)'
    BY <1>1, <2>1 DEF SessionInv, OneWriter, CounterGoesOn, Op
  <2>4. SeenIsCurrent(s)'
    BY <1>1, <2>1 DEF SessionInv, SeenIsCurrent, SeenKey, ItemKey, Item, Sees, Op
  <2>5. CreateIsSound(s)'
    BY <1>1, <2>1 DEF SessionInv, CreateIsSound, ItemsDone, InShards, InList
  <2> QED BY <2>2, <2>3, <2>4, <2>5 DEF SessionInv
<1> QED BY <1>2, <1>3, <1>4, <1>5, <1>6 DEF RowsInv

\* RowsInv holds always: every row is written by one transaction, from the row
\* that is committed, under ids that nobody else has, whatever the requests and
\* however the backends of a worker interleave.
THEOREM RowsInvariance == Spec => []RowsInv
<1>1. RowsInv /\ [Next]_vars => RowsInv'
  BY StepKeepsRows, StutterKeepsRows DEF Next
<1> QED BY <1>1, InitRows, PTL DEF Spec

\* No update of an inode that has committed is lost under one that was read
\* before it, and no slice id is given out twice (SearchAndUpdateInodeTableInfo,
\* FalconFetchSliceIdHandle).
THEOREM UpdatesHold == Spec => []UpdatesKept
<1>1. RowsInv => UpdatesKept
  BY DEF RowsInv
<1> QED BY <1>1, RowsInvariance, PTL

\* A create is answered SUCCESS for the items whose rows it publishes, under the
\* ids that were drawn for them and for nobody else's, however often its groups
\* were rolled back and tried again (FalconCreateHandle).
THEOREM AnswersHold == Spec => []CreateAnswers
<1>1. ASSUME RowsInv PROVE CreateAnswers
  <2> SUFFICES ASSUME NEW s \in Sessions, pc[s] = "shard", group[s].shards = {},
                      NEW i \in DOMAIN answer[s]
               PROVE  LET k == InodeKey(job[s].items[i]) IN
                      /\ answer[s][i] = "SUCCESS"
                           <=> k \in DOMAIN own[s] /\ own[s][k].id = ids[s][i]
                      /\ \A o \in Sessions \ {s} : \A j \in DOMAIN ids[o] : ids[s][i] # ids[o][j]
    BY <1>1 DEF CreateAnswers
  <2> DEFINE k == InodeKey(job[s].items[i])
  <2>1. /\ i \in DOMAIN ids[s] /\ group[s].list = <<>>
        /\ ItemsDone(s, own[s], InShards(s) \cup InList(s, 1))
    BY <1>1 DEF RowsInv, SessionInv, CreateIsSound, Creating
  <2>2. InShards(s) \cup InList(s, 1) = {}
    BY <2>1 DEF InShards, InList
  <2>3. \A x \in DOMAIN own[s] : \E j \in DOMAIN ids[s] :
          own[s][x].id = ids[s][j] /\ answer[s][j] = "SUCCESS"
    BY <2>1, <2>2 DEF ItemsDone, File
  <2>4. answer[s][i] = "SUCCESS" => k \in DOMAIN own[s] /\ own[s][k].id = ids[s][i]
    BY <2>1, <2>2 DEF ItemsDone
  <2>5. \A o \in Sessions : \A j \in DOMAIN ids[o] : ids[s][i] = ids[o][j] => s = o /\ i = j
    BY <1>1, <2>1 DEF RowsInv, IdsAreFresh
  <2> HIDE DEF k
  <2>6. k \in DOMAIN own[s] /\ own[s][k].id = ids[s][i] => answer[s][i] = "SUCCESS"
    BY <2>3, <2>5
  <2>7. /\ answer[s][i] = "SUCCESS" <=> k \in DOMAIN own[s] /\ own[s][k].id = ids[s][i]
        /\ \A o \in Sessions \ {s} : \A j \in DOMAIN ids[o] : ids[s][i] # ids[o][j]
    BY <2>4, <2>5, <2>6
  <2> QED BY <2>7 DEF k
<1> QED BY <1>1, RowsInvariance, PTL

-----------------------------------------------------------------------------
(* Listings.                                                                *)

\* What the names are.
LEMMA NameFacts == \A n \in Names : ShardOf[n] \in 1 .. Shards /\ ShardOf[n] \in Nat /\ Part[n] \in Nat /\ n \in Nat
BY MetaRowsAssumptions

\* The index has an order of the names.
LEMMA IndexOrder ==
    ASSUME NEW a \in Names, NEW b \in Names, NEW c \in Names
    PROVE  /\ ~IndexLess(a, a) /\ (IndexLess(a, b) \/ a = b \/ IndexLess(b, a))
           /\ IndexLess(a, b) /\ IndexLess(b, c) => IndexLess(a, c)
           /\ ~(IndexLess(a, b) /\ IndexLess(b, a))
<1>1. Part[a] \in Nat /\ Part[b] \in Nat /\ Part[c] \in Nat /\ a \in Nat /\ b \in Nat /\ c \in Nat
  BY MetaRowsAssumptions
<1> QED BY <1>1 DEF IndexLess

\* What ReadPage does with the rows: it takes the first k, which fill the page, or all.
LEMMA PageIs ==
    ASSUME NEW r \in Cursors, NEW rows \in Seq(Names), NEW q, q = ReadPage(r, rows)
    PROVE  \E k \in 0 .. Len(rows) :
             /\ q.listed = r.listed \o SubSeq(rows, 1, k) /\ q \in Cursors /\ q.on = r.on
             /\ \/ /\ k > 0 /\ q.last = rows[k] /\ q.state = "SAME_ID_GREATER_NAME" /\ q.shard = r.shard
                \/ /\ k = Len(rows) /\ q.last = r.last /\ q.state = NextState(r)
                   /\ q.shard = IF NextState(r) = "NEW_SHARD" THEN r.shard + 1 ELSE r.shard
<1> DEFINE room == PageSize - r.count
           k == IF Len(rows) < room THEN Len(rows) ELSE room
           page == SubSeq(rows, 1, k)
           full == r.count + Len(page) >= PageSize
<1>1. /\ r.count \in Nat /\ r.count < PageSize /\ PageSize \in Nat /\ Len(rows) \in Nat /\ r.shard \in Nat
      /\ r.listed \in Seq(Names) /\ r.on \in BOOLEAN /\ r.last \in Nat
  BY MetaRowsAssumptions DEF Cursors
<1>2. room \in Nat \ {0} /\ k \in 0 .. Len(rows)
  BY <1>1
<1>3. page \in Seq(Names) /\ Len(page) = k /\ \A i \in 1 .. k : page[i] = rows[i]
  <2> HIDE DEF k
  <2> QED BY <1>1, <1>2
<1>4. full <=> k = room
  BY <1>1, <1>2, <1>3
<1>5. q = [r EXCEPT !.listed = r.listed \o page, !.count = IF full THEN 0 ELSE r.count + Len(page),
                    !.last = IF full THEN Last(page) ELSE r.last,
                    !.state = IF full THEN "SAME_ID_GREATER_NAME" ELSE NextState(r),
                    !.shard = IF full \/ NextState(r) # "NEW_SHARD" THEN r.shard ELSE r.shard + 1]
  BY DEF ReadPage
<1>6. NextState(r) \in {"NEW_SHARD", "GREATER_ID"}
  BY DEF NextState
<1>7. full => k > 0 /\ Last(page) = rows[k] /\ Last(page) \in Nat
  <2> SUFFICES ASSUME full PROVE k > 0 /\ Last(page) = rows[k] /\ Last(page) \in Nat
    OBVIOUS
  <2>1. k > 0 /\ k \in Nat
    BY <1>1, <1>2, <1>4
  <2> HIDE DEF k, page, full
  <2>2. Last(page) = page[k] /\ page[k] = rows[k] /\ page[k] \in Names
    BY <1>3, <2>1 DEF Last
  <2> QED BY <2>1, <2>2, MetaRowsAssumptions
<1>8. ~full => k = Len(rows) /\ r.count + Len(page) \in 0 .. PageSize - 1
  BY <1>1, <1>2, <1>3, <1>4
<1>9. 0 \in 0 .. PageSize - 1 /\ r.listed \o page \in Seq(Names)
  BY <1>1, <1>3
<1> HIDE DEF k, page, full, room
<1>10. q \in Cursors
  <2>1. CASE full
    <3>1. q = [r EXCEPT !.listed = r.listed \o page, !.count = 0, !.last = Last(page),
                        !.state = "SAME_ID_GREATER_NAME", !.shard = r.shard]
      BY <1>5, <2>1
    <3> QED BY <1>1, <1>7, <1>9, <2>1, <3>1 DEF Cursors
  <2>2. CASE ~full
    <3>1. PICK h \in Nat : h = IF NextState(r) # "NEW_SHARD" THEN r.shard ELSE r.shard + 1
      BY <1>1
    <3>2. q = [r EXCEPT !.listed = r.listed \o page, !.count = r.count + Len(page), !.last = r.last,
                        !.state = NextState(r), !.shard = h]
      BY <1>5, <2>2, <3>1
    <3> QED BY <1>1, <1>6, <1>8, <1>9, <2>2, <3>2 DEF Cursors
  <2> QED BY <2>1, <2>2
<1>11. DOMAIN r = {"shard", "state", "last", "count", "listed", "on"}
  BY DEF Cursors
<1>12. q.listed = r.listed \o page /\ q.on = r.on
  BY <1>5, <1>11
<1>13. full => q.last = Last(page) /\ q.state = "SAME_ID_GREATER_NAME" /\ q.shard = r.shard
  BY <1>5, <1>11
<1>14. ~full => /\ q.last = r.last /\ q.state = NextState(r)
                /\ q.shard = IF NextState(r) = "NEW_SHARD" THEN r.shard + 1 ELSE r.shard
  BY <1>5, <1>11
<1>15. q.listed = r.listed \o SubSeq(rows, 1, k)
  BY <1>12 DEF page
<1> QED BY <1>2, <1>7, <1>8, <1>10, <1>12, <1>13, <1>14, <1>15

\* The rows are the elements of a set, each once.
RowsAre(rows, S) ==
    /\ rows \in Seq(S) /\ \A i, j \in 1 .. Len(rows) : rows[i] = rows[j] => i = j
    /\ \A x \in S : \E j \in 1 .. Len(rows) : rows[j] = x

LEMMA RowsOfSet == \A S : IsFiniteSet(S) => \A rows \in SetToSeqs(S) : RowsAre(rows, S)
BY SeqOfSet DEF RowsAre

\* l has the names of a and then the first k rows.
Lists(l, a, rows, k) ==
    /\ \A n : n \in Range(l) <=> n \in Range(a) \/ \E i \in 1 .. k : rows[i] = n
    /\ (/\ IsInjective(a) /\ \A i, j \in 1 .. Len(rows) : rows[i] = rows[j] => i = j
        /\ \A i \in 1 .. k : rows[i] \notin Range(a)) => IsInjective(l)

LEMMA ListedIs ==
    ASSUME NEW a \in Seq(Names), NEW rows \in Seq(Names), NEW k \in 0 .. Len(rows), NEW l,
           l = a \o SubSeq(rows, 1, k)
    PROVE  Lists(l, a, rows, k)
<1> DEFINE m == Len(a)
<1>1. m \in Nat /\ Len(rows) \in Nat /\ k \in Nat /\ k <= Len(rows)
  OBVIOUS
<1>2. /\ SubSeq(rows, 1, k) \in Seq(Names) /\ Len(SubSeq(rows, 1, k)) = k
      /\ \A i \in 1 .. k : SubSeq(rows, 1, k)[i] = rows[i]
  BY <1>1
<1>3. /\ l \in Seq(Names) /\ Len(l) = m + k /\ DOMAIN l = 1 .. m + k /\ DOMAIN a = 1 .. m
      /\ \A i \in 1 .. m : l[i] = a[i]
      /\ \A i \in m + 1 .. m + k : l[i] = rows[i - m] /\ i - m \in 1 .. k
  BY <1>1, <1>2
<1>4. \A i \in 1 .. k : l[m + i] = rows[i] /\ m + i \in 1 .. m + k
  <2> SUFFICES ASSUME NEW i \in 1 .. k PROVE l[m + i] = rows[i] /\ m + i \in 1 .. m + k
    OBVIOUS
  <2>1. m + i \in m + 1 .. m + k /\ (m + i) - m = i
    BY <1>1
  <2> QED BY <1>1, <1>3, <2>1
<1>5. \A i \in DOMAIN l : i \in 1 .. m \/ i \in m + 1 .. m + k
  BY <1>1, <1>3
<1> HIDE DEF m
<1>6. ASSUME NEW n PROVE n \in Range(l) <=> n \in Range(a) \/ \E i \in 1 .. k : rows[i] = n
  <2>1. ASSUME n \in Range(l) PROVE n \in Range(a) \/ \E i \in 1 .. k : rows[i] = n
    <3>1. PICK i \in DOMAIN l : l[i] = n
      BY <2>1 DEF Range
    <3>2. CASE i \in 1 .. m
      BY <1>3, <3>1, <3>2 DEF Range
    <3>3. CASE i \in m + 1 .. m + k
      BY <1>3, <3>1, <3>3
    <3> QED BY <1>5, <3>2, <3>3
  <2>2. ASSUME n \in Range(a) PROVE n \in Range(l)
    <3>1. PICK i \in DOMAIN a : a[i] = n
      BY <2>2 DEF Range
    <3>2. l[i] = n /\ i \in DOMAIN l
      BY <1>1, <1>3, <3>1
    <3> QED BY <3>2 DEF Range
  <2>3. ASSUME NEW i \in 1 .. k, rows[i] = n PROVE n \in Range(l)
    <3>1. l[m + i] = n /\ m + i \in DOMAIN l
      BY <1>3, <1>4, <2>3
    <3> QED BY <3>1 DEF Range
  <2> QED BY <2>1, <2>2, <2>3
<1>7. ASSUME IsInjective(a), \A i, j \in 1 .. Len(rows) : rows[i] = rows[j] => i = j,
             \A i \in 1 .. k : rows[i] \notin Range(a)
      PROVE  IsInjective(l)
  <2> SUFFICES ASSUME NEW i \in DOMAIN l, NEW j \in DOMAIN l, l[i] = l[j] PROVE i = j
    BY DEF IsInjective
  <2>1. CASE i \in 1 .. m /\ j \in 1 .. m
    BY <1>3, <1>7, <2>1 DEF IsInjective
  <2>2. CASE i \in m + 1 .. m + k /\ j \in m + 1 .. m + k
    <3>1. l[i] = rows[i - m] /\ l[j] = rows[j - m] /\ i - m \in 1 .. k /\ j - m \in 1 .. k
      BY <1>3, <2>2
    <3>2. i - m \in 1 .. Len(rows) /\ j - m \in 1 .. Len(rows)
      BY <1>1, <3>1
    <3>3. i - m = j - m
      BY <1>7, <3>1, <3>2
    <3> QED BY <1>1, <2>2, <3>3
  <2>3. CASE i \in 1 .. m /\ j \in m + 1 .. m + k
    <3>1. l[i] \in Range(a)
      BY <1>3, <2>3 DEF Range
    <3>2. l[j] = rows[j - m] /\ j - m \in 1 .. k
      BY <1>3, <2>3
    <3> QED BY <1>7, <3>1, <3>2
  <2>4. CASE j \in 1 .. m /\ i \in m + 1 .. m + k
    <3>1. l[j] \in Range(a)
      BY <1>3, <2>4 DEF Range
    <3>2. l[i] = rows[i - m] /\ i - m \in 1 .. k
      BY <1>3, <2>4
    <3> QED BY <1>7, <3>1, <3>2
  <2> QED BY <1>5, <2>1, <2>2, <2>3, <2>4
<1> QED BY <1>6, <1>7 DEF Lists

\* A scan from the cursor: what it takes was not passed before and is passed now, and
\* of the names that were there all the time it leaves out none that is passed now.
LEMMA ScanSound ==
    ASSUME NEW r \in Cursors, CursorFits(r), NEW live \in SUBSET Names, NEW names \in SUBSET live, ListsAll(r, names),
           NEW found, found = {n \in live : ShardOf[n] = r.shard /\ ScanKey(r, n)},
           NEW rows \in SetToSeqs(found), \A i, j \in DOMAIN rows : i < j => IndexLess(rows[i], rows[j]),
           NEW q, q = ReadPage(r, rows)
    PROVE  /\ q \in Cursors /\ q.on = r.on /\ CursorFits(q) /\ ListsAll(q, names)
           /\ Range(q.listed) \subseteq Range(r.listed) \cup live
<1>1. found \subseteq Names /\ IsFiniteSet(found)
  BY MetaRowsAssumptions, FS_Subset
<1>2. /\ rows \in Seq(found) /\ \A i, j \in 1 .. Len(rows) : rows[i] = rows[j] => i = j
      /\ \A x \in found : \E j \in 1 .. Len(rows) : rows[j] = x
  <2>1. RowsAre(rows, found)
    BY <1>1, RowsOfSet
  <2> QED BY <2>1 DEF RowsAre
<1>3. rows \in Seq(Names) /\ Len(rows) \in Nat /\ DOMAIN rows = 1 .. Len(rows) /\ \A i \in 1 .. Len(rows) : rows[i] \in found
  BY <1>1, <1>2
<1>4. PICK k \in 0 .. Len(rows) :
        /\ q.listed = r.listed \o SubSeq(rows, 1, k) /\ q \in Cursors /\ q.on = r.on
        /\ \/ /\ k > 0 /\ q.last = rows[k] /\ q.state = "SAME_ID_GREATER_NAME" /\ q.shard = r.shard
           \/ /\ k = Len(rows) /\ q.last = r.last /\ q.state = NextState(r)
              /\ q.shard = IF NextState(r) = "NEW_SHARD" THEN r.shard + 1 ELSE r.shard
  BY <1>3, PageIs
<1>5. /\ r.listed \in Seq(Names) /\ r.shard \in Nat /\ r.shard > 0 /\ k \in Nat /\ k <= Len(rows)
      /\ r.state \in {"NEW_SHARD", "SAME_ID_GREATER_NAME", "GREATER_ID"}
      /\ r.state # "NEW_SHARD" => r.last \in Names /\ ShardOf[r.last] = r.shard
  BY <1>3 DEF Cursors, CursorFits
<1>6. \A n \in Names : ShardOf[n] \in Nat /\ Part[n] \in Nat /\ n \in Nat
  BY NameFacts
<1>7. \A n \in found : n \in Names /\ n \in live /\ ShardOf[n] = r.shard /\ ScanKey(r, n) /\ ~Passed(r, n)
  <2> SUFFICES ASSUME NEW n \in found PROVE ~Passed(r, n)
    BY <1>1
  <2>1. n \in Names /\ ShardOf[n] = r.shard /\ ScanKey(r, n)
    BY <1>1
  <2>2. CASE r.state = "SAME_ID_GREATER_NAME"
    <3>1. Part[n] = Part[r.last] /\ n > r.last
      BY <2>1, <2>2 DEF ScanKey
    <3> QED BY <1>5, <1>6, <2>1, <2>2, <3>1 DEF Passed, IndexLess
  <2>3. CASE r.state = "GREATER_ID"
    <3>1. Part[n] > Part[r.last]
      BY <2>1, <2>3 DEF ScanKey
    <3> QED BY <1>5, <1>6, <2>1, <2>3, <3>1 DEF Passed
  <2>4. CASE r.state = "NEW_SHARD"
    BY <1>5, <1>6, <2>1, <2>4 DEF Passed
  <2> QED BY <1>5, <2>2, <2>3, <2>4
\* The names that the cursor passes in this step.
<1>8. ASSUME NEW n \in Names, Passed(q, n), ~Passed(r, n), n \in live PROVE \E i \in 1 .. k : rows[i] = n
  <2>1. ShardOf[n] = r.shard
    <3>1. ShardOf[n] >= r.shard
      BY <1>5, <1>6, <1>8 DEF Passed
    <3>2. ShardOf[n] <= r.shard
      <4>1. CASE q.shard = r.shard
        BY <1>5, <1>6, <1>8, <4>1 DEF Passed
      <4>2. CASE q.shard = r.shard + 1 /\ q.state = "NEW_SHARD"
        BY <1>5, <1>6, <1>8, <4>2 DEF Passed
      <4> QED BY <1>4, <4>1, <4>2
    <3> QED BY <1>5, <1>6, <3>1, <3>2
  <2>2. CASE k > 0 /\ q.last = rows[k] /\ q.state = "SAME_ID_GREATER_NAME" /\ q.shard = r.shard
    <3>1. PICK x \in found : x = rows[k]
      BY <1>3, <1>5, <2>2
    <3>2. ~IndexLess(x, n) /\ x \in Names /\ ScanKey(r, x)
      BY <1>5, <1>6, <1>7, <1>8, <2>1, <2>2, <3>1 DEF Passed
    <3>3. Part[n] < Part[x] \/ (Part[n] = Part[x] /\ n <= x)
      BY <1>6, <3>2 DEF IndexLess
    <3>4. ScanKey(r, n)
      <4>1. CASE r.state = "SAME_ID_GREATER_NAME"
        <5>1. Part[x] = Part[r.last] /\ r.last \in Names
          BY <1>5, <3>2, <4>1 DEF ScanKey
        <5>2. IndexLess(r.last, n)
          BY <1>8, <2>1, <4>1 DEF Passed
        <5>3. Part[n] = Part[r.last] /\ n > r.last
          BY <1>6, <3>2, <3>3, <5>1, <5>2 DEF IndexLess
        <5> QED BY <4>1, <5>3 DEF ScanKey
      <4>2. CASE r.state = "GREATER_ID"
        BY <1>5, <1>6, <1>8, <2>1, <4>2 DEF Passed, ScanKey
      <4>3. CASE r.state = "NEW_SHARD"
        BY <4>3 DEF ScanKey
      <4> QED BY <1>5, <4>1, <4>2, <4>3
    <3>5. PICK j \in 1 .. Len(rows) : rows[j] = n
      BY <1>2, <1>8, <2>1, <3>4
    <3>6. ~(k < j)
      BY <1>3, <1>5, <2>2, <3>1, <3>2, <3>5
    <3> QED BY <1>5, <3>5, <3>6
  <2>3. CASE /\ k = Len(rows) /\ q.last = r.last /\ q.state = NextState(r)
             /\ q.shard = IF NextState(r) = "NEW_SHARD" THEN r.shard + 1 ELSE r.shard
    <3>1. ScanKey(r, n)
      <4>1. CASE r.state = "SAME_ID_GREATER_NAME"
        <5>1. NextState(r) = "GREATER_ID" /\ r.last \in Names
          BY <1>5, <4>1 DEF NextState
        <5>2. Part[n] <= Part[r.last]
          BY <1>5, <1>6, <1>8, <2>1, <2>3, <5>1 DEF Passed
        <5>3. IndexLess(r.last, n)
          BY <1>8, <2>1, <4>1 DEF Passed
        <5>4. Part[n] = Part[r.last] /\ n > r.last
          BY <1>6, <5>1, <5>2, <5>3 DEF IndexLess
        <5> QED BY <4>1, <5>4 DEF ScanKey
      <4>2. CASE r.state = "GREATER_ID"
        BY <1>5, <1>6, <1>8, <2>1, <4>2 DEF Passed, ScanKey
      <4>3. CASE r.state = "NEW_SHARD"
        BY <4>3 DEF ScanKey
      <4> QED BY <1>5, <4>1, <4>2, <4>3
    <3> QED BY <1>2, <1>8, <2>1, <2>3, <3>1
  <2> QED BY <1>4, <2>2, <2>3
\* It goes on only forward.
<1>9. ASSUME NEW n \in Names, Passed(r, n) PROVE Passed(q, n)
  <2>1. CASE ShardOf[n] < r.shard
    <3>1. q.shard \in {r.shard, r.shard + 1}
      BY <1>4
    <3>2. ShardOf[n] < q.shard
      BY <1>5, <1>6, <2>1, <3>1
    <3> QED BY <3>2 DEF Passed
  <2>2. CASE ShardOf[n] = r.shard /\ r.state = "SAME_ID_GREATER_NAME" /\ ~IndexLess(r.last, n)
    <3>1. CASE k > 0 /\ q.last = rows[k] /\ q.state = "SAME_ID_GREATER_NAME" /\ q.shard = r.shard
      <4>1. PICK x \in found : x = rows[k]
        BY <1>3, <1>5, <3>1
      <4>2. x \in Names /\ Part[x] = Part[r.last] /\ x > r.last /\ r.last \in Names
        BY <1>5, <1>7, <2>2 DEF ScanKey
      <4>3. ~IndexLess(x, n)
        BY <1>6, <2>2, <4>2 DEF IndexLess
      <4> QED BY <2>2, <3>1, <4>1, <4>3 DEF Passed
    <3>2. CASE q.last = r.last /\ q.state = NextState(r) /\ q.shard = IF NextState(r) = "NEW_SHARD" THEN r.shard + 1 ELSE r.shard
      <4>1. q.state = "GREATER_ID" /\ q.shard = r.shard /\ r.last \in Names
        BY <1>5, <2>2, <3>2 DEF NextState
      <4>2. Part[n] <= Part[r.last]
        BY <1>6, <2>2, <4>1 DEF IndexLess
      <4> QED BY <2>2, <3>2, <4>1, <4>2 DEF Passed
    <3> QED BY <1>4, <3>1, <3>2
  <2>3. CASE ShardOf[n] = r.shard /\ r.state = "GREATER_ID" /\ Part[n] <= Part[r.last]
    <3>1. CASE k > 0 /\ q.last = rows[k] /\ q.state = "SAME_ID_GREATER_NAME" /\ q.shard = r.shard
      <4>1. PICK x \in found : x = rows[k]
        BY <1>3, <1>5, <3>1
      <4>2. x \in Names /\ Part[x] > Part[r.last] /\ r.last \in Names
        BY <1>5, <1>7, <2>3 DEF ScanKey
      <4>3. ~IndexLess(x, n)
        BY <1>6, <2>3, <4>2 DEF IndexLess
      <4> QED BY <2>3, <3>1, <4>1, <4>3 DEF Passed
    <3>2. CASE q.last = r.last /\ q.state = NextState(r) /\ q.shard = IF NextState(r) = "NEW_SHARD" THEN r.shard + 1 ELSE r.shard
      <4>1. q.shard = r.shard + 1
        BY <2>3, <3>2 DEF NextState
      <4>2. ShardOf[n] < q.shard
        BY <1>5, <2>3, <4>1
      <4> QED BY <4>2 DEF Passed
    <3> QED BY <1>4, <3>1, <3>2
  <2> QED BY <1>9, <2>1, <2>2, <2>3 DEF Passed
<1>10. ASSUME NEW i \in 1 .. k PROVE Passed(q, rows[i])
  <2>1. i \in 1 .. Len(rows) /\ rows[i] \in Names /\ rows[i] \in found /\ ShardOf[rows[i]] = r.shard
    BY <1>3, <1>5, <1>7
  <2>2. CASE k > 0 /\ q.last = rows[k] /\ q.state = "SAME_ID_GREATER_NAME" /\ q.shard = r.shard
    <3>1. k \in 1 .. Len(rows) /\ rows[k] \in Names
      BY <1>3, <1>5, <1>7, <2>2
    <3>2. i = k \/ i < k
      BY <1>5
    <3>3. rows[i] = rows[k] \/ IndexLess(rows[i], rows[k])
      BY <1>3, <2>1, <3>1, <3>2
    <3>4. ~IndexLess(rows[k], rows[i])
      BY <2>1, <3>1, <3>3, IndexOrder
    <3> QED BY <2>1, <2>2, <3>4 DEF Passed
  <2>3. CASE q.last = r.last /\ q.state = NextState(r) /\ q.shard = IF NextState(r) = "NEW_SHARD" THEN r.shard + 1 ELSE r.shard
    <3>1. CASE NextState(r) = "NEW_SHARD"
      <4>1. ShardOf[rows[i]] < q.shard
        BY <1>5, <2>1, <2>3, <3>1
      <4> QED BY <4>1 DEF Passed
    <3>2. CASE NextState(r) # "NEW_SHARD"
      <4>1. r.state = "SAME_ID_GREATER_NAME" /\ NextState(r) = "GREATER_ID"
        BY <3>2 DEF NextState
      <4>2. Part[rows[i]] = Part[r.last] /\ r.last \in Names
        BY <1>5, <1>7, <2>1, <4>1 DEF ScanKey
      <4>3. Part[rows[i]] <= Part[r.last]
        BY <1>6, <2>1, <4>2
      <4> QED BY <2>1, <2>3, <3>2, <4>1, <4>3 DEF Passed
    <3> QED BY <3>1, <3>2
  <2> QED BY <1>4, <2>2, <2>3
<1>11. /\ \A n : n \in Range(q.listed) <=> n \in Range(r.listed) \/ \E i \in 1 .. k : rows[i] = n
       /\ (/\ IsInjective(r.listed) /\ \A i, j \in 1 .. Len(rows) : rows[i] = rows[j] => i = j
           /\ \A i \in 1 .. k : rows[i] \notin Range(r.listed)) => IsInjective(q.listed)
  <2>1. PICK a, l : a = r.listed /\ l = q.listed
    OBVIOUS
  <2>2. l = a \o SubSeq(rows, 1, k) /\ a \in Seq(Names)
    BY <1>4, <1>5, <2>1
  <2>3. Lists(l, a, rows, k)
    BY <1>3, <2>2, ListedIs
  <2> QED BY <2>1, <2>3 DEF Lists
<1>12. Range(r.listed) \subseteq Names
  BY <1>5 DEF Range
<1>13. \A i \in 1 .. k : rows[i] \in found
  BY <1>3, <1>5
<1>14. IsInjective(q.listed)
  <2>1. \A i \in 1 .. k : rows[i] \notin Range(r.listed)
    BY <1>7, <1>13 DEF CursorFits
  <2> QED BY <1>2, <1>11, <2>1 DEF CursorFits
<1>15. \A n \in Range(q.listed) : Passed(q, n)
  <2>1. \A n \in Range(r.listed) : n \in Names /\ Passed(r, n)
    BY <1>12 DEF CursorFits
  <2> QED BY <1>9, <1>10, <1>11, <2>1
<1>16. q.shard > 0 /\ (q.state # "NEW_SHARD" => q.last \in Names /\ ShardOf[q.last] = q.shard)
  <2>1. CASE k > 0 /\ q.last = rows[k] /\ q.state = "SAME_ID_GREATER_NAME" /\ q.shard = r.shard
    <3>1. k \in 1 .. k
      BY <1>5, <2>1
    <3> QED BY <1>5, <1>7, <1>13, <2>1, <3>1
  <2>2. CASE q.last = r.last /\ q.state = NextState(r) /\ q.shard = IF NextState(r) = "NEW_SHARD" THEN r.shard + 1 ELSE r.shard
    BY <1>5, <2>2 DEF NextState
  <2> QED BY <1>4, <2>1, <2>2
<1>17. CursorFits(q)
  BY <1>14, <1>15, <1>16 DEF CursorFits
<1>18. ListsAll(q, names)
  <2> SUFFICES ASSUME NEW n \in names, Passed(q, n) PROVE n \in Range(q.listed)
    BY DEF ListsAll
  <2>1. CASE Passed(r, n)
    BY <1>11, <2>1 DEF ListsAll
  <2>2. CASE ~Passed(r, n)
    BY <1>8, <1>11, <2>2
  <2> QED BY <2>1, <2>2
<1>19. Range(q.listed) \subseteq Range(r.listed) \cup live
  BY <1>7, <1>11, <1>13
<1> QED BY <1>4, <1>17, <1>18, <1>19

\* What is claimed of one listing that has ended.
EndsExact(s) ==
    pc[s] = "done" /\ Op(s) = "readdir" =>
        /\ IsInjective(stream[s].listed) /\ stable[s] \subseteq Range(stream[s].listed)
        /\ Range(stream[s].listed) \subseteq ever[s]

LEMMA OneByOne == ReadDirExact <=> \A s \in Sessions : EndsExact(s)
BY DEF ReadDirExact, EndsExact

\* A step that changes nothing of the table and of the streams.
LEMMA StreamsStay ==
    ASSUME ReadDirInv, UNCHANGED <<table, stream, stable, ever, job>>,
           \A o \in Sessions : pc'[o] = pc[o] \/ pc'[o] \notin {"start", "scan", "done"}
    PROVE  ReadDirInv'
<1>1. Live(table)' = Live(table)
  BY DEF Live
<1>2. ASSUME NEW o \in Sessions PROVE StreamIsSound(o)' /\ EndsExact(o)'
  <2>1. StreamIsSound(o) /\ EndsExact(o)
    BY OneByOne DEF ReadDirInv
  <2>2. StreamIsSound(o)'
    BY <1>1, <2>1 DEF StreamIsSound, Op
  <2>3. EndsExact(o)'
    BY <2>1 DEF EndsExact, Op
  <2> QED BY <2>2, <2>3
<1>3. ReadDirExact'
  BY <1>2 DEF ReadDirExact, EndsExact
<1> QED BY <1>2, <1>3 DEF ReadDirInv

\* A step of s that leaves the table and the streams of the others alone.
LEMMA OneStream ==
    ASSUME ReadDirInv, NEW s \in Sessions, table' = table, SameBut(stream, stream', s), SameBut(stable, stable', s),
           SameBut(ever, ever', s), SameBut(job, job', s), SameBut(pc, pc', s), StreamIsSound(s)', EndsExact(s)'
    PROVE  ReadDirInv'
<1>1. Live(table)' = Live(table)
  BY DEF Live
<1>2. ASSUME NEW o \in Sessions PROVE StreamIsSound(o)' /\ EndsExact(o)'
  <2>1. CASE o = s
    BY <2>1
  <2>2. CASE o # s
    <3>1. StreamIsSound(o) /\ EndsExact(o)
      BY OneByOne DEF ReadDirInv
    <3>2. stream'[o] = stream[o] /\ stable'[o] = stable[o] /\ ever'[o] = ever[o] /\ job'[o] = job[o] /\ pc'[o] = pc[o]
      BY <2>2 DEF SameBut
    <3>3. StreamIsSound(o)'
      BY <1>1, <3>1, <3>2 DEF StreamIsSound, Op
    <3>4. EndsExact(o)'
      BY <3>1, <3>2 DEF EndsExact, Op
    <3> QED BY <3>3, <3>4
  <2> QED BY <2>1, <2>2
<1>3. ReadDirExact'
  BY <1>2 DEF ReadDirExact, EndsExact
<1> QED BY <1>2, <1>3 DEF ReadDirInv, SameBut

\* Begin: the cursor is before every name.
LEMMA BeginStream ==
    ASSUME RowsInv, ReadDirInv, NEW s \in Sessions, Begin(s)
    PROVE  ReadDirInv'
<1>1. /\ DOMAIN pc = Sessions /\ DOMAIN job = Sessions /\ DOMAIN stream = Sessions /\ DOMAIN stable = Sessions
      /\ DOMAIN ever = Sessions /\ StreamIsSound(s)
  BY DEF RowsInv, RowsTyped, ReadDirInv
<1>2. pc[s] = "start" /\ table' = table /\ stream[s] = NoStream
  BY <1>1 DEF Begin, StreamIsSound
<1>3. PICK r \in Requests[s] :
        /\ job' = [job EXCEPT ![s] = r] /\ stream' = [stream EXCEPT ![s].on = r.op = "readdir", ![s].shard = 1]
        /\ stable' = [stable EXCEPT ![s] = Live(table)] /\ ever' = [ever EXCEPT ![s] = Live(table)]
        /\ pc' = [pc EXCEPT ![s] = CASE r.op = "create" -> "shard"
                                     [] r.op = "readdir" -> "scan" [] OTHER -> "item"]
  BY DEF Begin
<1>4. PICK b \in BOOLEAN : b = (r.op = "readdir")
  OBVIOUS
<1>5. PICK q : q = [NoStream EXCEPT !.on = b, !.shard = 1]
  OBVIOUS
<1>6. stream'[s] = q
  BY <1>1, <1>2, <1>3, <1>4, <1>5
<1>7. q.shard = 1 /\ q.state = "NEW_SHARD" /\ q.last = 0 /\ q.count = 0 /\ q.listed = <<>> /\ q.on = b
  BY <1>5 DEF NoStream
<1>8. q \in Cursors
  <2>1. 0 \in 0 .. PageSize - 1 /\ <<>> \in Seq(Names)
    BY MetaRowsAssumptions
  <2>2. q = [shard |-> 1, state |-> "NEW_SHARD", last |-> 0, count |-> 0, listed |-> <<>>, on |-> b]
    BY <1>5 DEF NoStream
  <2> QED BY <2>1, <2>2 DEF Cursors
<1>9. \A n \in Names : ~Passed(q, n)
  BY <1>7, NameFacts DEF Passed
<1>10. Range(q.listed) = {} /\ IsInjective(q.listed)
  BY <1>7 DEF Range, IsInjective
<1>11. CursorFits(q) /\ ListsAll(q, Live(table))
  <2>1. Live(table) \subseteq Names
    BY DEF Live
  <2> QED BY <1>7, <1>9, <1>10, <2>1 DEF CursorFits, ListsAll
<1>12. /\ pc'[s] \in {"shard", "scan", "item"} /\ (pc'[s] = "scan" => r.op = "readdir")
       /\ job'[s] = r /\ stable'[s] = Live(table) /\ ever'[s] = Live(table)
  BY <1>1, <1>3
<1>13. Live(table)' = Live(table) /\ Live(table) \subseteq Names
  BY <1>2 DEF Live
<1>14. StreamIsSound(s)'
  <2>1. pc'[s] = "scan" => Op(s)' = "readdir" /\ q.on
    BY <1>4, <1>7, <1>12 DEF Op
  <2>2. CursorFits(stream[s])' /\ ListsAll(stream[s], stable[s])'
    BY <1>6, <1>11, <1>12 DEF CursorFits, ListsAll, Passed, IndexLess
  <2> QED BY <1>6, <1>8, <1>10, <1>12, <1>13, <2>1, <2>2 DEF StreamIsSound
<1>15. EndsExact(s)'
  BY <1>12 DEF EndsExact
<1>16. SameBut(stream, stream', s) /\ SameBut(stable, stable', s) /\ SameBut(ever, ever', s) /\ SameBut(job, job', s) /\ SameBut(pc, pc', s)
  BY <1>1, <1>3 DEF SameBut
<1> QED BY <1>2, <1>14, <1>15, <1>16, OneStream

\* ReadDirScan.
LEMMA ScanStream ==
    ASSUME RowsInv, ReadDirInv, NEW s \in Sessions, ReadDirScan(s)
    PROVE  ReadDirInv'
<1>1. /\ DOMAIN pc = Sessions /\ DOMAIN job = Sessions /\ DOMAIN stream = Sessions /\ DOMAIN stable = Sessions
      /\ DOMAIN ever = Sessions /\ StreamIsSound(s)
  BY DEF RowsInv, RowsTyped, ReadDirInv
<1>2. pc[s] = "scan" /\ UNCHANGED <<table, pc, job, stable, ever>>
  BY DEF ReadDirScan, history
<1>3. PICK rows \in SetToSeqs(Found(stream[s])) :
        /\ \A i, j \in DOMAIN rows : i < j => IndexLess(rows[i], rows[j])
        /\ stream' = [stream EXCEPT ![s] = ReadPage(stream[s], rows)]
  BY DEF ReadDirScan
<1>4. PICK r, live, names, found, q :
        r = stream[s] /\ live = Live(table) /\ names = stable[s] /\ found = Found(stream[s]) /\ q = ReadPage(stream[s], rows)
  OBVIOUS
<1>5. /\ r \in Cursors /\ names \subseteq Names /\ Op(s) = "readdir" /\ r.on /\ CursorFits(r) /\ ListsAll(r, names)
      /\ names \subseteq live /\ live \subseteq ever[s] /\ Range(r.listed) \subseteq ever[s]
  BY <1>1, <1>2, <1>4 DEF StreamIsSound
<1>6. live \in SUBSET Names /\ names \in SUBSET live /\ found = {n \in live : ShardOf[n] = r.shard /\ ScanKey(r, n)}
  BY <1>4, <1>5 DEF Live, Found
<1>7. rows \in SetToSeqs(found) /\ q = ReadPage(r, rows)
  BY <1>3, <1>4
<1>8. /\ q \in Cursors /\ q.on = r.on /\ CursorFits(q) /\ ListsAll(q, names)
      /\ Range(q.listed) \subseteq Range(r.listed) \cup live
  BY <1>3, <1>5, <1>6, <1>7, ScanSound
<1>9. stream'[s] = q
  BY <1>1, <1>3, <1>4
<1>10. StreamIsSound(s)'
  <2>1. Live(table)' = live /\ stable'[s] = names /\ Op(s)' = "readdir" /\ pc'[s] = "scan" /\ ever'[s] = ever[s]
    BY <1>2, <1>4, <1>5 DEF Live, Op
  <2>2. CursorFits(stream[s])' /\ ListsAll(stream[s], stable[s])'
    BY <1>8, <1>9, <2>1 DEF CursorFits, ListsAll, Passed, IndexLess
  <2> QED BY <1>5, <1>8, <1>9, <2>1, <2>2 DEF StreamIsSound
<1>11. EndsExact(s)'
  BY <1>2 DEF EndsExact
<1>12. SameBut(stream, stream', s) /\ SameBut(stable, stable', s) /\ SameBut(ever, ever', s) /\ SameBut(job, job', s) /\ SameBut(pc, pc', s)
  BY <1>1, <1>2, <1>3 DEF SameBut
<1> QED BY <1>2, <1>10, <1>11, <1>12, OneStream

\* ReadDirEnd: the cursor has passed every name.
LEMMA EndStream ==
    ASSUME RowsInv, ReadDirInv, NEW s \in Sessions, ReadDirEnd(s)
    PROVE  ReadDirInv'
<1>1. /\ DOMAIN pc = Sessions /\ DOMAIN job = Sessions /\ DOMAIN stream = Sessions /\ DOMAIN stable = Sessions
      /\ DOMAIN ever = Sessions /\ StreamIsSound(s)
  BY DEF RowsInv, RowsTyped, ReadDirInv
<1>2. /\ pc[s] = "scan" /\ stream[s].shard > Shards /\ UNCHANGED <<table, job, stable, ever>>
      /\ pc' = [pc EXCEPT ![s] = "done"] /\ stream' = [stream EXCEPT ![s].on = FALSE]
  BY DEF ReadDirEnd, history
<1>3. PICK r : r = stream[s]
  OBVIOUS
<1>4. /\ r \in Cursors /\ stable[s] \subseteq Names /\ CursorFits(r) /\ ListsAll(r, stable[s])
      /\ Range(r.listed) \subseteq ever[s]
  BY <1>1, <1>2, <1>3 DEF StreamIsSound
<1>5. \A n \in Names : Passed(r, n)
  <2>1. r.shard \in Nat /\ Shards \in Nat /\ r.shard > Shards
    BY <1>2, <1>3, <1>4, MetaRowsAssumptions DEF Cursors
  <2> QED BY <2>1, NameFacts DEF Passed
<1>6. stable[s] \subseteq Range(r.listed) /\ IsInjective(r.listed)
  BY <1>4, <1>5 DEF ListsAll, CursorFits
<1>7. stream'[s] \in Cursors /\ stream'[s].listed = r.listed /\ pc'[s] = "done"
  <2>1. stream'[s] = [r EXCEPT !.on = FALSE] /\ pc'[s] = "done"
    BY <1>1, <1>2, <1>3
  <2> QED BY <1>4, <2>1 DEF Cursors
<1>8. StreamIsSound(s)' /\ EndsExact(s)'
  BY <1>2, <1>4, <1>6, <1>7 DEF StreamIsSound, EndsExact
<1>9. SameBut(stream, stream', s) /\ SameBut(stable, stable', s) /\ SameBut(ever, ever', s) /\ SameBut(job, job', s) /\ SameBut(pc, pc', s)
  BY <1>1, <1>2 DEF SameBut
<1> QED BY <1>2, <1>8, <1>9, OneStream

\* Commit: files come and go while others list the directory.
LEMMA CommitStream ==
    ASSUME RowsInv, ReadDirInv, NEW s \in Sessions, Commit(s)
    PROVE  ReadDirInv'
<1>1. /\ DOMAIN pc = Sessions /\ DOMAIN stream = Sessions /\ DOMAIN stable = Sessions /\ DOMAIN ever = Sessions
      /\ SessionInv(s)
  BY DEF RowsInv, RowsTyped, ReadDirInv
<1>2. /\ pc[s] \in {"item", "shard"} /\ job' = job /\ stream' = stream /\ pc' = [pc EXCEPT ![s] = "done"]
      /\ stable' = [o \in Sessions |-> stable[o] \cap Live(table')]
      /\ ever' = [o \in Sessions |-> IF stream[o].on THEN ever[o] \cup Live(table') ELSE ever[o]]
  BY DEF Commit
<1>3. Op(s) # "readdir"
  BY <1>1, <1>2 DEF SessionInv, StepFits, Working, Creating
<1>4. PICK live : live = Live(table')
  OBVIOUS
<1>5. Live(table)' = live /\ live \subseteq Names
  BY <1>4 DEF Live
<1>6. ASSUME NEW o \in Sessions PROVE StreamIsSound(o)' /\ EndsExact(o)'
  <2>1. StreamIsSound(o) /\ EndsExact(o)
    BY OneByOne DEF ReadDirInv
  <2>2. /\ stable'[o] = stable[o] \cap live /\ ever[o] \subseteq ever'[o] /\ (stream[o].on => live \subseteq ever'[o])
        /\ stream'[o] = stream[o] /\ job'[o] = job[o]
    BY <1>2, <1>4
  <2>3. pc'[o] = IF o = s THEN "done" ELSE pc[o]
    BY <1>1, <1>2
  <2>4. StreamIsSound(o)'
    <3>1. pc'[o] = "scan" => pc[o] = "scan" /\ Op(o)' = Op(o)
      BY <2>2, <2>3 DEF Op
    <3>2. pc'[o] = "start" => pc[o] = "start"
      BY <2>3
    <3>3. ListsAll(stream[o], stable[o]) => ListsAll(stream[o], stable[o])'
      BY <2>2 DEF ListsAll, Passed, IndexLess
    <3>4. CursorFits(stream[o]) => CursorFits(stream[o])'
      BY <2>2 DEF CursorFits, Passed, IndexLess
    <3> QED BY <1>5, <2>1, <2>2, <3>1, <3>2, <3>3, <3>4 DEF StreamIsSound
  <2>5. EndsExact(o)'
    <3>1. CASE o = s
      BY <1>2, <1>3, <3>1 DEF EndsExact, Op
    <3>2. CASE o # s
      BY <2>1, <2>2, <2>3, <3>2 DEF EndsExact, Op
    <3> QED BY <3>1, <3>2
  <2> QED BY <2>4, <2>5
<1>7. ReadDirExact'
  BY <1>6 DEF ReadDirExact, EndsExact
<1>8. DOMAIN stream' = Sessions /\ DOMAIN stable' = Sessions /\ DOMAIN ever' = Sessions
  BY <1>1, <1>2
<1> QED BY <1>6, <1>7, <1>8 DEF ReadDirInv

\* The other operations leave the table and the streams alone.
LEMMA OtherStreams ==
    ASSUME RowsInv, ReadDirInv, NEW s \in Sessions, Step(s),
           ~Begin(s), ~ReadDirScan(s), ~ReadDirEnd(s), ~Commit(s)
    PROVE  ReadDirInv'
<1> DEFINE Quiet == UNCHANGED <<table, stream, stable, ever, job>>
           To(p) == pc' = pc \/ pc' = [pc EXCEPT ![s] = p]
<1>1. DOMAIN pc = Sessions
  BY DEF RowsInv, RowsTyped
<1>2. Fail(s) => Quiet /\ To("failed")
  BY DEF Fail, Rest, history
<1>3. CASE CreateStep(s) \/ (DeadlockVictim(s) /\ CreateRollback(s))
  <2>1. Quiet /\ (To("group") \/ To("shard") \/ To("insert"))
    BY <1>3 DEF CreateStep, CreateShard, CreateGroup, CreateInsert, CreateGroupDone, CreateExists, CreateRollback, Rest, history
  <2> QED BY <1>1, <2>1, StreamsStay
<1>4. CASE Fail(s)
  BY <1>1, <1>2, <1>4, StreamsStay
<1>5. CASE ReadRow(s)
  BY <1>1, <1>5, StreamsStay DEF ReadRow, Rest, history
<1>6. CASE FindRow(s) /\ ~Fail(s)
  <2>1. Quiet /\ To("write")
    BY <1>6 DEF FindRow, Rest, history
  <2> QED BY <1>1, <2>1, StreamsStay
<1>7. CASE UpdateRow(s) /\ ~Fail(s)
  <2>1. Quiet /\ To("item")
    BY <1>7 DEF UpdateRow, Rest, history
  <2> QED BY <1>1, <2>1, StreamsStay
<1>8. CASE KvmetaPutHandle(s) \/ SlicePutHandle(s) \/ SliceGetHandle(s)
  BY <1>1, <1>8, StreamsStay DEF KvmetaPutHandle, SlicePutHandle, SliceGetHandle, Rest, history
<1>9. CASE SliceDelScan(s)
  <2>1. Quiet /\ To("delete")
    BY <1>9 DEF SliceDelScan, Rest, history
  <2> QED BY <1>1, <2>1, StreamsStay
<1>10. CASE SliceDelHandle(s) /\ ~Fail(s)
  <2>1. Quiet /\ To("item")
    BY <1>10 DEF SliceDelHandle, Rest, history
  <2> QED BY <1>1, <2>1, StreamsStay
<1>11. CASE FetchSliceIdRead(s)
  <2>1. Quiet /\ To("write")
    BY <1>11 DEF FetchSliceIdRead, Rest, history
  <2> QED BY <1>1, <2>1, StreamsStay
<1>12. CASE FetchSliceIdWrite(s) /\ ~Fail(s)
  <2>1. Quiet /\ To("item")
    BY <1>12 DEF FetchSliceIdWrite, Rest, history
  <2> QED BY <1>1, <2>1, StreamsStay
<1> QED BY <1>3, <1>4, <1>5, <1>6, <1>7, <1>8, <1>9, <1>10, <1>11, <1>12
        DEF Step, DeadlockVictim, StatHandle, OpenHandle, KvmetaGetHandle

\* At first nobody lists the directory.
LEMMA InitStreams == Init => ReadDirInv
<1> SUFFICES ASSUME Init PROVE ReadDirInv
  OBVIOUS
<1>1. /\ stream = [s \in Sessions |-> NoStream] /\ stable = [s \in Sessions |-> {}] /\ ever = [s \in Sessions |-> {}]
      /\ pc = [s \in Sessions |-> "start"]
  BY DEF Init
<1>2. NoStream \in Cursors
  <2>1. 0 \in 0 .. PageSize - 1 /\ <<>> \in Seq(Names)
    BY MetaRowsAssumptions
  <2> QED BY <2>1 DEF NoStream, Cursors
<1>3. \A s \in Sessions : StreamIsSound(s) /\ EndsExact(s)
  BY <1>1, <1>2 DEF StreamIsSound, EndsExact
<1> QED BY <1>1, <1>3, OneByOne DEF ReadDirInv

\* ReadDirInv holds always: a stream has listed the names that its cursor has passed,
\* each once, while other backends create and unlink files (FalconReadDirHandle).
THEOREM ListingInvariance == Spec => []ReadDirInv
<1>1. RowsInv /\ ReadDirInv /\ [Next]_vars => ReadDirInv'
  <2> SUFFICES ASSUME RowsInv, ReadDirInv, [Next]_vars PROVE ReadDirInv'
    OBVIOUS
  <2>1. CASE UNCHANGED vars
    BY <2>1, StreamsStay DEF vars, history
  <2>2. ASSUME NEW s \in Sessions, Step(s) PROVE ReadDirInv'
    BY <2>2, BeginStream, ScanStream, EndStream, CommitStream, OtherStreams
  <2> QED BY <2>1, <2>2 DEF Next
<1> QED BY <1>1, InitStreams, RowsInvariance, PTL DEF Spec

\* A directory that is read page by page, with any page size, hashes and shards, while
\* files come and go: no name comes twice, a name that was there all the time
\* comes, and one that never was does not (the cursor of FalconReadDirHandle).
THEOREM ListingHolds == Spec => []ReadDirExact
<1>1. ReadDirInv => ReadDirExact
  BY DEF ReadDirInv
<1> QED BY <1>1, ListingInvariance, PTL
=============================================================================
