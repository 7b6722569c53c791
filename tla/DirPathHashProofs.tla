-------------------------- MODULE DirPathHashProofs --------------------------
(***************************************************************************)
(* Proof that Inv is an inductive invariant of DirPathHash, for any sets   *)
(* of backends, directories and memory, any programs of calls and every    *)
(* end a transaction can have: conflicting locks on a directory exclude    *)
(* each other, and the lock a backend holds or waits for is never taken    *)
(* away by eviction.                                                       *)
(***************************************************************************)
EXTENDS DirPathHash, FiniteSetTheorems, TLAPS

(* What the steps that leave the keys of the entries alone and take no     *)
(* lock have in common: they may drop locks and move backends.             *)
LEMMA Calm ==
    ASSUME Inv, TypeOK',
           \A s \in Slots : slot'[s].key = slot[s].key,
           \A q \in Procs : held'[q] \subseteq held[q],
           \A q \in Procs :
              \/ pc'[q] = pc[q] /\ at'[q] = at[q] /\ prog'[q] = prog[q]
              \/ /\ pc'[q] \in {"probe", "read", "enter", "use"} => prog'[q] # <<>>
                 /\ pc'[q] # "acquire"
              \/ /\ prog'[q] # <<>> /\ at'[q] \in Slots
                 /\ Head(prog'[q]).mode # "none"
                 /\ slot'[at'[q]].key = Head(prog'[q]).key
    PROVE  Inv'
<1>1. OneEntry'
    BY DEF Inv, OneEntry
<1>2. CallsSound'
    BY DEF Inv, CallsSound, Call
<1>3. KeyExclusion'
  <2>1. \A p \in Procs : \A h \in held'[p] : slot'[h.slot].key = h.key
    BY DEF Inv, KeyExclusion, TypeOK
  <2>2. \A p, q \in Procs : p # q =>
          \A g \in held'[p], h \in held'[q] :
              g.key = h.key => g.mode = "shared" /\ h.mode = "shared"
    BY DEF Inv, KeyExclusion
  <2>3. \A p \in Procs : pc'[p] = "acquire" => slot'[at'[p]].key = Head(prog'[p]).key
    BY DEF Inv, KeyExclusion, CallsSound, Call
  <2> QED BY <2>1, <2>2, <2>3 DEF KeyExclusion, Call
<1> QED BY <1>1, <1>2, <1>3 DEF Inv

(* The values that stand for an inode id, and for none.                    *)
LEMMA ValuesOK ==
    /\ NotExist \in Values /\ Unknown \in Values /\ Nil \in Values
    /\ Free \in [key: Keys \cup {NoKey}, val: Values]
    /\ NoWrites \in [Keys -> Values]
    /\ NoKey \notin Keys /\ NoSlot \notin Slots
    /\ MaxId \in Nat
<1>1. MaxId \in Nat /\ NoKey \notin Keys /\ NoSlot \notin Slots
    BY ConstantsOK DEF NoKey, NoSlot
<1>2. NotExist \in Values /\ Unknown \in Values /\ Nil \in Values
    BY <1>1 DEF NotExist, Unknown, Nil, Values
<1> QED BY <1>1, <1>2 DEF Free, NoWrites

(* The call a backend is in.                                               *)
LEMMA CallOK ==
    ASSUME Inv, NEW p \in Procs,
           pc[p] \in {"probe", "read", "enter", "acquire", "use"}
    PROVE  /\ Call(p) \in Calls
           /\ prog[p] # <<>> /\ prog[p] \in Seq(Calls)
           /\ Tail(prog[p]) \in Seq(Calls)
<1>1. prog[p] # <<>> /\ prog[p] \in Seq(Calls)
    BY DEF Inv, CallsSound, TypeOK
<1> QED BY <1>1 DEF Call

(* One backend's value changes.                                            *)
LEMMA SetType ==
    ASSUME NEW T, NEW f \in [Procs -> T], NEW p \in Procs, NEW e \in T
    PROVE  [f EXCEPT ![p] = e] \in [Procs -> T]
OBVIOUS

(* One more update to publish at commit.                                   *)
LEMMA AppendType ==
    ASSUME NEW T, NEW f \in [Procs -> Seq(T)], NEW p \in Procs, NEW e \in T
    PROVE  [f EXCEPT ![p] = Append(f[p], e)] \in [Procs -> Seq(T)]
<1>1. Append(f[p], e) \in Seq(T)
    OBVIOUS
<1> QED BY <1>1

(* A transaction begins with its calls to come and no lock. *)
LEMMA BeginStep ==
    ASSUME Inv, NEW p \in Procs, NEW pr \in Programs, Begin(p, pr)
    PROVE  Inv'
<1>1. pr \in Seq(Calls) /\ pr # <<>>
    BY ConstantsOK
<1>2. TypeOK'
  <2>1. nextId' \in 1 .. MaxId + 1
    BY ValuesOK DEF Inv, TypeOK, Begin
  <2>2. nextId \in Values
    BY ValuesOK DEF Inv, TypeOK, Values
  <2>3. id' \in [Procs -> Values]
    BY <2>2, ValuesOK DEF Inv, TypeOK, Begin
  <2>4. /\ prog' \in [Procs -> Seq(Calls)]
        /\ pc' \in [Procs -> {"idle", "probe", "read", "enter", "acquire", "use",
                              "done", "error", "prepared", "publish"}]
    BY <1>1 DEF Inv, TypeOK, Begin, Goto
  <2> QED BY <2>1, <2>3, <2>4 DEF Inv, TypeOK, Begin
<1>3. /\ slot' = slot /\ held' = held /\ at' = at
      /\ \A q \in Procs : IF q = p THEN pc'[q] = "probe" /\ prog'[q] = pr
                          ELSE pc'[q] = pc[q] /\ prog'[q] = prog[q]
    BY DEF Begin, Goto, Inv, TypeOK
<1> QED BY <1>1, <1>2, <1>3, Calm

(* A call that goes on with an entry of its directory refers to it.        *)
LEMMA PinStep ==
    ASSUME Inv, NEW p \in Procs, NEW s \in Slots,
           pc[p] \in {"probe", "enter"},
           Pin(p, s), prog' = prog, held' = held, TypeOK',
           slot'[s].key = Call(p).key,
           \A t \in Slots : slot'[t].key = slot[t].key
    PROVE  Inv'
<1>1. prog[p] # <<>> /\ Call(p) \in Calls
    BY CallOK
<1>2. \A q \in Procs :
         IF q = p THEN /\ at'[q] = s
                       /\ pc'[q] = (IF Call(p).mode = "none" THEN "use" ELSE "acquire")
                  ELSE pc'[q] = pc[q] /\ at'[q] = at[q]
    BY DEF Pin, Goto, Inv, TypeOK
<1> QED BY <1>1, <1>2, Calm DEF Call

\* The type of pc and of at, for the steps that change only them.
PcType == {"idle", "probe", "read", "enter", "acquire", "use",
           "done", "error", "prepared", "publish"}

(* Taking an entry for a call keeps the program counters and the entries typed. *)
LEMMA PinType ==
    ASSUME Inv, NEW p \in Procs, NEW s \in Slots, Pin(p, s)
    PROVE  /\ pc' \in [Procs -> PcType]
           /\ at' \in [Procs -> Slots \cup {NoSlot}]
BY DEF Pin, Goto, Inv, TypeOK, PcType

(* The look under the shared LWLock pins an entry of the call's key, or none. *)
LEMMA ProbeStep ==
    ASSUME Inv, NEW p \in Procs, Probe(p)
    PROVE  Inv'
<1> DEFINE hit == {s \in Find(Call(p).key) :
                      Call(p).op = "delete" \/ slot[s].val # Unknown}
<1>1. pc[p] = "probe" /\ prog' = prog /\ held' = held /\ slot' = slot
    BY DEF Probe
<1>2. prog[p] # <<>>
    BY <1>1, CallOK
<1>3. CASE hit # {}
  <2>1. PICK s \in hit : Pin(p, s)
    BY <1>3 DEF Probe
  <2>2. s \in Slots /\ slot[s].key = Call(p).key
    BY DEF Find
  <2>3. TypeOK'
    BY <2>1, <2>2, PinType DEF Probe, Inv, TypeOK, PcType
  <2> QED BY <1>1, <2>1, <2>2, <2>3, PinStep
<1>4. CASE hit = {}
  <2>1. /\ at' = at
        /\ \/ pc' = [pc EXCEPT ![p] = "enter"]
           \/ pc' = [pc EXCEPT ![p] = "read"]
    BY <1>4 DEF Probe, Goto
  <2>2. TypeOK'
    BY <2>1 DEF Probe, Inv, TypeOK
  <2>3. \A q \in Procs : IF q = p THEN pc'[q] \in {"enter", "read"} ELSE pc'[q] = pc[q]
    BY <2>1 DEF Inv, TypeOK
  <2> QED BY <1>1, <1>2, <2>1, <2>2, <2>3, Calm
<1> QED BY <1>3, <1>4

(* Reading the directory table touches neither entries nor locks. *)
LEMMA ReadStep ==
    ASSUME Inv, NEW p \in Procs, ReadTable(p)
    PROVE  Inv'
<1>1. /\ pc[p] = "read" /\ prog' = prog /\ held' = held /\ slot' = slot /\ at' = at
      /\ \/ pc' = [pc EXCEPT ![p] = "error"]
         \/ pc' = [pc EXCEPT ![p] = "enter"]
    BY DEF ReadTable, Goto
<1>2. prog[p] # <<>> /\ Call(p) \in Calls
    BY <1>1, CallOK
<1>3. View(p, Call(p).key) \in Values
    BY <1>2 DEF View, Inv, TypeOK, Calls
<1>4. TypeOK'
    BY <1>1, <1>3 DEF ReadTable, Inv, TypeOK
<1>5. \A q \in Procs : IF q = p THEN pc'[q] \in {"error", "enter"} ELSE pc'[q] = pc[q]
    BY <1>1 DEF Inv, TypeOK
<1> QED BY <1>1, <1>2, <1>4, <1>5, Calm

(* A key that was entered meanwhile is found and its entry pinned. *)
LEMMA EnterFoundStep ==
    ASSUME Inv, NEW p \in Procs, EnterFound(p)
    PROVE  Inv'
<1>1. pc[p] = "enter" /\ prog' = prog /\ held' = held
    BY DEF EnterFound
<1>2. PICK s \in Find(Call(p).key) :
         \/ Pin(p, s) /\ slot' = slot
         \/ Pin(p, s) /\ slot' = [slot EXCEPT ![s].val = seen[p]]
         \/ pc' = [pc EXCEPT ![p] = "error"] /\ slot' = slot /\ at' = at
    BY DEF EnterFound, Goto
<1>3. s \in Slots /\ slot[s].key = Call(p).key
    BY DEF Find
<1>4. /\ slot' \in [Slots -> [key: Keys \cup {NoKey}, val: Values]]
      /\ \A t \in Slots : slot'[t].key = slot[t].key
  <2>1. slot \in [Slots -> [key: Keys \cup {NoKey}, val: Values]] /\ seen[p] \in Values
    BY DEF Inv, TypeOK
  <2>2. CASE slot' = slot
    BY <2>1, <2>2
  <2>3. CASE slot' = [slot EXCEPT ![s].val = seen[p]]
    BY <1>3, <2>1, <2>3
  <2> QED BY <1>2, <2>2, <2>3
<1>5. CASE Pin(p, s)
  <2>1. TypeOK'
    BY <1>3, <1>4, <1>5, PinType DEF EnterFound, Inv, TypeOK, PcType
  <2> QED BY <1>1, <1>3, <1>4, <1>5, <2>1, PinStep
<1>6. CASE pc' = [pc EXCEPT ![p] = "error"] /\ at' = at
  <2>1. TypeOK'
    BY <1>4, <1>6 DEF EnterFound, Inv, TypeOK
  <2>2. \A q \in Procs : IF q = p THEN pc'[q] = "error" ELSE pc'[q] = pc[q]
    BY <1>6 DEF Inv, TypeOK
  <2> QED BY <1>1, <1>4, <1>6, <2>1, <2>2, Calm
<1> QED BY <1>2, <1>5, <1>6

(* An entry appears in memory that belonged to none, for a directory that  *)
(* had none, while nobody changes what they hold or wait for.              *)
LEMMA NewEntry ==
    ASSUME Inv, TypeOK', pc' = pc, prog' = prog, at' = at, held' = held,
           NEW s \in Slots, slot[s].key = NoKey,
           NEW k \in Keys, \A t \in Slots : slot[t].key # k,
           \A t \in Slots : slot'[t].key = IF t = s THEN k ELSE slot[t].key
    PROVE  Inv'
<1>1. OneEntry'
    BY DEF Inv, OneEntry
<1>2. CallsSound'
    BY DEF Inv, CallsSound, Call
<1>3. KeyExclusion'
  <2>1. \A q \in Procs : \A h \in held[q] : slot'[h.slot].key = h.key
    BY ValuesOK DEF Inv, KeyExclusion, TypeOK
  <2>2. \A q \in Procs : pc[q] = "acquire" => slot'[at[q]].key = Call(q).key
    <3> SUFFICES ASSUME NEW q \in Procs, pc[q] = "acquire"
                 PROVE  slot'[at[q]].key = Call(q).key
        OBVIOUS
    <3>1. at[q] \in Slots /\ slot[at[q]].key = Call(q).key /\ Call(q) \in Calls
        BY CallOK DEF Inv, CallsSound, KeyExclusion
    <3> QED BY <3>1, ValuesOK DEF Calls
  <2> QED BY <2>1, <2>2 DEF Inv, KeyExclusion, Call
<1> QED BY <1>1, <1>2, <1>3 DEF Inv

(* A new entry: its directory had none, and its memory belonged to none.   *)
LEMMA EnterNewStep ==
    ASSUME Inv, NEW p \in Procs, EnterNew(p)
    PROVE  Inv'
<1>1. pc[p] = "enter" /\ prog' = prog /\ held' = held /\ Find(Call(p).key) = {}
    BY DEF EnterNew
<1>2. prog[p] # <<>> /\ Call(p) \in Calls
    BY <1>1, CallOK
<1> DEFINE k == Call(p).key
           v == IF Call(p).op = "delete" THEN Unknown ELSE seen[p]
<1>3. k \in Keys /\ k # NoKey /\ v \in Values
    BY <1>2, ValuesOK DEF Calls, Inv, TypeOK
<1>4. PICK s \in Slots \ Entries :
         /\ slot' = [slot EXCEPT ![s] = [key |-> k, val |-> v]]
         /\ Pin(p, s)
    BY DEF EnterNew
<1>5. s \in Slots /\ slot[s].key = NoKey
    BY DEF Entries
<1>6. \A t \in Slots : slot'[t].key = IF t = s THEN k ELSE slot[t].key
    BY <1>4, <1>5 DEF Inv, TypeOK
<1>7. \A t \in Slots : slot[t].key # k
    BY <1>1 DEF Find
<1>8. TypeOK'
  <2>1. slot' \in [Slots -> [key: Keys \cup {NoKey}, val: Values]]
    BY <1>3, <1>4, <1>5 DEF Inv, TypeOK
  <2>2. [act |-> "A", key |-> k, val |-> Nil]
            \in Updates
    BY <1>3, ValuesOK DEF Updates
  <2>3. todo' \in [Procs -> Seq(Updates)]
    <3>1. todo' = [todo EXCEPT ![p] = Append(todo[p], [act |-> "A", key |-> k, val |-> Nil])]
        BY DEF EnterNew
    <3> QED BY <2>2, <3>1, AppendType DEF Inv, TypeOK
  <2> QED BY <1>4, <1>5, <2>1, <2>3, PinType DEF EnterNew, Inv, TypeOK, PcType
<1>9. \A q \in Procs :
         IF q = p THEN /\ at'[q] = s
                       /\ pc'[q] = (IF Call(p).mode = "none" THEN "use" ELSE "acquire")
                  ELSE pc'[q] = pc[q] /\ at'[q] = at[q]
    BY <1>4, <1>5 DEF Pin, Goto, Inv, TypeOK
<1>10. OneEntry'
    BY <1>6, <1>7 DEF Inv, OneEntry
<1>11. CallsSound'
    BY <1>1, <1>2, <1>5, <1>9 DEF Inv, CallsSound, Call
<1>12. KeyExclusion'
  <2>1. \A q \in Procs : \A h \in held[q] : h.slot \in Slots /\ h.key \in Keys
    BY DEF Inv, TypeOK
  <2>2. \A q \in Procs : \A h \in held[q] : slot'[h.slot].key = h.key
    BY <1>5, <1>6, <2>1, ValuesOK DEF Inv, KeyExclusion
  <2>3. \A q \in Procs : pc'[q] = "acquire" => slot'[at'[q]].key = Call(q).key
    <3> SUFFICES ASSUME NEW q \in Procs, pc'[q] = "acquire"
                 PROVE  slot'[at'[q]].key = Call(q).key
        OBVIOUS
    <3>1. CASE q = p
        BY <1>5, <1>6, <1>9, <3>1
    <3>2. CASE q # p
      <4>1. pc[q] = "acquire" /\ at'[q] = at[q]
        BY <1>9, <3>2
      <4>2. at[q] \in Slots /\ slot[at[q]].key = Call(q).key /\ Call(q) \in Calls
        BY <4>1, CallOK DEF Inv, CallsSound, KeyExclusion
      <4> QED BY <1>5, <1>6, <4>1, <4>2, ValuesOK DEF Calls
    <3> QED BY <3>1, <3>2
  <2> QED BY <1>1, <2>2, <2>3 DEF Inv, KeyExclusion, Call
<1> QED BY <1>8, <1>10, <1>11, <1>12 DEF Inv

(* Without space an unlocked call goes on without an entry. *)
LEMMA EnterNoSpaceStep ==
    ASSUME Inv, NEW p \in Procs, EnterNoSpace(p)
    PROVE  Inv'
<1>1. /\ pc[p] = "enter" /\ prog' = prog /\ held' = held /\ slot' = slot
      /\ at' = [at EXCEPT ![p] = NoSlot] /\ pc' = [pc EXCEPT ![p] = "use"]
    BY DEF EnterNoSpace, Goto
<1>2. prog[p] # <<>>
    BY <1>1, CallOK
<1>3. TypeOK'
    BY <1>1 DEF EnterNoSpace, Inv, TypeOK
<1>4. \A q \in Procs : IF q = p THEN pc'[q] = "use"
                       ELSE pc'[q] = pc[q] /\ at'[q] = at[q]
    BY <1>1 DEF Inv, TypeOK
<1> QED BY <1>1, <1>2, <1>3, <1>4, Calm

(* Eviction: nobody refers to the entry that goes.                         *)
LEMMA EliminateStep ==
    ASSUME Inv, NEW s \in Slots, Eliminate(s), TypeOK',
           pc' = pc, prog' = prog, at' = at, held' = held
    PROVE  Inv'
<1>1. \A t \in Slots : slot'[t].key = IF t = s THEN NoKey ELSE slot[t].key
    BY DEF Eliminate, Free, Inv, TypeOK
<1>2. \A q \in Procs : (pc[q] = "acquire" => at[q] # s) /\ \A h \in held[q] : h.slot # s
    BY DEF Eliminate, Evictable, Destroyable, Waiting, Holds
<1>3. OneEntry'
    BY <1>1 DEF Inv, OneEntry
<1>4. CallsSound'
    BY DEF Inv, CallsSound, Call
<1>5. KeyExclusion'
  <2>1. \A q \in Procs : \A h \in held[q] : slot'[h.slot].key = h.key
    BY <1>1, <1>2 DEF Inv, KeyExclusion, TypeOK
  <2>2. \A q \in Procs : pc[q] = "acquire" => slot'[at[q]].key = Call(q).key
    BY <1>1, <1>2 DEF Inv, KeyExclusion, CallsSound
  <2> QED BY <2>1, <2>2 DEF Inv, KeyExclusion, Call
<1> QED BY <1>3, <1>4, <1>5 DEF Inv

(* Evicting an entry leaves a typed table. *)
LEMMA EliminateType ==
    ASSUME Inv, NEW s \in Slots, Eliminate(s)
    PROVE  slot' \in [Slots -> [key: Keys \cup {NoKey}, val: Values]]
BY ValuesOK DEF Inv, TypeOK, Eliminate

(* An eviction removes an entry nobody refers to, so every call keeps its own. *)
LEMMA MakeSpaceStep ==
    ASSUME Inv, NEW p \in Procs, MakeSpace(p)
    PROVE  Inv'
<1>1. PICK s \in Slots : Eliminate(s)
    BY DEF MakeSpace
<1>2. TypeOK'
    BY <1>1, EliminateType DEF MakeSpace, Inv, TypeOK
<1> QED BY <1>1, <1>2, EliminateStep DEF MakeSpace

(* A lock is granted: whoever else holds the directory's lock holds the    *)
(* lock of the same entry, since it has only one.                          *)
LEMMA AcquireStep ==
    ASSUME Inv, NEW p \in Procs, Acquire(p)
    PROVE  Inv'
<1> DEFINE new == [slot |-> at[p], key |-> Call(p).key, mode |-> Call(p).mode]
<1>1. /\ pc[p] = "acquire" /\ prog' = prog /\ slot' = slot /\ at' = at
      /\ held' = [held EXCEPT ![p] = @ \cup {new}] /\ pc' = [pc EXCEPT ![p] = "use"]
    BY DEF Acquire, Goto
<1>2. /\ prog[p] # <<>> /\ Call(p) \in Calls
      /\ at[p] \in Slots /\ Call(p).mode # "none" /\ slot[at[p]].key = Call(p).key
    BY <1>1, CallOK DEF Inv, CallsSound, KeyExclusion
<1>3. new \in [slot: Slots, key: Keys, mode: Modes \ {"none"}]
    BY <1>2 DEF Calls
<1>4. \A q \in Procs : held'[q] = IF q = p THEN held[q] \cup {new} ELSE held[q]
    BY <1>1 DEF Inv, TypeOK
<1>5. TypeOK'
  <2>1. held' \in [Procs -> SUBSET [slot: Slots, key: Keys, mode: Modes \ {"none"}]]
    BY <1>1, <1>3 DEF Inv, TypeOK
  <2> QED BY <1>1, <2>1 DEF Acquire, Inv, TypeOK
<1>6. \A q \in Procs : IF q = p THEN pc'[q] = "use" ELSE pc'[q] = pc[q]
    BY <1>1 DEF Inv, TypeOK
<1>7. \A q \in Procs : \A h \in held[q] :
         h.key = new.key => new.mode = "shared" /\ h.mode = "shared"
  <2> SUFFICES ASSUME NEW q \in Procs, NEW h \in held[q], h.key = Call(p).key
               PROVE  Call(p).mode = "shared" /\ h.mode = "shared"
    OBVIOUS
  <2>1. h.slot \in Slots /\ slot[h.slot].key = h.key /\ h.key \in Keys
    BY DEF Inv, TypeOK, KeyExclusion
  <2>2. h.slot = at[p]
    BY <1>2, <2>1, ValuesOK DEF Inv, OneEntry
  <2> QED BY <2>2 DEF Acquire
<1>8. OneEntry' /\ CallsSound'
    BY <1>1, <1>2, <1>6 DEF Inv, OneEntry, CallsSound, Call
<1>9. KeyExclusion'
  <2>0. new.slot = at[p] /\ new.key = Call(p).key
    OBVIOUS
  <2> HIDE DEF new
  <2>1. \A q \in Procs : \A h \in held'[q] : slot[h.slot].key = h.key
    BY <1>2, <1>4, <2>0 DEF Inv, KeyExclusion
  <2>2. \A q, r \in Procs : q # r =>
          \A g \in held'[q], h \in held'[r] :
              g.key = h.key => g.mode = "shared" /\ h.mode = "shared"
    <3> SUFFICES ASSUME NEW q \in Procs, NEW r \in Procs, q # r,
                        NEW g \in held'[q], NEW h \in held'[r], g.key = h.key
                 PROVE  g.mode = "shared" /\ h.mode = "shared"
        OBVIOUS
    <3>1. CASE g \in held[q] /\ h \in held[r]
        BY <3>1 DEF Inv, KeyExclusion
    <3>2. CASE g = new /\ q = p
        BY <1>4, <1>7, <3>2
    <3>3. CASE h = new /\ r = p
        BY <1>4, <1>7, <3>3
    <3> QED BY <1>4, <3>1, <3>2, <3>3
  <2>3. \A q \in Procs : pc'[q] = "acquire" => slot[at[q]].key = Call(q).key
    BY <1>6 DEF Inv, KeyExclusion
  <2> QED BY <1>1, <2>1, <2>2, <2>3 DEF KeyExclusion, Call
<1> QED BY <1>5, <1>8, <1>9 DEF Inv

(* The end of a call, good or bad, for what its backend still has to do.   *)
LEMMA ReturnStep ==
    ASSUME Inv, NEW p \in Procs, pc[p] = "use", TypeOK',
           slot' = slot, held' = held, at' = at,
           Return(p) \/ (pc' = [pc EXCEPT ![p] = "error"] /\ prog' = prog)
    PROVE  Inv'
<1>1. prog[p] # <<>>
    BY CallOK
<1>2. CASE Return(p)
  <2>1. \A q \in Procs :
           IF q = p THEN /\ prog'[q] = Tail(prog[p])
                         /\ pc'[q] = (IF Tail(prog[p]) = <<>> THEN "done" ELSE "probe")
                    ELSE pc'[q] = pc[q] /\ prog'[q] = prog[q]
    BY <1>2 DEF Return, Goto, Inv, TypeOK
  <2> QED BY <2>1, Calm
<1>3. CASE pc' = [pc EXCEPT ![p] = "error"] /\ prog' = prog
  <2>1. \A q \in Procs : IF q = p THEN pc'[q] = "error" ELSE pc'[q] = pc[q]
    BY <1>3 DEF Inv, TypeOK
  <2> QED BY <1>3, <2>1, Calm
<1> QED BY <1>2, <1>3

(* Returning from a call, or failing in it, keeps the list of calls typed. *)
LEMMA ReturnType ==
    ASSUME Inv, NEW p \in Procs, pc[p] = "use",
           Return(p) \/ (pc' = [pc EXCEPT ![p] = "error"] /\ prog' = prog)
    PROVE  pc' \in [Procs -> PcType] /\ prog' \in [Procs -> Seq(Calls)]
<1>1. Tail(prog[p]) \in Seq(Calls)
    BY CallOK
<1>2. prog' = prog \/ prog' = [prog EXCEPT ![p] = Tail(prog[p])]
    BY DEF Return
<1>3. prog' \in [Procs -> Seq(Calls)]
  <2>1. prog \in [Procs -> Seq(Calls)]
    BY DEF Inv, TypeOK
  <2>2. [prog EXCEPT ![p] = Tail(prog[p])] \in [Procs -> Seq(Calls)]
    BY <1>1, <2>1, SetType
  <2> QED BY <1>2, <2>1, <2>2
<1>4. pc' \in [Procs -> PcType]
    BY DEF Return, Goto, Inv, TypeOK, PcType
<1> QED BY <1>3, <1>4

(* The end of a search changes no entry and no lock. *)
LEMMA SearchReturnsStep ==
    ASSUME Inv, NEW p \in Procs, SearchReturns(p)
    PROVE  Inv'
<1> DEFINE v == IF at[p] = NoSlot THEN seen[p] ELSE slot[at[p]].val
<1>1. /\ pc[p] = "use" /\ slot' = slot /\ held' = held /\ at' = at
      /\ Return(p) \/ (pc' = [pc EXCEPT ![p] = "error"] /\ prog' = prog)
      /\ \/ known' = known
         \/ known' = [known EXCEPT ![p][Call(p).key] = v]
    BY DEF SearchReturns, Goto
<1>2. Call(p) \in Calls
    BY <1>1, CallOK
<1>3. v \in Values
    BY DEF Inv, TypeOK
<1>4. known' \in [Procs -> [Keys -> Values]]
  <2> HIDE DEF v
  <2>1. Call(p).key \in Keys /\ known \in [Procs -> [Keys -> Values]]
    BY <1>2 DEF Inv, TypeOK, Calls
  <2> QED BY <1>1, <1>3, <2>1
<1>5. TypeOK'
    BY <1>1, <1>4, ReturnType DEF SearchReturns, Inv, TypeOK, PcType
<1> QED BY <1>1, <1>5, ReturnStep

(* The write of a call changes what its transaction will publish.          *)
LEMMA WriteType ==
    ASSUME Inv, NEW p \in Procs, NEW k \in Keys, NEW v \in Values, Write(p, k, v)
    PROVE  /\ mine' \in [Procs -> [Keys -> Values]]
           /\ todo' \in [Procs -> Seq(Updates)]
           /\ known' \in [Procs -> [Keys -> Values]]
<1>1. mine' \in [Procs -> [Keys -> Values]] /\ known' \in [Procs -> [Keys -> Values]]
    BY ValuesOK DEF Write, Inv, TypeOK
<1>2. \/ todo' = todo
      \/ todo' = [todo EXCEPT ![p] = Append(todo[p], [act |-> "U", key |-> k, val |-> v])]
    BY DEF Write
<1>3. [act |-> "U", key |-> k, val |-> v] \in Updates
    BY DEF Updates
<1>4. todo' \in [Procs -> Seq(Updates)]
  <2>1. todo \in [Procs -> Seq(Updates)]
    BY DEF Inv, TypeOK
  <2> DEFINE e == [act |-> "U", key |-> k, val |-> v]
  <2>2. e \in Updates
    BY <1>3
  <2> HIDE DEF e
  <2>3. [todo EXCEPT ![p] = Append(todo[p], e)] \in [Procs -> Seq(Updates)]
    BY <2>1, <2>2, AppendType
  <2> QED BY <1>2, <2>1, <2>3 DEF e
<1> QED BY <1>1, <1>4

(* The end of an insert or a delete records a cache update and changes no entry. *)
LEMMA WriteStep ==
    ASSUME Inv, NEW p \in Procs, InsertReturns(p) \/ DeleteReturns(p)
    PROVE  Inv'
<1>1. /\ pc[p] = "use"
      /\ slot' = slot /\ held' = held /\ at' = at
      /\ db' = db /\ nextId' = nextId /\ id' = id /\ seen' = seen /\ limbo' = limbo
    BY DEF InsertReturns, DeleteReturns
<1>2. Call(p) \in Calls /\ id[p] \in Values /\ NotExist \in Values
    BY <1>1, CallOK, ValuesOK DEF Inv, TypeOK
<1>3. \/ \E v \in Values : Write(p, Call(p).key, v)
      \/ /\ pc' = [pc EXCEPT ![p] = "error"]
         /\ mine' = mine /\ todo' = todo /\ known' = known /\ prog' = prog
    BY <1>2 DEF InsertReturns, DeleteReturns, Goto
<1>4. /\ mine' \in [Procs -> [Keys -> Values]]
      /\ todo' \in [Procs -> Seq(Updates)]
      /\ known' \in [Procs -> [Keys -> Values]]
  <2>1. Call(p).key \in Keys
    BY <1>2 DEF Calls
  <2> QED BY <1>3, <2>1, WriteType DEF Inv, TypeOK
<1>5. Return(p) \/ (pc' = [pc EXCEPT ![p] = "error"] /\ prog' = prog)
    BY <1>3 DEF Write
<1>6. TypeOK'
    BY <1>1, <1>4, <1>5, ReturnType DEF Inv, TypeOK, PcType
<1> QED BY <1>1, <1>5, <1>6, ReturnStep

(* The end of a transaction that gives back its locks.                     *)
LEMMA ForgetStep ==
    ASSUME Inv, NEW p \in Procs, Forget(p), slot' = slot, db' = db,
           nextId' = nextId, limbo' \subseteq [Keys -> Values]
    PROVE  Inv'
<1>1. TypeOK'
  <2>1. /\ pc' = [pc EXCEPT ![p] = "idle"]
        /\ held' \in [Procs -> SUBSET [slot: Slots, key: Keys, mode: Modes \ {"none"}]]
    BY DEF Forget, Goto, Inv, TypeOK
  <2>2. /\ prog' \in [Procs -> Seq(Calls)]
        /\ todo' \in [Procs -> Seq(Updates)]
    <3>1. <<>> \in Seq(Calls) /\ <<>> \in Seq(Updates)
        OBVIOUS
    <3>2. prog \in [Procs -> Seq(Calls)] /\ todo \in [Procs -> Seq(Updates)]
        BY DEF Inv, TypeOK
    <3> QED BY <3>1, <3>2, SetType DEF Forget
  <2>3. /\ at' \in [Procs -> Slots \cup {NoSlot}]
        /\ id' \in [Procs -> Values] /\ seen' \in [Procs -> Values]
        /\ mine' \in [Procs -> [Keys -> Values]]
        /\ known' \in [Procs -> [Keys -> Values]]
    BY ValuesOK DEF Forget, Inv, TypeOK
  <2> QED BY <2>1, <2>2, <2>3 DEF Inv, TypeOK
<1>2. \A q \in Procs :
         IF q = p THEN pc'[q] = "idle" /\ held'[q] = {}
         ELSE pc'[q] = pc[q] /\ prog'[q] = prog[q] /\ at'[q] = at[q] /\ held'[q] = held[q]
    BY DEF Forget, Goto, Inv, TypeOK
<1> QED BY <1>1, <1>2, Calm

(* The steps between the last call and the release of the locks.           *)
LEMMA EndStep ==
    ASSUME Inv, NEW p \in Procs,
           \/ Commit(p) \/ Prepare(p) \/ CommitPrepared(p) \/ RollbackPrepared(p)
    PROVE  Inv'
<1>1. /\ slot' = slot /\ nextId' = nextId /\ prog' = prog /\ at' = at /\ id' = id
      /\ seen' = seen /\ held' = held /\ todo' = todo /\ limbo' = limbo
      /\ \/ pc' = [pc EXCEPT ![p] = "publish"]
         \/ pc' = [pc EXCEPT ![p] = "prepared"]
    BY DEF Commit, Prepare, CommitPrepared, RollbackPrepared, Goto
<1>2. /\ db' = db \/ db' = Applied(mine[p])
      /\ mine' = mine \/ mine' = [mine EXCEPT ![p] = NoWrites]
      /\ known' = known \/ known' = [known EXCEPT ![p] = NoWrites]
    BY DEF Commit, Prepare, CommitPrepared, RollbackPrepared
<1>3. /\ db' \in [Keys -> Values] /\ mine' \in [Procs -> [Keys -> Values]]
      /\ known' \in [Procs -> [Keys -> Values]]
  <2>1. Applied(mine[p]) \in [Keys -> Values]
    BY DEF Applied, Inv, TypeOK
  <2>2. /\ mine \in [Procs -> [Keys -> Values]] /\ known \in [Procs -> [Keys -> Values]]
        /\ db \in [Keys -> Values] /\ NoWrites \in [Keys -> Values]
    BY ValuesOK DEF Inv, TypeOK
  <2>3. /\ [mine EXCEPT ![p] = NoWrites] \in [Procs -> [Keys -> Values]]
        /\ [known EXCEPT ![p] = NoWrites] \in [Procs -> [Keys -> Values]]
    BY <2>2, SetType
  <2> QED BY <1>2, <2>1, <2>2, <2>3
<1>4. TypeOK'
    BY <1>1, <1>3 DEF Inv, TypeOK
<1>5. \A q \in Procs : IF q = p THEN pc'[q] \in {"publish", "prepared"} ELSE pc'[q] = pc[q]
    BY <1>1 DEF Inv, TypeOK
<1> QED BY <1>1, <1>4, <1>5, Calm

(* The steps that release the locks.                                       *)
LEMMA ReleaseStep ==
    ASSUME Inv, NEW p \in Procs, Abort(p) \/ SessionLost(p) \/ Release(p)
    PROVE  Inv'
<1>1. limbo \cup {mine[p]} \subseteq [Keys -> Values]
    BY DEF Inv, TypeOK
<1>2. limbo' \subseteq [Keys -> Values]
    BY <1>1 DEF Abort, SessionLost, Release
<1> QED BY <1>2, ForgetStep DEF Abort, SessionLost, Release

(* The transactions that the CN's daemon ends hold no locks.               *)
LEMMA DaemonStep ==
    ASSUME Inv, NEW x \in limbo, DaemonCommit(x) \/ DaemonRollback(x)
    PROVE  Inv'
<1>1. /\ slot' = slot /\ nextId' = nextId /\ prog' = prog /\ at' = at /\ id' = id
      /\ seen' = seen /\ held' = held /\ todo' = todo /\ limbo' = limbo \ {x}
      /\ pc' = pc /\ mine' = mine /\ known' = known
      /\ db' = db \/ db' = Applied(x)
    BY DEF DaemonCommit, DaemonRollback
<1>2. Applied(x) \in [Keys -> Values]
    BY DEF Applied, Inv, TypeOK
<1>3. TypeOK'
    BY <1>1, <1>2 DEF Inv, TypeOK
<1> QED BY <1>1, <1>3, Calm

(* One update is published: into the directory's entry, or into a new one  *)
(* when it has none.                                                       *)
LEMMA PublishStep ==
    ASSUME Inv, NEW p \in Procs, Publish(p)
    PROVE  Inv'
<1> DEFINE e == Head(todo[p])
           new == [key |-> e.key, val |-> e.val]
<1>1. /\ pc[p] = "publish" /\ todo[p] # <<>> /\ todo' = [todo EXCEPT ![p] = Tail(todo[p])]
      /\ db' = db /\ nextId' = nextId /\ pc' = pc /\ prog' = prog /\ at' = at
      /\ id' = id /\ seen' = seen /\ held' = held /\ mine' = mine /\ known' = known
      /\ limbo' = limbo
    BY DEF Publish
<1>2. todo[p] \in Seq(Updates) /\ e \in Updates
    BY <1>1 DEF Inv, TypeOK
<1>3. todo' \in [Procs -> Seq(Updates)]
  <2>1. Tail(todo[p]) \in Seq(Updates)
    BY <1>1, <1>2
  <2>2. todo \in [Procs -> Seq(Updates)]
    BY DEF Inv, TypeOK
  <2> QED BY <1>1, <2>1, <2>2, SetType
<1>4. e.key \in Keys /\ e.val \in Values /\ e.key # NoKey
    BY <1>2, ValuesOK DEF Updates
<1>5. TypeOK' <=> slot' \in [Slots -> [key: Keys \cup {NoKey}, val: Values]]
    BY <1>1, <1>3 DEF Inv, TypeOK
<1>6. \/ \E s \in Slots : Eliminate(s)
      \/ slot' = slot
      \/ \E s \in Find(e.key) : slot' = [slot EXCEPT ![s] = new]
      \/ Find(e.key) = {} /\ \E s \in Slots \ Entries : slot' = [slot EXCEPT ![s] = new]
    BY DEF Publish
<1>7. CASE \E s \in Slots : Eliminate(s)
    BY <1>1, <1>5, <1>7, EliminateType, EliminateStep
<1>8. CASE slot' = slot
    BY <1>1, <1>5, <1>8, Calm DEF Inv, TypeOK
<1>9. CASE \E s \in Find(e.key) : slot' = [slot EXCEPT ![s] = new]
  <2>1. PICK s \in Slots : slot[s].key = e.key /\ slot' = [slot EXCEPT ![s] = new]
    BY <1>9 DEF Find
  <2>2. slot' \in [Slots -> [key: Keys \cup {NoKey}, val: Values]]
    BY <1>4, <2>1 DEF Inv, TypeOK
  <2>3. \A t \in Slots : slot'[t].key = slot[t].key
    BY <2>1 DEF Inv, TypeOK
  <2> QED BY <1>1, <1>5, <2>2, <2>3, Calm
<1>10. CASE Find(e.key) = {} /\ \E s \in Slots \ Entries : slot' = [slot EXCEPT ![s] = new]
  <2>1. PICK s \in Slots : slot[s].key = NoKey /\ slot' = [slot EXCEPT ![s] = new]
    BY <1>10 DEF Entries
  <2>2. slot' \in [Slots -> [key: Keys \cup {NoKey}, val: Values]]
    BY <1>4, <2>1 DEF Inv, TypeOK
  <2>3. \A t \in Slots : slot'[t].key = IF t = s THEN e.key ELSE slot[t].key
    BY <2>1 DEF Inv, TypeOK
  <2> QED BY <1>1, <1>4, <1>5, <1>10, <2>1, <2>2, <2>3, NewEntry DEF Find
<1> QED BY <1>6, <1>7, <1>8, <1>9, <1>10

(* Eviction never takes away the lock of a directory that somebody holds   *)
(* or waits for, so two backends that lock one directory for writing, or   *)
(* one for writing and one for reading, never do so at once.               *)
THEOREM KeyExclusionHolds == Spec => []Inv
<1>1. Init => Inv
  <2> SUFFICES ASSUME Init PROVE Inv
    OBVIOUS
  <2>1. TypeOK
    <3>1. prog \in [Procs -> Seq(Calls)] /\ todo \in [Procs -> Seq(Updates)]
        BY DEF Init
    <3>2. /\ slot \in [Slots -> [key: Keys \cup {NoKey}, val: Values]]
          /\ db \in [Keys -> Values] /\ nextId \in 1 .. MaxId + 1
          /\ mine \in [Procs -> [Keys -> Values]] /\ known \in [Procs -> [Keys -> Values]]
        BY ValuesOK DEF Init
    <3> QED BY <3>1, <3>2, ValuesOK DEF Init, TypeOK
  <2>2. OneEntry /\ CallsSound /\ KeyExclusion
    BY DEF Init, Free, OneEntry, CallsSound, KeyExclusion
  <2> QED BY <2>1, <2>2 DEF Inv
<1>2. Inv /\ [Next]_vars => Inv'
  <2> SUFFICES ASSUME Inv, [Next]_vars PROVE Inv'
    OBVIOUS
  <2>1. ASSUME NEW p \in Procs, NEW pr \in Programs, Begin(p, pr) PROVE Inv'
    BY <2>1, BeginStep
  <2>2. ASSUME NEW p \in Procs, Step(p) PROVE Inv'
    BY <2>2, ProbeStep, ReadStep, EnterFoundStep, EnterNewStep, EnterNoSpaceStep,
       MakeSpaceStep, SearchReturnsStep, WriteStep, EndStep, ReleaseStep, PublishStep
       DEF Step
  <2>3. ASSUME NEW p \in Procs, Acquire(p) PROVE Inv'
    BY <2>3, AcquireStep
  <2>4. CASE Daemon
    BY <2>4, DaemonStep DEF Daemon
  <2>5. CASE UNCHANGED vars
    <3>1. TypeOK'
        BY <2>5 DEF Inv, TypeOK, vars
    <3> QED BY <2>5, <3>1, Calm DEF vars
  <2> QED BY <2>1, <2>2, <2>3, <2>4, <2>5 DEF Next
<1> QED BY <1>1, <1>2, PTL DEF Spec

-----------------------------------------------------------------------------
(***************************************************************************)
(* The cache is coherent.  As long as nothing is evicted and prepared      *)
(* transactions are only committed, CoherenceInv is inductive on top of    *)
(* Inv.                                                                    *)
(***************************************************************************)

\* All that the steps of p leave alone.
OthersStay(p) ==
    /\ limbo' = limbo
    /\ \A q \in Procs \ {p} :
          /\ pc'[q] = pc[q] /\ prog'[q] = prog[q] /\ at'[q] = at[q]
          /\ id'[q] = id[q] /\ seen'[q] = seen[q] /\ held'[q] = held[q]
          /\ mine'[q] = mine[q] /\ todo'[q] = todo[q] /\ known'[q] = known[q]

(* One backend moves, and neither the table nor the entries do: the others *)
(* have what they had.                                                     *)
LEMMA OneMoves ==
    ASSUME Inv, CoherenceInv, NEW p \in Procs,
           slot' = slot, db' = db, OthersStay(p),
           \A k \in Keys : Publishing(p, k) => Publishing(p, k)',
           Coherent(p)'
    PROVE  CoherenceInv'
<1>1. \A q \in Procs, k \in Keys : Publishing(q, k) => Publishing(q, k)'
    BY DEF Publishing, OthersStay
<1>2. EntriesTrue'
  <2> SUFFICES ASSUME NEW s \in Entries
               PROVE  \/ slot[s].val \in {Unknown, db[slot[s].key]}
                      \/ \E q \in Procs : Publishing(q, slot[s].key)'
    BY DEF EntriesTrue, Entries
  <2>1. slot[s].key \in Keys
    BY DEF Entries, Inv, TypeOK
  <2> QED BY <1>1, <2>1 DEF CoherenceInv, EntriesTrue
<1>3. ASSUME NEW q \in Procs \ {p} PROVE Coherent(q)'
  <2>0. /\ pc'[q] = pc[q] /\ prog'[q] = prog[q] /\ at'[q] = at[q]
        /\ id'[q] = id[q] /\ seen'[q] = seen[q] /\ held'[q] = held[q]
        /\ mine'[q] = mine[q] /\ todo'[q] = todo[q] /\ known'[q] = known[q]
        /\ CallsDisciplined(q) /\ WritesLocked(q) /\ UseSound(q)
        /\ KnownLocked(q) /\ SeenFresh(q)
    BY <1>3 DEF CoherenceInv, Coherent, OthersStay
  <2>1. CallsDisciplined(q)' /\ WritesLocked(q)'
    <3>1. CallsDisciplined(q)'
        BY <2>0 DEF CallsDisciplined, Owns
    <3>2. WritesLocked(q)'
        BY <2>0 DEF WritesLocked, Owns
    <3> QED BY <3>1, <3>2
  <2>2. UseSound(q)' /\ KnownLocked(q)'
    BY <2>0 DEF UseSound, KnownLocked, Owns, Call
  <2>3. SeenFresh(q)'
    <3> SUFFICES ASSUME pc[q] = "enter", Call(q).op # "delete"
                 PROVE  SeenFresh(q)'
        BY <2>0 DEF SeenFresh, Call
    <3>1. PICK k \in Keys : Call(q).key = k /\ Call(q)' = Call(q)
        BY <2>0, CallOK DEF Calls, Call
    <3>2. /\ seen[q] \in 0 .. MaxId
          /\ \/ seen[q] = db[k]
             \/ \E s \in Find(k) : slot[s].val # Unknown \/ \E r \in Procs : Publishing(r, k)
        BY <2>0, <3>1 DEF SeenFresh
    <3>3. Find(k)' = Find(k)
        BY DEF Find
    <3> QED BY <1>1, <2>0, <3>1, <3>2, <3>3 DEF SeenFresh
  <2> QED BY <2>1, <2>2, <2>3 DEF Coherent
<1> QED BY <1>2, <1>3 DEF CoherenceInv, OthersStay

(* A new transaction knows nothing and owes the cache nothing. *)
LEMMA BeginCoherent ==
    ASSUME Undisturbed, Inv, CoherenceInv, NEW p \in Procs, NEW pr \in Programs,
           Begin(p, pr)
    PROVE  CoherenceInv'
<1>1. OthersStay(p)
    BY DEF Begin, Goto, Inv, TypeOK, OthersStay
<1>2. /\ pc[p] = "idle" /\ pc'[p] = "probe" /\ prog'[p] = pr
      /\ slot' = slot /\ db' = db /\ at' = at /\ seen' = seen /\ held' = held
      /\ mine' = mine /\ todo' = todo /\ known' = known
    BY DEF Begin, Goto, Inv, TypeOK
<1>3. \A i \in 1 .. Len(pr) : pr[i].op = "insert" => id'[p] \in 0 .. MaxId
  <2> SUFFICES ASSUME NEW i \in 1 .. Len(pr), pr[i].op = "insert"
               PROVE  id'[p] \in 0 .. MaxId
    OBVIOUS
  <2>1. pr \in Seq(Calls)
    BY ConstantsOK
  <2>2. i \in DOMAIN pr
    BY <2>1
  <2>3. nextId <= MaxId /\ id' = [id EXCEPT ![p] = nextId]
    BY <2>2 DEF Begin
  <2> QED BY <2>3, ValuesOK DEF Inv, TypeOK
<1>4. CallsDisciplined(p) /\ WritesLocked(p) /\ UseSound(p) /\ KnownLocked(p)
    BY DEF CoherenceInv, Coherent
<1>5. \A k \in Keys : mine[p][k] = Nil
    BY <1>2, <1>4 DEF WritesLocked
<1>6. pr \in Seq(Calls) /\ \A i \in 1 .. Len(pr) : pr[i].key \in Keys
  <2>1. pr \in Seq(Calls)
    BY ConstantsOK
  <2>2. \A i \in 1 .. Len(pr) : pr[i] \in Calls
    BY <2>1
  <2> QED BY <2>1, <2>2 DEF Calls
<1>7. CallsDisciplined(p)'
    BY <1>2, <1>3, <1>5, <1>6 DEF CallsDisciplined, Undisturbed, Disciplined
<1>8. WritesLocked(p)'
    BY <1>2, <1>4 DEF WritesLocked, Owns
<1>9. SeenFresh(p)' /\ UseSound(p)' /\ KnownLocked(p)'
    BY <1>2, <1>4 DEF SeenFresh, UseSound, KnownLocked
<1>10. \A k \in Keys : Publishing(p, k) => Publishing(p, k)'
    BY <1>2 DEF Publishing
<1> QED BY <1>1, <1>2, <1>7, <1>8, <1>9, <1>10, OneMoves DEF Coherent

(* What a step of a call leaves alone when it only moves to another step.  *)
LEMMA CallMoves ==
    ASSUME Inv, CoherenceInv, NEW p \in Procs, OthersStay(p), slot' = slot, db' = db,
           prog' = prog, id' = id, held' = held, mine' = mine, todo' = todo,
           known' = known,
           pc[p] \in {"probe", "read", "enter"},
           pc'[p] \in {"read", "enter", "acquire", "use", "error"},
           SeenFresh(p)', UseSound(p)'
    PROVE  CoherenceInv'
<1>1. CallsDisciplined(p) /\ WritesLocked(p) /\ KnownLocked(p)
    BY DEF CoherenceInv, Coherent
<1>2. CallsDisciplined(p)'
    BY <1>1 DEF CallsDisciplined, Owns
<1>3. WritesLocked(p)'
    BY <1>1 DEF WritesLocked, Owns
<1>4. KnownLocked(p)'
    BY <1>1 DEF KnownLocked
<1>5. \A k \in Keys : Publishing(p, k) => Publishing(p, k)'
    BY DEF Publishing
<1> QED BY <1>2, <1>3, <1>4, <1>5, OneMoves DEF Coherent

(* A hit under the shared LWLock finds an entry that is true or locked. *)
LEMMA ProbeCoherent ==
    ASSUME Inv, CoherenceInv, NEW p \in Procs, Probe(p)
    PROVE  CoherenceInv'
<1>1. /\ pc[p] = "probe" /\ prog' = prog /\ held' = held /\ slot' = slot /\ db' = db
      /\ id' = id /\ mine' = mine /\ todo' = todo /\ known' = known /\ seen' = seen
    BY DEF Probe
<1>2. OthersStay(p)
    BY DEF Probe, Pin, Goto, Inv, TypeOK, OthersStay
<1>3. Call(p)' = Call(p)
    BY <1>1 DEF Call
<1>4. CASE \E s \in Find(Call(p).key) :
              (Call(p).op = "delete" \/ slot[s].val # Unknown) /\ Pin(p, s)
  <2>1. PICK s \in Slots : /\ slot[s].key = Call(p).key
                           /\ Call(p).op = "delete" \/ slot[s].val # Unknown
                           /\ Pin(p, s)
    BY <1>4 DEF Find
  <2>2. at'[p] = s /\ pc'[p] = IF Call(p).mode = "none" THEN "use" ELSE "acquire"
    BY <2>1 DEF Pin, Goto, Inv, TypeOK
  <2>3. s # NoSlot
    BY ValuesOK
  <2>4. UseSound(p)'
    BY <1>1, <1>3, <2>1, <2>2, <2>3 DEF UseSound
  <2>5. SeenFresh(p)'
    BY <2>2 DEF SeenFresh
  <2> QED BY <1>1, <1>2, <2>2, <2>4, <2>5, CallMoves
<1>5. CASE /\ at' = at
           /\ pc' = [pc EXCEPT ![p] = IF Call(p).op = "delete" THEN "enter" ELSE "read"]
  <2>1. pc'[p] = IF Call(p).op = "delete" THEN "enter" ELSE "read"
    BY <1>5 DEF Inv, TypeOK
  <2>2. UseSound(p)' /\ SeenFresh(p)'
    BY <1>3, <2>1 DEF UseSound, SeenFresh
  <2> QED BY <1>1, <1>2, <2>1, <2>2, CallMoves
<1> QED BY <1>4, <1>5 DEF Probe, Goto

(* The table is read: no lock protects what is read, but while the         *)
(* directory has no entry nobody can have it locked for writing.           *)
LEMMA ReadCoherent ==
    ASSUME Inv, CoherenceInv, NEW p \in Procs, ReadTable(p)
    PROVE  CoherenceInv'
<1>1. /\ pc[p] = "read" /\ prog' = prog /\ held' = held /\ slot' = slot /\ db' = db
      /\ id' = id /\ mine' = mine /\ todo' = todo /\ known' = known /\ at' = at
    BY DEF ReadTable
<1>2. OthersStay(p)
    BY DEF ReadTable, Goto, Inv, TypeOK, OthersStay
<1>3. Call(p)' = Call(p) /\ Call(p).key \in Keys
    BY <1>1, CallOK DEF Call, Calls
<1>4. mine[p][Call(p).key] = Nil
  <2>1. CallsDisciplined(p) /\ prog[p] # <<>> /\ prog[p] \in Seq(Calls)
    BY <1>1, CallOK DEF CoherenceInv, Coherent
  <2>2. 1 \in 1 .. Len(prog[p]) /\ Call(p) = prog[p][1]
    BY <2>1 DEF Call
  <2> QED BY <2>1, <2>2 DEF CallsDisciplined
<1>5. seen'[p] = db[Call(p).key] /\ db[Call(p).key] \in 0 .. MaxId
    BY <1>3, <1>4 DEF ReadTable, View, Inv, TypeOK, CoherenceInv
<1>6. pc'[p] \in {"error", "enter"}
    BY DEF ReadTable, Goto, Inv, TypeOK
<1>7. UseSound(p)' /\ SeenFresh(p)'
    BY <1>1, <1>3, <1>5, <1>6 DEF UseSound, SeenFresh
<1> QED BY <1>1, <1>2, <1>6, <1>7, CallMoves

(* A call that goes on without an entry uses what it read itself. *)
LEMMA EnterNoSpaceCoherent ==
    ASSUME Inv, CoherenceInv, NEW p \in Procs, EnterNoSpace(p)
    PROVE  CoherenceInv'
<1>1. /\ pc[p] = "enter" /\ prog' = prog /\ held' = held /\ slot' = slot /\ db' = db
      /\ id' = id /\ mine' = mine /\ todo' = todo /\ known' = known /\ seen' = seen
      /\ Find(Call(p).key) = {} /\ Call(p).mode = "none"
    BY DEF EnterNoSpace
<1>2. OthersStay(p) /\ pc'[p] = "use" /\ at'[p] = NoSlot
    BY DEF EnterNoSpace, Goto, Inv, TypeOK, OthersStay
<1>3. Call(p)' = Call(p)
    BY <1>1 DEF Call
<1>4. ~ Owns(p, Call(p).key)
  <2>1. \A h \in held[p] : h.slot \in Slots /\ slot[h.slot].key = h.key
    BY DEF Inv, TypeOK, KeyExclusion
  <2> QED BY <1>1, <2>1 DEF Owns, Find
<1>5. UseSound(p)' /\ SeenFresh(p)'
    BY <1>1, <1>2, <1>3, <1>4 DEF UseSound, SeenFresh, Owns
<1> QED BY <1>1, <1>2, <1>5, CallMoves

(* Once the lock is held, the entry's value is the committed one. *)
LEMMA AcquireCoherent ==
    ASSUME Inv, CoherenceInv, NEW p \in Procs, Acquire(p)
    PROVE  CoherenceInv'
<1> DEFINE new == [slot |-> at[p], key |-> Call(p).key, mode |-> Call(p).mode]
<1>1. /\ pc[p] = "acquire" /\ prog' = prog /\ slot' = slot /\ db' = db /\ at' = at
      /\ id' = id /\ mine' = mine /\ todo' = todo /\ known' = known /\ seen' = seen
    BY DEF Acquire
<1>2. OthersStay(p) /\ pc'[p] = "use" /\ held'[p] = held[p] \cup {new}
    BY DEF Acquire, Goto, Inv, TypeOK, OthersStay
<1>3. Call(p)' = Call(p)
    BY <1>1 DEF Call
<1>4. at[p] # NoSlot
    BY <1>1, ValuesOK DEF Inv, CallsSound
<1>5. CallsDisciplined(p) /\ WritesLocked(p) /\ KnownLocked(p) /\ UseSound(p)
    BY DEF CoherenceInv, Coherent
<1> HIDE DEF new
<1>7. CallsDisciplined(p)'
  <2>1. \A k : Owns(p, k) => \E h \in held'[p] : h.key = k /\ h.mode = "exclusive"
    BY <1>2 DEF Owns
  <2> QED BY <1>1, <1>5, <2>1 DEF CallsDisciplined, Owns
<1>8. WritesLocked(p)'
  <2>1. \A h \in held[p] : h \in held'[p]
    BY <1>2
  <2> QED BY <1>1, <1>2, <1>5, <2>1 DEF WritesLocked, Owns
<1>9. SeenFresh(p)' /\ KnownLocked(p)'
    BY <1>1, <1>2, <1>5 DEF SeenFresh, KnownLocked
<1>10. UseSound(p)'
    BY <1>1, <1>2, <1>3, <1>4, <1>5 DEF UseSound, new
<1>11. \A k \in Keys : Publishing(p, k) => Publishing(p, k)'
    BY <1>1 DEF Publishing
<1> QED BY <1>1, <1>2, <1>7, <1>8, <1>9, <1>10, <1>11, OneMoves DEF Coherent

(* A call that writes has the exclusive lock, and an entry to publish in.  *)
LEMMA WriterOwns ==
    ASSUME Inv, CoherenceInv, NEW p \in Procs, pc[p] = "use", Call(p).op # "search"
    PROVE  /\ Owns(p, Call(p).key) /\ at[p] # NoSlot /\ mine[p][Call(p).key] = Nil
           /\ \A j \in 2 .. Len(prog[p]) : prog[p][j].key # Call(p).key
           /\ Call(p).op = "insert" => id[p] \in 0 .. MaxId
<1>1. CallsDisciplined(p) /\ UseSound(p) /\ prog[p] # <<>> /\ prog[p] \in Seq(Calls)
    BY CallOK DEF CoherenceInv, Coherent
<1>2. Call(p) = prog[p][1] /\ 1 \in 1 .. Len(prog[p])
    BY <1>1 DEF Call
<1>3. Call(p).mode = "exclusive" => Owns(p, Call(p).key)
    BY <1>1 DEF UseSound, Owns
<1>4. Owns(p, Call(p).key)
    BY <1>1, <1>2, <1>3 DEF CallsDisciplined
<1>5. at[p] # NoSlot
    BY <1>1, <1>4 DEF UseSound
<1> QED BY <1>1, <1>2, <1>4, <1>5 DEF CallsDisciplined

(* The calls that are left when one has returned.                          *)
LEMMA ReturnDisciplined ==
    ASSUME Inv, CoherenceInv, NEW p \in Procs, pc[p] = "use", Return(p),
           held' = held, id' = id,
           \A k \in Keys : \/ mine'[p][k] = mine[p][k]
                           \/ k = Call(p).key /\ Call(p).op # "search"
    PROVE  CallsDisciplined(p)'
<1>1. CallsDisciplined(p) /\ UseSound(p) /\ prog[p] # <<>> /\ prog[p] \in Seq(Calls)
    BY CallOK DEF CoherenceInv, Coherent
<1>2. prog'[p] = Tail(prog[p]) /\ Call(p) = prog[p][1]
    BY <1>1 DEF Return, Call, Inv, TypeOK
<1>3. /\ Len(prog'[p]) = Len(prog[p]) - 1 /\ Len(prog[p]) \in Nat
      /\ \A i \in 1 .. Len(prog'[p]) : prog'[p][i] = prog[p][i + 1]
    BY <1>1, <1>2
<1>4. Call(p).mode = "exclusive" => Owns(p, Call(p).key)
    BY <1>1 DEF UseSound, Owns
<1>5. \A k : Owns(p, k) => \E h \in held'[p] : h.key = k /\ h.mode = "exclusive"
    BY DEF Owns
<1> SUFFICES ASSUME NEW i \in 1 .. Len(prog'[p])
             PROVE  LET c == prog'[p][i] IN
                    /\ mine'[p][c.key] = Nil
                    /\ c.op = "insert" => id[p] \in 0 .. MaxId
                    /\ c.op # "search" =>
                         /\ \/ \E h \in held'[p] : h.key = c.key /\ h.mode = "exclusive"
                            \/ \E j \in 1 .. i : /\ prog'[p][j].key = c.key
                                                 /\ prog'[p][j].mode = "exclusive"
                         /\ \A j \in i + 1 .. Len(prog'[p]) : prog'[p][j].key # c.key
    BY DEF CallsDisciplined, Owns
<1> DEFINE c == prog[p][i + 1]
<1>6. i + 1 \in 1 .. Len(prog[p]) /\ prog'[p][i] = c /\ c \in Calls
    BY <1>1, <1>3
<1>7. mine[p][c.key] = Nil /\ (c.op = "insert" => id[p] \in 0 .. MaxId)
    BY <1>1, <1>6 DEF CallsDisciplined
<1>8. mine'[p][c.key] = Nil
  <2>1. c.key \in Keys
    BY <1>6 DEF Calls
  <2>2. Call(p).op # "search" => c.key # Call(p).key
    BY <1>3, <1>6, WriterOwns
  <2> QED BY <1>7, <2>1, <2>2
<1>9. ASSUME c.op # "search"
      PROVE  /\ \/ \E h \in held'[p] : h.key = c.key /\ h.mode = "exclusive"
                \/ \E j \in 1 .. i : prog'[p][j].key = c.key /\ prog'[p][j].mode = "exclusive"
             /\ \A j \in i + 1 .. Len(prog'[p]) : prog'[p][j].key # c.key
  <2>1. /\ \/ Owns(p, c.key)
           \/ \E j \in 1 .. i + 1 : prog[p][j].key = c.key /\ prog[p][j].mode = "exclusive"
        /\ \A j \in i + 2 .. Len(prog[p]) : prog[p][j].key # c.key
    BY <1>1, <1>6, <1>9 DEF CallsDisciplined
  <2>2. ASSUME NEW j \in i + 1 .. Len(prog'[p]) PROVE prog'[p][j].key # c.key
    <3>1. j + 1 \in i + 2 .. Len(prog[p]) /\ prog'[p][j] = prog[p][j + 1]
        BY <1>3
    <3> QED BY <2>1, <3>1
  <2>3. CASE Owns(p, c.key)
    BY <1>5, <2>2, <2>3
  <2>4. ASSUME NEW j \in 1 .. i + 1, prog[p][j].key = c.key, prog[p][j].mode = "exclusive"
        PROVE  \/ \E h \in held'[p] : h.key = c.key /\ h.mode = "exclusive"
               \/ \E m \in 1 .. i : prog'[p][m].key = c.key /\ prog'[p][m].mode = "exclusive"
    <3>1. CASE j = 1
        BY <1>2, <1>4, <1>5, <2>4, <3>1
    <3>2. CASE j # 1
      <4>1. j - 1 \in 1 .. i /\ prog'[p][j - 1] = prog[p][j]
        BY <1>3, <3>2
      <4> QED BY <2>4, <4>1
    <3> QED BY <3>1, <3>2
  <2> QED BY <2>1, <2>2, <2>3, <2>4
<1> QED BY <1>6, <1>7, <1>8, <1>9

(* A call ends in an error, and only the end of the transaction follows.   *)
LEMMA ErrorCoherent ==
    ASSUME Inv, CoherenceInv, NEW p \in Procs, pc[p] \in {"enter", "use"},
           OthersStay(p), pc'[p] = "error",
           slot' = slot, db' = db, prog' = prog, id' = id, held' = held,
           mine' = mine, todo' = todo,
           \A k \in Keys : known'[p][k] # Nil =>
              known'[p][k] = db[k] /\ \E h \in held[p] : h.key = k
    PROVE  CoherenceInv'
<1>1. CallsDisciplined(p) /\ WritesLocked(p)
    BY DEF CoherenceInv, Coherent
<1>2. CallsDisciplined(p)'
    BY <1>1 DEF CallsDisciplined, Owns
<1>3. WritesLocked(p)'
    BY <1>1 DEF WritesLocked, Owns
<1>4. SeenFresh(p)' /\ UseSound(p)' /\ KnownLocked(p)'
    BY DEF SeenFresh, UseSound, KnownLocked
<1>5. \A k \in Keys : Publishing(p, k) => Publishing(p, k)'
    BY DEF Publishing
<1> QED BY <1>2, <1>3, <1>4, <1>5, OneMoves DEF Coherent

(* What Search returns under a lock is in the table: a backend that still  *)
(* has to publish the entry would hold its lock for writing.               *)
LEMMA LockedSearchTrue ==
    ASSUME Inv, CoherenceInv, NEW p \in Procs, pc[p] = "use",
           Call(p).op = "search", Call(p).mode # "none"
    PROVE  /\ at[p] # NoSlot
           /\ slot[at[p]].val = db[Call(p).key]
           /\ \E h \in held[p] : h.key = Call(p).key
<1> DEFINE g == [slot |-> at[p], key |-> Call(p).key, mode |-> Call(p).mode]
<1>1. UseSound(p) /\ Call(p) \in Calls
    BY CallOK DEF CoherenceInv, Coherent
<1>2. g \in held[p] /\ g.key = Call(p).key /\ g.slot = at[p]
    BY <1>1 DEF UseSound
<1> HIDE DEF g
<1>3. at[p] \in Slots /\ at[p] # NoSlot
    BY <1>2, ValuesOK DEF Inv, TypeOK
<1>4. slot[at[p]].key = Call(p).key /\ slot[at[p]].val # Unknown
    BY <1>1, <1>3 DEF UseSound
<1>5. at[p] \in Entries
    BY <1>1, <1>3, <1>4, ValuesOK DEF Entries, Calls
<1>6. ASSUME NEW q \in Procs, Publishing(q, Call(p).key) PROVE FALSE
  <2>1. q # p
    BY <1>6 DEF Publishing
  <2>2. Owns(q, Call(p).key)
    BY <1>6 DEF CoherenceInv, Coherent, WritesLocked, Publishing
  <2>3. PICK h \in held[q] : h.key = Call(p).key /\ h.mode = "exclusive"
    BY <2>2 DEF Owns
  <2> QED BY <1>2, <2>1, <2>3 DEF Inv, KeyExclusion
<1>7. slot[at[p]].val = db[Call(p).key]
    BY <1>4, <1>5, <1>6 DEF CoherenceInv, EntriesTrue
<1> QED BY <1>2, <1>3, <1>7

(* What a locked search returns is the committed row. *)
LEMMA SearchReturnsCoherent ==
    ASSUME Inv, CoherenceInv, NEW p \in Procs, SearchReturns(p)
    PROVE  CoherenceInv'
<1>1. /\ pc[p] = "use" /\ Call(p).op = "search" /\ slot' = slot /\ db' = db /\ at' = at
      /\ held' = held /\ id' = id /\ mine' = mine /\ todo' = todo /\ seen' = seen
      /\ Return(p) \/ (pc' = [pc EXCEPT ![p] = "error"] /\ prog' = prog)
    BY DEF SearchReturns, Goto
<1>2. Call(p) \in Calls /\ Call(p).key \in Keys
    BY <1>1, CallOK DEF Calls
<1>3. OthersStay(p)
    BY <1>1, <1>2 DEF SearchReturns, Return, Goto, Inv, TypeOK, OthersStay
<1>4. KnownLocked(p) /\ WritesLocked(p)
    BY DEF CoherenceInv, Coherent
<1>5. \A k \in Keys : known'[p][k] # Nil =>
         known'[p][k] = db[k] /\ \E h \in held[p] : h.key = k
  <2>1. CASE Call(p).mode = "none"
    BY <1>4, <2>1 DEF SearchReturns, KnownLocked
  <2>2. CASE Call(p).mode # "none"
    <3>1. /\ at[p] # NoSlot /\ slot[at[p]].val = db[Call(p).key]
          /\ \E h \in held[p] : h.key = Call(p).key
        BY <1>1, <2>2, LockedSearchTrue
    <3>2. known' = [known EXCEPT ![p][Call(p).key] = db[Call(p).key]]
        BY <2>2, <3>1 DEF SearchReturns
    <3>3. \A k \in Keys : known'[p][k] = IF k = Call(p).key THEN db[k] ELSE known[p][k]
        BY <1>2, <3>2 DEF Inv, TypeOK
    <3> QED BY <1>4, <3>1, <3>3 DEF KnownLocked
  <2> QED BY <2>1, <2>2
<1>6. CASE Return(p)
  <2>1. pc'[p] \in {"done", "probe"}
    BY <1>6 DEF Return, Goto, Inv, TypeOK
  <2>2. CallsDisciplined(p)'
    BY <1>1, <1>6, ReturnDisciplined
  <2>3. WritesLocked(p)'
    BY <1>1, <1>4, <2>1 DEF WritesLocked, Owns
  <2>4. SeenFresh(p)' /\ UseSound(p)' /\ KnownLocked(p)'
    BY <1>1, <1>5, <2>1 DEF SeenFresh, UseSound, KnownLocked
  <2>5. \A k \in Keys : Publishing(p, k) => Publishing(p, k)'
    BY <1>1 DEF Publishing
  <2> QED BY <1>1, <1>3, <2>2, <2>3, <2>4, <2>5, OneMoves DEF Coherent
<1>7. CASE pc' = [pc EXCEPT ![p] = "error"] /\ prog' = prog
  <2>1. pc'[p] = "error"
    BY <1>7 DEF Inv, TypeOK
  <2> QED BY <1>1, <1>3, <1>5, <1>7, <2>1, ErrorCoherent
<1> QED BY <1>1, <1>6, <1>7

(* Insert and Delete write under the exclusive lock.                       *)
LEMMA WriteCoherent ==
    ASSUME Inv, CoherenceInv, NEW p \in Procs, InsertReturns(p) \/ DeleteReturns(p)
    PROVE  CoherenceInv'
<1>1. /\ pc[p] = "use" /\ Call(p).op \in {"insert", "delete"}
      /\ slot' = slot /\ held' = held /\ at' = at
      /\ db' = db /\ id' = id /\ seen' = seen /\ limbo' = limbo
    BY DEF InsertReturns, DeleteReturns
<1>2. Call(p) \in Calls /\ prog[p] # <<>>
    BY <1>1, CallOK
<1>3. PICK k \in Keys : Call(p).key = k
    BY <1>2 DEF Calls
<1>4. /\ Owns(p, k) /\ at[p] # NoSlot /\ mine[p][k] = Nil
      /\ Call(p).op = "insert" => id[p] \in 0 .. MaxId
    BY <1>1, <1>3, WriterOwns
<1>5. \/ \E v \in 0 .. MaxId : Write(p, k, v)
      \/ /\ pc' = [pc EXCEPT ![p] = "error"]
         /\ mine' = mine /\ todo' = todo /\ known' = known /\ prog' = prog
  <2>1. NotExist \in 0 .. MaxId
    BY ValuesOK DEF NotExist
  <2> QED BY <1>1, <1>3, <1>4, <2>1 DEF InsertReturns, DeleteReturns, Goto
<1>6. KnownLocked(p) /\ WritesLocked(p)
    BY DEF CoherenceInv, Coherent
<1>7. ASSUME NEW v \in 0 .. MaxId, Write(p, k, v) PROVE CoherenceInv'
  <2> DEFINE e == [act |-> "U", key |-> k, val |-> v]
  <2>1. /\ mine' = [mine EXCEPT ![p][k] = v]
        /\ todo' = [todo EXCEPT ![p] = Append(todo[p], e)]
        /\ known' = [known EXCEPT ![p][k] = Nil]
        /\ Return(p)
    BY <1>4, <1>7 DEF Write
  <2>2. e.act = "U" /\ e.key = k /\ e.val = v /\ v # Nil
    BY ValuesOK DEF Nil
  <2> HIDE DEF e
  <2>3. /\ \A j \in Keys : mine'[p][j] = IF j = k THEN v ELSE mine[p][j]
        /\ \A j \in Keys : known'[p][j] = IF j = k THEN Nil ELSE known[p][j]
        /\ todo'[p] = Append(todo[p], e)
        /\ pc'[p] \in {"done", "probe"}
    BY <2>1 DEF Return, Goto, Inv, TypeOK
  <2>4. todo[p] \in Seq(Updates)
    BY DEF Inv, TypeOK
  <2>5. /\ Len(todo'[p]) = Len(todo[p]) + 1 /\ Len(todo[p]) \in Nat
        /\ \A i \in 1 .. Len(todo[p]) : todo'[p][i] = todo[p][i]
        /\ todo'[p][Len(todo[p]) + 1] = e
    BY <2>3, <2>4
  <2>6. OthersStay(p)
    BY <1>1, <2>1 DEF Return, Goto, Inv, TypeOK, OthersStay
  <2>7. CallsDisciplined(p)'
    BY <1>1, <1>3, <2>1, <2>3, ReturnDisciplined
  <2>8. WritesLocked(p)'
    <3>1. ASSUME NEW j \in Keys, mine'[p][j] # Nil
          PROVE  /\ mine'[p][j] \in 0 .. MaxId /\ Owns(p, j)'
                 /\ \E i \in 1 .. Len(todo'[p]) : todo'[p][i].act = "U" /\ todo'[p][i].key = j
      <4>1. CASE j = k
        <5>1. Len(todo[p]) + 1 \in 1 .. Len(todo'[p])
            BY <2>5
        <5> QED BY <1>1, <1>4, <2>2, <2>3, <2>5, <4>1, <5>1 DEF Owns
      <4>2. CASE j # k
        <5>1. /\ mine[p][j] # Nil /\ mine'[p][j] = mine[p][j]
            BY <2>3, <3>1, <4>2
        <5>2. PICK i \in 1 .. Len(todo[p]) : todo[p][i].act = "U" /\ todo[p][i].key = j
            BY <1>6, <5>1 DEF WritesLocked
        <5>3. i \in 1 .. Len(todo'[p])
            BY <2>5
        <5> QED BY <1>1, <1>6, <2>5, <5>1, <5>2, <5>3 DEF WritesLocked, Owns
      <4> QED BY <4>1, <4>2
    <3>2. ASSUME NEW i \in 1 .. Len(todo'[p]), todo'[p][i].act = "U"
          PROVE  /\ \E h \in held'[p] : h.key = todo'[p][i].key /\ h.mode = "exclusive"
                 /\ todo'[p][i].val = mine'[p][todo'[p][i].key]
                 /\ todo'[p][i].val # Nil
      <4>1. CASE i = Len(todo[p]) + 1
        BY <1>1, <1>4, <2>2, <2>3, <2>5, <4>1 DEF Owns
      <4>2. CASE i \in 1 .. Len(todo[p])
        <5>0. todo[p][i] \in Updates /\ todo'[p][i] = todo[p][i]
            BY <2>4, <2>5, <4>2
        <5>1. PICK j \in Keys : todo[p][i].key = j
            BY <5>0 DEF Updates
        <5>2. Owns(p, j) /\ todo[p][i].val = mine[p][j] /\ todo[p][i].val # Nil
            BY <1>1, <1>6, <3>2, <4>2, <5>0, <5>1 DEF WritesLocked
        <5>3. j # k
            BY <1>4, <5>2
        <5> QED BY <1>1, <2>3, <5>0, <5>1, <5>2, <5>3 DEF Owns
      <4> QED BY <2>5, <4>1, <4>2
    <3> QED BY <2>3, <3>1, <3>2 DEF WritesLocked, Owns
  <2>9. SeenFresh(p)' /\ UseSound(p)' /\ KnownLocked(p)'
    BY <1>1, <1>6, <2>3 DEF SeenFresh, UseSound, KnownLocked
  <2>10. \A j \in Keys : Publishing(p, j) => Publishing(p, j)'
    BY <1>1 DEF Publishing
  <2> QED BY <1>1, <2>6, <2>7, <2>8, <2>9, <2>10, OneMoves DEF Coherent
<1>8. CASE /\ pc' = [pc EXCEPT ![p] = "error"]
           /\ mine' = mine /\ todo' = todo /\ known' = known /\ prog' = prog
  <2>1. pc'[p] = "error" /\ OthersStay(p)
    BY <1>1, <1>8 DEF Inv, TypeOK, OthersStay
  <2> QED BY <1>1, <1>6, <1>8, <2>1, ErrorCoherent DEF KnownLocked
<1> QED BY <1>5, <1>7, <1>8

(* Nothing is evicted while there is memory for every entry.               *)
LEMMA NoEviction ==
    ASSUME Undisturbed, NEW s \in Slots PROVE ~ Eliminate(s)
<1>1. Cardinality(Entries) <= Cardinality(Slots)
    BY FS_Subset, FS_CardinalityType DEF Entries, Undisturbed
<1>2. Cardinality(Entries) \in Nat /\ Cardinality(Slots) \in Nat /\ Threshold \in Nat
    BY FS_Subset, FS_CardinalityType, ConstantsOK DEF Entries, Undisturbed
<1>3. Cardinality(Slots) <= Threshold
    BY DEF Undisturbed
<1>4. ~ (Cardinality(Entries) > Threshold)
    BY <1>1, <1>2, <1>3
<1> QED BY <1>4 DEF Eliminate, Evictable

(* Abort, and the release after the last update: no update is pending.     *)
LEMMA ForgetCoherent ==
    ASSUME Inv, CoherenceInv, NEW p \in Procs, Abort(p) \/ Release(p)
    PROVE  CoherenceInv'
<1>1. /\ slot' = slot /\ db' = db /\ limbo' = limbo /\ Forget(p)
      /\ pc[p] \in {"error", "done"} \/ todo[p] = <<>>
    BY DEF Abort, Release
<1>2. OthersStay(p)
    BY <1>1 DEF Forget, Goto, Inv, TypeOK, OthersStay
<1>3. /\ pc'[p] = "idle" /\ held'[p] = {} /\ todo'[p] = <<>> /\ prog'[p] = <<>>
      /\ known'[p] = NoWrites /\ mine'[p] = NoWrites
    BY <1>1 DEF Forget, Goto, Inv, TypeOK
<1>4. \A k \in Keys : known'[p][k] = Nil /\ mine'[p][k] = Nil
    BY <1>3 DEF NoWrites
<1>5. Coherent(p)'
    BY <1>3, <1>4 DEF Coherent, CallsDisciplined, WritesLocked, SeenFresh, UseSound,
       KnownLocked
<1>6. \A k \in Keys : Publishing(p, k) => Publishing(p, k)'
    BY <1>1 DEF Publishing
<1> QED BY <1>1, <1>2, <1>5, <1>6, OneMoves

(* PREPARE keeps the locks and the list of cache updates. *)
LEMMA PrepareCoherent ==
    ASSUME Inv, CoherenceInv, NEW p \in Procs, Prepare(p)
    PROVE  CoherenceInv'
<1>1. /\ pc[p] = "done" /\ slot' = slot /\ db' = db /\ limbo' = limbo /\ prog' = prog
      /\ id' = id /\ held' = held /\ mine' = mine /\ todo' = todo
    BY DEF Prepare
<1>2. OthersStay(p) /\ pc'[p] = "prepared" /\ known'[p] = NoWrites
    BY DEF Prepare, Goto, Inv, TypeOK, OthersStay
<1>3. CallsDisciplined(p) /\ WritesLocked(p)
    BY DEF CoherenceInv, Coherent
<1>4. CallsDisciplined(p)'
    BY <1>1, <1>3 DEF CallsDisciplined, Owns
<1>5. WritesLocked(p)'
    BY <1>1, <1>2, <1>3 DEF WritesLocked, Owns
<1>6. SeenFresh(p)' /\ UseSound(p)' /\ KnownLocked(p)'
    BY <1>2 DEF SeenFresh, UseSound, KnownLocked, NoWrites
<1>7. \A k \in Keys : Publishing(p, k) => Publishing(p, k)'
    BY <1>1 DEF Publishing
<1> QED BY <1>1, <1>2, <1>4, <1>5, <1>6, <1>7, OneMoves DEF Coherent

(* Two backends do not both hold a directory, one of them for writing.     *)
LEMMA OwnerAlone ==
    ASSUME Inv, NEW p \in Procs, NEW q \in Procs, p # q, NEW k \in Keys, Owns(p, k)
    PROVE  \A h \in held[q] : h.key # k
BY DEF Inv, KeyExclusion, Owns

(* The directory a backend holds has its entry.                            *)
LEMMA OwnerEntry ==
    ASSUME Inv, NEW p \in Procs, NEW k \in Keys, Owns(p, k)
    PROVE  \E s \in Slots : slot[s].key = k
BY DEF Inv, TypeOK, KeyExclusion, Owns

(* The rows become visible: whoever has read the old ones finds an entry   *)
(* that is going to be published, and nobody else has the directories.     *)
LEMMA CommitCoherent ==
    ASSUME Inv, CoherenceInv, NEW p \in Procs, Commit(p) \/ CommitPrepared(p)
    PROVE  CoherenceInv'
<1>1. /\ pc[p] \in {"done", "prepared"} /\ slot' = slot /\ limbo' = limbo /\ prog' = prog
      /\ at' = at /\ id' = id /\ held' = held /\ seen' = seen /\ todo' = todo
      /\ db' = Applied(mine[p])
      /\ mine' = [mine EXCEPT ![p] = NoWrites]
    BY DEF Commit, CommitPrepared
<1>2. /\ pc' = [pc EXCEPT ![p] = "publish"]
      /\ \/ known' = [known EXCEPT ![p] = NoWrites]
         \/ known' = known /\ pc[p] = "prepared"
    BY DEF Commit, CommitPrepared, Goto
<1>3. \A q \in Procs : /\ pc'[q] = IF q = p THEN "publish" ELSE pc[q]
                       /\ mine'[q] = IF q = p THEN NoWrites ELSE mine[q]
                       /\ q # p => known'[q] = known[q]
    BY <1>1, <1>2 DEF Inv, TypeOK
<1>4. \A k \in Keys : known'[p][k] = Nil
  <2>1. CASE known' = [known EXCEPT ![p] = NoWrites]
    BY <2>1 DEF Inv, TypeOK, NoWrites
  <2>2. CASE known' = known /\ pc[p] = "prepared"
    BY <2>2 DEF CoherenceInv, Coherent, KnownLocked
  <2> QED BY <1>2, <2>1, <2>2
<1>5. \A k \in Keys : db'[k] = IF mine[p][k] # Nil THEN mine[p][k] ELSE db[k]
    BY <1>1 DEF Applied
<1>6. WritesLocked(p)
    BY DEF CoherenceInv, Coherent
<1>7. db' \in [Keys -> 0 .. MaxId]
    BY <1>1, <1>6 DEF Applied, WritesLocked, CoherenceInv
<1>8. \A q \in Procs, k \in Keys : Publishing(q, k) => Publishing(q, k)'
    BY <1>1, <1>3 DEF Publishing
<1>9. \A k \in Keys : mine[p][k] # Nil => Publishing(p, k)' /\ Owns(p, k)
    BY <1>1, <1>3, <1>6 DEF Publishing, WritesLocked
<1>10. EntriesTrue'
  <2> SUFFICES ASSUME NEW s \in Slots, slot[s].key # NoKey
               PROVE  \/ slot[s].val \in {Unknown, db'[slot[s].key]}
                      \/ \E q \in Procs : Publishing(q, slot[s].key)'
    BY <1>1 DEF EntriesTrue, Entries
  <2>1. PICK k \in Keys : slot[s].key = k /\ slot'[s].key = k
    BY <1>1 DEF Inv, TypeOK
  <2>2. slot[s].val \in {Unknown, db[k]} \/ \E q \in Procs : Publishing(q, k)
    BY <2>1 DEF CoherenceInv, EntriesTrue, Entries
  <2> QED BY <1>5, <1>8, <1>9, <2>1, <2>2
<1>11. ASSUME NEW q \in Procs \ {p} PROVE Coherent(q)'
  <2>1. /\ CallsDisciplined(q) /\ WritesLocked(q) /\ SeenFresh(q) /\ UseSound(q)
        /\ KnownLocked(q) /\ pc'[q] = pc[q] /\ mine'[q] = mine[q] /\ known'[q] = known[q]
    BY <1>3, <1>11 DEF CoherenceInv, Coherent
  <2>2. \A k \in Keys : (\E h \in held[q] : h.key = k) => db'[k] = db[k]
    BY <1>5, <1>9, <1>11, OwnerAlone
  <2>3. CallsDisciplined(q)'
    BY <1>1, <2>1 DEF CallsDisciplined, Owns
  <2>4. WritesLocked(q)'
    <3>1. todo[q] \in Seq(Updates)
        BY DEF Inv, TypeOK
    <3>2. \A i \in 1 .. Len(todo[q]) : todo[q][i] \in Updates
        BY <3>1
    <3>3. \A i \in 1 .. Len(todo[q]) : todo[q][i].key \in Keys
        BY <3>2 DEF Updates
    <3>4. \A i \in 1 .. Len(todo[q]) : todo[q][i].act = "U" =>
             db'[todo[q][i].key] = db[todo[q][i].key]
        BY <2>1, <2>2, <3>3 DEF WritesLocked, Owns
    <3> QED BY <1>1, <2>1, <3>4 DEF WritesLocked, Owns
  <2>5. UseSound(q)'
    BY <1>1, <2>1 DEF UseSound, Owns, Call
  <2>6. KnownLocked(q)'
    BY <1>1, <2>1, <2>2 DEF KnownLocked
  <2>7. SeenFresh(q)'
    <3> SUFFICES ASSUME pc[q] = "enter", Call(q).op # "delete"
                 PROVE  SeenFresh(q)'
        BY <1>1, <2>1 DEF SeenFresh, Call
    <3>1. PICK k \in Keys : Call(q).key = k /\ Call(q)' = Call(q)
        BY <1>1, CallOK DEF Calls, Call
    <3>2. /\ seen[q] \in 0 .. MaxId
          /\ \/ seen[q] = db[k]
             \/ \E s \in Find(k) : slot[s].val # Unknown \/ \E r \in Procs : Publishing(r, k)
        BY <2>1, <3>1 DEF SeenFresh
    <3>3. Find(k)' = Find(k)
        BY <1>1 DEF Find
    <3>4. CASE db'[k] = db[k]
        BY <1>1, <1>8, <3>1, <3>2, <3>3, <3>4 DEF SeenFresh
    <3>5. CASE db'[k] # db[k]
      <4>1. Publishing(p, k)' /\ Find(k) # {}
        BY <1>5, <1>9, <3>5, OwnerEntry DEF Find
      <4> QED BY <1>1, <3>1, <3>2, <3>3, <4>1 DEF SeenFresh
    <3> QED BY <3>4, <3>5
  <2> QED BY <2>3, <2>4, <2>5, <2>6, <2>7 DEF Coherent
<1>12. Coherent(p)'
  <2>1. \A k \in Keys : mine'[p][k] = Nil
    BY <1>3 DEF NoWrites
  <2>2. todo[p] \in Seq(Updates) /\ prog[p] \in Seq(Calls)
    BY DEF Inv, TypeOK
  <2>3. CallsDisciplined(p)'
    <3>1. \A i \in 1 .. Len(prog[p]) : prog[p][i] \in Calls
        BY <2>2
    <3>2. \A i \in 1 .. Len(prog[p]) : prog[p][i].key \in Keys
        BY <3>1 DEF Calls
    <3>3. CallsDisciplined(p)
        BY DEF CoherenceInv, Coherent
    <3> QED BY <1>1, <2>1, <3>2, <3>3 DEF CallsDisciplined, Owns
  <2>4. WritesLocked(p)'
    <3>1. \A i \in 1 .. Len(todo[p]) : todo[p][i] \in Updates
        BY <2>2
    <3>2. \A i \in 1 .. Len(todo[p]) : todo[p][i].key \in Keys
        BY <3>1 DEF Updates
    <3>3. \A i \in 1 .. Len(todo[p]) : todo[p][i].act = "U" =>
             /\ Owns(p, todo[p][i].key) /\ todo[p][i].val # Nil
             /\ todo[p][i].val = db'[todo[p][i].key]
        BY <1>1, <1>5, <1>6, <3>2 DEF WritesLocked
    <3> QED BY <1>1, <1>3, <2>1, <3>3 DEF WritesLocked, Owns
  <2>5. SeenFresh(p)' /\ UseSound(p)' /\ KnownLocked(p)'
    BY <1>3, <1>4 DEF SeenFresh, UseSound, KnownLocked
  <2> QED BY <2>3, <2>4, <2>5 DEF Coherent
<1> QED BY <1>1, <1>7, <1>10, <1>11, <1>12 DEF CoherenceInv

(* The entry of directory k is made or written, in a step of p.            *)
LEMMA EntryMoves ==
    ASSUME Inv, Inv', CoherenceInv, NEW p \in Procs, OthersStay(p), db' = db,
           NEW k \in Keys, NEW s \in Slots,
           slot'[s].key = k,
           \/ slot[s].key = k
           \/ slot[s].key = NoKey /\ Find(k) = {},
           \A t \in Slots \ {s} : slot'[t] = slot[t],
           slot[s].key = k /\ slot[s].val # Unknown => slot'[s].val # Unknown,
           \/ slot'[s].val \in {Unknown, db[k]}
           \/ \E q \in Procs : Publishing(q, k)',
           \A q \in Procs, j \in Keys :
              Publishing(q, j) => Publishing(q, j)' \/ (j = k /\ slot'[s].val = db[k]),
           Coherent(p)'
    PROVE  CoherenceInv'
<1>1. db[k] # Unknown
    BY ValuesOK DEF CoherenceInv, Unknown
<1>2. \A t \in Slots, j \in Keys : slot[t].key = j => slot'[t].key = j
    BY ValuesOK
<1>3. EntriesTrue'
  <2> SUFFICES ASSUME NEW t \in Slots, slot'[t].key # NoKey
               PROVE  \/ slot'[t].val \in {Unknown, db[slot'[t].key]}
                      \/ \E q \in Procs : Publishing(q, slot[t].key)'
    BY DEF EntriesTrue, Entries
  <2>1. CASE t = s
    BY <2>1
  <2>2. CASE t # s
    <3>1. PICK j \in Keys : slot[t].key = j /\ slot'[t] = slot[t]
        BY <2>2 DEF Inv, TypeOK
    <3>2. j # k
        BY <2>2, <3>1, ValuesOK DEF Inv, OneEntry
    <3>3. slot[t].val \in {Unknown, db[j]} \/ \E q \in Procs : Publishing(q, j)
        BY <3>1, ValuesOK DEF CoherenceInv, EntriesTrue, Entries
    <3> QED BY <3>1, <3>2, <3>3
  <2> QED BY <2>1, <2>2
<1>4. ASSUME NEW q \in Procs \ {p} PROVE Coherent(q)'
  <2>1. /\ pc'[q] = pc[q] /\ prog'[q] = prog[q] /\ at'[q] = at[q]
        /\ id'[q] = id[q] /\ seen'[q] = seen[q] /\ held'[q] = held[q]
        /\ mine'[q] = mine[q] /\ todo'[q] = todo[q] /\ known'[q] = known[q]
        /\ CallsDisciplined(q) /\ WritesLocked(q) /\ UseSound(q)
        /\ KnownLocked(q) /\ SeenFresh(q)
    BY <1>4 DEF CoherenceInv, Coherent, OthersStay
  <2>2. CallsDisciplined(q)'
    BY <2>1 DEF CallsDisciplined, Owns
  <2>3. WritesLocked(q)'
    BY <2>1 DEF WritesLocked, Owns
  <2>4. KnownLocked(q)'
    BY <2>1 DEF KnownLocked
  <2>5. UseSound(q)'
    <3>1. Call(q)' = Call(q)
        BY <2>1 DEF Call
    <3>2. ASSUME pc[q] \in {"acquire", "use"}, at[q] # NoSlot
          PROVE  /\ slot'[at[q]].key = Call(q).key
                 /\ Call(q).op = "search" => slot'[at[q]].val # Unknown
      <4>1. Call(q).key \in Keys /\ at[q] \in Slots
        BY <3>2, CallOK DEF Calls, Inv, TypeOK
      <4>2. /\ slot[at[q]].key = Call(q).key
            /\ Call(q).op = "search" => slot[at[q]].val # Unknown
        BY <2>1, <3>2 DEF UseSound
      <4>3. at[q] = s => slot[s].key = k
        BY <4>1, <4>2, ValuesOK
      <4> QED BY <4>1, <4>2, <4>3
    <3>3. /\ pc[q] = "use" /\ Call(q).mode # "none" =>
               [slot |-> at[q], key |-> Call(q).key, mode |-> Call(q).mode] \in held[q]
          /\ pc[q] = "use" /\ at[q] = NoSlot => ~ Owns(q, Call(q).key)
        BY <2>1 DEF UseSound
    <3> QED BY <2>1, <3>1, <3>2, <3>3 DEF UseSound, Owns
  <2>6. SeenFresh(q)'
    <3> SUFFICES ASSUME pc[q] = "enter", Call(q).op # "delete"
                 PROVE  SeenFresh(q)'
        BY <2>1 DEF SeenFresh, Call
    <3>1. PICK j \in Keys : Call(q).key = j /\ Call(q)' = Call(q)
        BY <2>1, CallOK DEF Calls, Call
    <3>2. /\ seen[q] \in 0 .. MaxId
          /\ \/ seen[q] = db[j]
             \/ \E t \in Find(j) : slot[t].val # Unknown \/ \E r \in Procs : Publishing(r, j)
        BY <2>1, <3>1 DEF SeenFresh
    <3>3. CASE seen[q] = db[j]
        BY <2>1, <3>1, <3>2, <3>3 DEF SeenFresh
    <3>4. ASSUME NEW t \in Slots, slot[t].key = j,
                 slot[t].val # Unknown \/ \E r \in Procs : Publishing(r, j)
          PROVE  \E u \in Slots : /\ slot'[u].key = j
                                  /\ slot'[u].val # Unknown \/ \E r \in Procs : Publishing(r, j)'
      <4>1. slot'[t].key = j
        BY <1>2, <3>4
      <4>2. CASE slot[t].val # Unknown
        <5>1. t = s => slot[s].key = k
            BY <3>4, ValuesOK
        <5>2. slot'[t].val # Unknown
            BY <4>2, <5>1
        <5> QED BY <4>1, <5>2
      <4>3. CASE \E r \in Procs : Publishing(r, j)
        BY <1>1, <4>1, <4>3
      <4> QED BY <3>4, <4>2, <4>3
    <3>5. CASE \E t \in Find(j) : slot[t].val # Unknown \/ \E r \in Procs : Publishing(r, j)
      <4>1. PICK u \in Slots : /\ slot'[u].key = j
                               /\ slot'[u].val # Unknown \/ \E r \in Procs : Publishing(r, j)'
        BY <3>4, <3>5 DEF Find
      <4>2. u \in Find(j)'
        BY <4>1 DEF Find
      <4> QED BY <2>1, <3>1, <3>2, <4>1, <4>2 DEF SeenFresh
    <3> QED BY <3>2, <3>3, <3>5
  <2> QED BY <2>2, <2>3, <2>4, <2>5, <2>6 DEF Coherent
<1> QED BY <1>3, <1>4 DEF CoherenceInv, OthersStay

(* The value a call has read goes into an entry whose id is not known, or  *)
(* is the one that is there.                                               *)
LEMMA EnterFoundCoherent ==
    ASSUME Inv, Inv', CoherenceInv, NEW p \in Procs, EnterFound(p)
    PROVE  CoherenceInv'
<1>1. /\ pc[p] = "enter" /\ prog' = prog /\ held' = held /\ db' = db
      /\ id' = id /\ mine' = mine /\ todo' = todo /\ known' = known /\ seen' = seen
    BY DEF EnterFound
<1>2. OthersStay(p)
    BY DEF EnterFound, Pin, Goto, Inv, TypeOK, OthersStay
<1>3. Call(p)' = Call(p) /\ Call(p) \in Calls
    BY <1>1, CallOK DEF Call
<1>4. PICK k \in Keys : Call(p).key = k
    BY <1>3 DEF Calls
<1>5. PICK s \in Find(k) :
         \/ Call(p).op = "delete" /\ Pin(p, s) /\ slot' = slot
         \/ /\ Call(p).op # "delete" /\ slot[s].val \in {Unknown, seen[p]} /\ Pin(p, s)
            /\ slot' = [slot EXCEPT ![s].val = seen[p]]
         \/ pc' = [pc EXCEPT ![p] = "error"] /\ slot' = slot
    BY <1>4 DEF EnterFound, Goto
<1>6. s \in Slots /\ slot[s].key = k /\ s # NoSlot
    BY ValuesOK DEF Find
<1>7. Pin(p, s) => /\ at'[p] = s
                   /\ pc'[p] = IF Call(p).mode = "none" THEN "use" ELSE "acquire"
    BY DEF Pin, Goto, Inv, TypeOK
<1>8. CASE Call(p).op = "delete" /\ Pin(p, s) /\ slot' = slot
  <2>1. UseSound(p)' /\ SeenFresh(p)'
    BY <1>1, <1>3, <1>4, <1>6, <1>7, <1>8 DEF UseSound, SeenFresh
  <2> QED BY <1>1, <1>2, <1>7, <1>8, <2>1, CallMoves
<1>9. CASE pc' = [pc EXCEPT ![p] = "error"] /\ slot' = slot
  <2>1. pc'[p] = "error" /\ KnownLocked(p)
    BY <1>9 DEF Inv, TypeOK, CoherenceInv, Coherent
  <2> QED BY <1>1, <1>2, <1>9, <2>1, ErrorCoherent DEF KnownLocked
<1>10. CASE /\ Call(p).op # "delete" /\ slot[s].val \in {Unknown, seen[p]} /\ Pin(p, s)
            /\ slot' = [slot EXCEPT ![s].val = seen[p]]
  <2>1. /\ slot'[s].key = k /\ slot'[s].val = seen[p]
        /\ \A t \in Slots \ {s} : slot'[t] = slot[t]
    BY <1>6, <1>10 DEF Inv, TypeOK
  <2>2. CallsDisciplined(p) /\ WritesLocked(p) /\ KnownLocked(p) /\ SeenFresh(p)
    BY DEF CoherenceInv, Coherent
  <2>3. seen[p] \in 0 .. MaxId /\ seen[p] # Unknown
    BY <1>1, <1>10, <2>2, ValuesOK DEF SeenFresh, Unknown
  <2>4. \A q \in Procs, j \in Keys : Publishing(q, j) => Publishing(q, j)'
    BY <1>1, <1>2 DEF Publishing, OthersStay
  <2>5. seen[p] = db[k] \/ \E q \in Procs : Publishing(q, k)
    <3>1. CASE slot[s].val = Unknown
      <4>1. \A t \in Find(k) : t = s
        BY <1>6, ValuesOK DEF Find, Inv, OneEntry
      <4> QED BY <1>1, <1>4, <1>10, <2>2, <3>1, <4>1 DEF SeenFresh
    <3>2. CASE slot[s].val = seen[p] /\ slot[s].val # Unknown
        BY <1>6, <3>2, ValuesOK DEF CoherenceInv, EntriesTrue, Entries
    <3> QED BY <1>10, <3>1, <3>2
  <2>6. Coherent(p)'
    <3>1. CallsDisciplined(p)'
        BY <1>1, <2>2 DEF CallsDisciplined, Owns
    <3>2. WritesLocked(p)'
        BY <1>1, <1>7, <1>10, <2>2 DEF WritesLocked, Owns
    <3>3. KnownLocked(p)'
        BY <1>1, <1>7, <1>10, <2>2 DEF KnownLocked
    <3>4. SeenFresh(p)' /\ UseSound(p)'
        BY <1>3, <1>4, <1>6, <1>7, <1>10, <2>1, <2>3 DEF SeenFresh, UseSound
    <3> QED BY <3>1, <3>2, <3>3, <3>4 DEF Coherent
  <2> QED BY <1>1, <1>2, <1>6, <2>1, <2>3, <2>4, <2>5, <2>6, EntryMoves
<1> QED BY <1>5, <1>8, <1>9, <1>10

(* A new entry: without one, nobody can have changed the directory since   *)
(* the call read it.                                                       *)
LEMMA EnterNewCoherent ==
    ASSUME Inv, Inv', CoherenceInv, NEW p \in Procs, EnterNew(p)
    PROVE  CoherenceInv'
<1>1. /\ pc[p] = "enter" /\ prog' = prog /\ held' = held /\ db' = db
      /\ id' = id /\ mine' = mine /\ known' = known /\ seen' = seen
    BY DEF EnterNew
<1>2. OthersStay(p)
    BY DEF EnterNew, Pin, Goto, Inv, TypeOK, OthersStay
<1>3. Call(p)' = Call(p) /\ Call(p) \in Calls
    BY <1>1, CallOK DEF Call
<1>4. PICK k \in Keys : Call(p).key = k
    BY <1>3 DEF Calls
<1> DEFINE v == IF Call(p).op = "delete" THEN Unknown ELSE seen[p]
           e == [act |-> "A", key |-> k, val |-> Nil]
<1>5. PICK s \in Slots : /\ slot[s].key = NoKey
                         /\ slot' = [slot EXCEPT ![s] = [key |-> k, val |-> v]]
                         /\ Pin(p, s)
    BY <1>4 DEF EnterNew, Entries
<1>6. /\ slot'[s].key = k /\ slot'[s].val = v /\ s # NoSlot
      /\ \A t \in Slots \ {s} : slot'[t] = slot[t]
    BY <1>5, ValuesOK DEF Inv, TypeOK
<1>7. /\ at'[p] = s
      /\ pc'[p] = IF Call(p).mode = "none" THEN "use" ELSE "acquire"
    BY <1>5 DEF Pin, Goto, Inv, TypeOK
<1>8. Find(k) = {}
    BY <1>4 DEF EnterNew
<1>9. CallsDisciplined(p) /\ WritesLocked(p) /\ KnownLocked(p) /\ SeenFresh(p)
    BY DEF CoherenceInv, Coherent
<1>10. /\ v \in {Unknown, db[k]}
       /\ Call(p).op # "delete" => v # Unknown
    BY <1>1, <1>4, <1>8, <1>9, ValuesOK DEF SeenFresh, Unknown
<1>11. todo[p] \in Seq(Updates) /\ todo'[p] = Append(todo[p], e) /\ e.act = "A"
    BY <1>4 DEF EnterNew, Inv, TypeOK
<1> HIDE DEF v, e
<1>12. /\ Len(todo'[p]) = Len(todo[p]) + 1 /\ Len(todo[p]) \in Nat
       /\ \A i \in 1 .. Len(todo[p]) : todo'[p][i] = todo[p][i]
       /\ todo'[p][Len(todo[p]) + 1] = e
    BY <1>11
<1>13. \A q \in Procs, j \in Keys : Publishing(q, j) => Publishing(q, j)'
    BY <1>1, <1>2 DEF Publishing, OthersStay
<1>14. Coherent(p)'
  <2>1. CallsDisciplined(p)'
    BY <1>1, <1>9 DEF CallsDisciplined, Owns
  <2>2. WritesLocked(p)'
    <3>1. \A i \in 1 .. Len(todo[p]) : i \in 1 .. Len(todo'[p])
        BY <1>12
    <3>2. \A i \in 1 .. Len(todo'[p]) : todo'[p][i].act = "U" => i \in 1 .. Len(todo[p])
        BY <1>11, <1>12
    <3>3. ASSUME NEW j \in Keys, mine[p][j] # Nil
          PROVE  \E i \in 1 .. Len(todo'[p]) : todo'[p][i].act = "U" /\ todo'[p][i].key = j
        BY <1>9, <1>12, <3>1, <3>3 DEF WritesLocked
    <3>4. ASSUME NEW i \in 1 .. Len(todo'[p]), todo'[p][i].act = "U"
          PROVE  /\ Owns(p, todo[p][i].key) /\ todo'[p][i] = todo[p][i]
                 /\ todo[p][i].val = mine[p][todo[p][i].key]
                 /\ todo[p][i].val # Nil
        BY <1>1, <1>9, <1>12, <3>2, <3>4 DEF WritesLocked
    <3>5. pc'[p] \notin {"idle", "publish"}
        BY <1>7
    <3> QED BY <1>1, <1>9, <3>3, <3>4, <3>5 DEF WritesLocked, Owns
  <2>3. KnownLocked(p)'
    BY <1>1, <1>7, <1>9 DEF KnownLocked
  <2>4. SeenFresh(p)' /\ UseSound(p)'
    BY <1>3, <1>4, <1>6, <1>7, <1>10 DEF SeenFresh, UseSound
  <2> QED BY <2>1, <2>2, <2>3, <2>4 DEF Coherent
<1>15. slot[s].key = NoKey /\ NoKey # k
    BY <1>5, ValuesOK
<1> QED BY <1>1, <1>2, <1>6, <1>8, <1>10, <1>13, <1>14, <1>15, EntryMoves

(* What is left of a list when its first element is gone.                  *)
LEMMA TailFacts ==
    ASSUME NEW T, NEW s \in Seq(T), s # <<>>
    PROVE  /\ Len(s) \in Nat /\ 1 \in 1 .. Len(s) /\ Head(s) = s[1]
           /\ Len(Tail(s)) = Len(s) - 1
           /\ \A i \in 1 .. Len(Tail(s)) : Tail(s)[i] = s[i + 1]
OBVIOUS

(* An update is published: what it writes is in the table.                 *)
LEMMA PublishCoherent ==
    ASSUME Undisturbed, Inv, Inv', CoherenceInv, NEW p \in Procs, Publish(p)
    PROVE  CoherenceInv'
<1> DEFINE e == Head(todo[p])
<1>1. /\ pc[p] = "publish" /\ todo[p] # <<>> /\ todo' = [todo EXCEPT ![p] = Tail(todo[p])]
      /\ db' = db /\ nextId' = nextId /\ pc' = pc /\ prog' = prog /\ at' = at
      /\ id' = id /\ seen' = seen /\ held' = held /\ mine' = mine /\ known' = known
      /\ limbo' = limbo
    BY DEF Publish
<1>2. OthersStay(p) /\ todo'[p] = Tail(todo[p]) /\ todo[p] \in Seq(Updates)
    BY <1>1 DEF Inv, TypeOK, OthersStay
<1>3. /\ Len(todo[p]) \in Nat /\ 1 \in 1 .. Len(todo[p]) /\ e = todo[p][1]
      /\ Len(todo'[p]) = Len(todo[p]) - 1
      /\ \A i \in 1 .. Len(todo'[p]) : todo'[p][i] = todo[p][i + 1]
  <2>1. todo[p] # <<>>
    BY <1>1
  <2> QED BY <1>2, <2>1, TailFacts
<1>4. \A i \in 1 .. Len(todo[p]) : todo[p][i] \in Updates
    BY <1>2
<1>5. PICK k \in Keys : e.key = k
    BY <1>3, <1>4 DEF Updates
<1> HIDE DEF e
<1>6. CallsDisciplined(p) /\ WritesLocked(p) /\ KnownLocked(p)
    BY DEF CoherenceInv, Coherent
<1>7. Coherent(p)'
  <2>1. CallsDisciplined(p)'
    BY <1>1, <1>6 DEF CallsDisciplined, Owns
  <2>2. WritesLocked(p)'
    <3>1. \A j \in Keys : mine[p][j] = Nil
        BY <1>1, <1>6 DEF WritesLocked
    <3>2. ASSUME NEW i \in 1 .. Len(todo'[p]), todo'[p][i].act = "U"
          PROVE  /\ \E h \in held[p] : h.key = todo'[p][i].key /\ h.mode = "exclusive"
                 /\ todo'[p][i].val = db[todo'[p][i].key]
                 /\ todo'[p][i].val # Nil
      <4>1. i + 1 \in 1 .. Len(todo[p]) /\ todo'[p][i] = todo[p][i + 1]
        BY <1>3
      <4> QED BY <1>1, <1>6, <3>2, <4>1 DEF WritesLocked, Owns
    <3> QED BY <1>1, <3>1, <3>2 DEF WritesLocked, Owns
  <2>3. SeenFresh(p)' /\ UseSound(p)' /\ KnownLocked(p)'
    BY <1>1, <1>6 DEF SeenFresh, UseSound, KnownLocked
  <2> QED BY <2>1, <2>2, <2>3 DEF Coherent
<1>8. ASSUME NEW j \in Keys, Publishing(p, j)
      PROVE  Publishing(p, j)' \/ (e.act = "U" /\ j = k)
  <2>1. PICK i \in 1 .. Len(todo[p]) : todo[p][i].act = "U" /\ todo[p][i].key = j
    BY <1>8 DEF Publishing
  <2>2. CASE i = 1
    BY <1>3, <1>5, <2>1, <2>2
  <2>3. CASE i # 1
    <3>1. i - 1 \in 1 .. Len(todo'[p]) /\ todo'[p][i - 1] = todo[p][i]
        BY <1>3, <2>3
    <3> QED BY <1>1, <2>1, <3>1 DEF Publishing
  <2> QED BY <2>2, <2>3
<1>9. \A q \in Procs \ {p}, j \in Keys : Publishing(q, j) => Publishing(q, j)'
    BY <1>1, <1>2 DEF Publishing, OthersStay
<1>10. CASE e.act = "A"
  <2>1. slot' = slot
    BY <1>10, NoEviction DEF Publish, e
  <2> QED BY <1>1, <1>2, <1>7, <1>8, <1>10, <2>1, OneMoves
<1>11. CASE e.act = "U"
  <2>1. Owns(p, k) /\ e.val = db[k]
    BY <1>1, <1>3, <1>5, <1>6, <1>11 DEF WritesLocked
  <2>2. Find(k) # {}
    BY <2>1, OwnerEntry DEF Find
  <2>3. PICK s \in Slots : /\ slot[s].key = k
                           /\ slot' = [slot EXCEPT ![s] = [key |-> k, val |-> db[k]]]
    BY <1>5, <1>11, <2>1, <2>2 DEF Publish, e, Find
  <2>4. /\ slot'[s].key = k /\ slot'[s].val = db[k]
        /\ \A t \in Slots \ {s} : slot'[t] = slot[t]
    BY <2>3 DEF Inv, TypeOK
  <2>5. db[k] # Unknown
    BY ValuesOK DEF CoherenceInv, Unknown
  <2>6. \A q \in Procs, j \in Keys :
           Publishing(q, j) => Publishing(q, j)' \/ (j = k /\ slot'[s].val = db[k])
    BY <1>8, <1>9, <2>4
  <2> QED BY <1>1, <1>2, <1>7, <2>3, <2>4, <2>5, <2>6, EntryMoves
<1> QED BY <1>3, <1>4, <1>10, <1>11 DEF Updates

(* As long as nothing is evicted and no prepared transaction is rolled     *)
(* back or loses its session, CoherenceInv is an invariant.                *)
THEOREM CoherenceInvariance == ASSUME Undisturbed PROVE Spec => []CoherenceInv
<1>1. Init => CoherenceInv
  <2> SUFFICES ASSUME Init PROVE CoherenceInv
    OBVIOUS
  <2>1. limbo = {} /\ db \in [Keys -> 0 .. MaxId]
    BY ValuesOK DEF Init, NotExist
  <2>2. EntriesTrue
    BY DEF Init, EntriesTrue, Entries, Free
  <2>3. ASSUME NEW p \in Procs PROVE Coherent(p)
    <3>1. /\ pc[p] = "idle" /\ prog[p] = <<>> /\ todo[p] = <<>>
          /\ \A k \in Keys : mine[p][k] = Nil /\ known[p][k] = Nil
        BY DEF Init, NoWrites
    <3> QED BY <3>1 DEF Coherent, CallsDisciplined, WritesLocked, SeenFresh,
                        UseSound, KnownLocked
  <2> QED BY <2>1, <2>2, <2>3 DEF CoherenceInv
<1>2. Inv /\ Inv' /\ CoherenceInv /\ [Next]_vars => CoherenceInv'
  <2> SUFFICES ASSUME Inv, Inv', CoherenceInv, [Next]_vars PROVE CoherenceInv'
    OBVIOUS
  <2>1. ASSUME NEW p \in Procs, NEW pr \in Programs, Begin(p, pr) PROVE CoherenceInv'
    BY <2>1, BeginCoherent
  <2>2. ASSUME NEW p \in Procs, Step(p) PROVE CoherenceInv'
    <3>1. ~ MakeSpace(p)
        BY NoEviction DEF MakeSpace
    <3>2. ~ RollbackPrepared(p) /\ ~ SessionLost(p)
        BY DEF RollbackPrepared, SessionLost, Undisturbed
    <3> QED BY <2>2, <3>1, <3>2, ProbeCoherent, ReadCoherent, EnterFoundCoherent,
               EnterNewCoherent, EnterNoSpaceCoherent, SearchReturnsCoherent,
               WriteCoherent, CommitCoherent, ForgetCoherent, PrepareCoherent,
               PublishCoherent DEF Step
  <2>3. ASSUME NEW p \in Procs, Acquire(p) PROVE CoherenceInv'
    BY <2>3, AcquireCoherent
  <2>4. ~ Daemon
    BY DEF Daemon, CoherenceInv
  <2>5. CASE UNCHANGED vars
    <3> USE <2>5 DEF vars
    <3>1. EntriesTrue'
        BY DEF CoherenceInv, EntriesTrue, Entries, Publishing
    <3>2. ASSUME NEW p \in Procs PROVE Coherent(p)'
      <4>1. CallsDisciplined(p)' /\ WritesLocked(p)'
        BY DEF CoherenceInv, Coherent, CallsDisciplined, WritesLocked, Owns
      <4>2. SeenFresh(p)'
        BY DEF CoherenceInv, Coherent, SeenFresh, Find, Call, Publishing
      <4>3. UseSound(p)' /\ KnownLocked(p)'
        BY DEF CoherenceInv, Coherent, UseSound, KnownLocked, Owns, Call
      <4> QED BY <4>1, <4>2, <4>3 DEF Coherent
    <3> QED BY <3>1, <3>2 DEF CoherenceInv
  <2> QED BY <2>1, <2>2, <2>3, <2>4, <2>5 DEF Next
<1> QED BY <1>1, <1>2, KeyExclusionHolds, PTL DEF Spec

(* The entries that nobody has locked for writing agree with the directory *)
(* table, so that Search may answer from them without a look at it.        *)
THEOREM CacheCoherentHolds == ASSUME Undisturbed PROVE Spec => []CacheCoherent
<1>1. Inv /\ CoherenceInv => CacheCoherent
  <2> SUFFICES ASSUME Inv, CoherenceInv, NEW s \in Entries,
                      slot[s].val \notin {Unknown, db[slot[s].key]}
               PROVE  \E p \in Procs : \E h \in held[p] : h.slot = s /\ h.mode = "exclusive"
    BY DEF CacheCoherent
  <2>1. PICK p \in Procs : Publishing(p, slot[s].key)
    BY DEF CoherenceInv, EntriesTrue
  <2>2. Owns(p, slot[s].key)
    BY <2>1 DEF CoherenceInv, Coherent, WritesLocked, Publishing
  <2>3. PICK h \in held[p] : h.key = slot[s].key /\ h.mode = "exclusive"
    BY <2>2 DEF Owns
  <2>4. h.slot = s
    BY <2>3 DEF Inv, KeyExclusion, OneEntry, TypeOK, Entries
  <2> QED BY <2>3, <2>4
<1> QED BY <1>1, KeyExclusionHolds, CoherenceInvariance, PTL

(* What Search returned under a lock is still what the table has, for as   *)
(* long as the backend holds the lock.                                     *)
THEOREM LockedSearchHolds == ASSUME Undisturbed PROVE Spec => []LockedSearchFresh
<1>1. CoherenceInv => LockedSearchFresh
    BY DEF CoherenceInv, Coherent, KnownLocked, LockedSearchFresh
<1> QED BY <1>1, CoherenceInvariance, PTL
=============================================================================
