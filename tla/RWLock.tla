------------------------------- MODULE RWLock -------------------------------
(***************************************************************************)
(* The shared-memory reader/writer lock of falcon/utils/rwlock.c.  A lock  *)
(* is one atomic 64-bit word with four fields, kept here as a record:      *)
(*   shared  bits 0..23   the number of shared holders                     *)
(*   excl    bit 24       an exclusive holder                              *)
(*   ref     bits 25..49  references: declared, waiting or holding         *)
(*   waiter  bit 62       RW_FLAG_HAS_EXCLUSIVE_WAITER                     *)
(* Every action is one atomic operation on the word.  The compare-exchange *)
(* loop of RWLockAttemptLock takes effect at its successful exchange, so   *)
(* it is one action.                                                       *)
(*                                                                         *)
(* A backend's array held_rwlocks is a set of handles <<p, i>>, each with  *)
(* the mode and the lock of the array's element.  The order of the array   *)
(* decides only which of a backend's own handles on one lock RWLockRelease *)
(* picks; MutualExclusion makes all of them shared whenever there are two, *)
(* so the order is abstracted away.                                        *)
(*                                                                         *)
(* The lock lives inside an entry of the directory path hash table.  An    *)
(* entry whose lock is destroyable is removed (alive is FALSE) and its     *)
(* memory is used again for another entry.                                 *)
(***************************************************************************)
EXTENDS Naturals, FiniteSets

CONSTANTS
    Procs,        \* the backends
    Locks,        \* the memory slots that hold an RWLock
    Slots,        \* the places of held_rwlocks, MAX_SIMUL_RWLOCKS of them
    Reacquire     \* a backend may acquire a lock it already holds as shared

ASSUME FiniteConstants ==
    /\ IsFiniteSet(Procs)
    /\ IsFiniteSet(Slots)
    /\ Reacquire \in {"never", "shared"}

VARIABLES
    state,        \* the word of each lock
    alive,        \* is the entry that holds the lock in the hash table?
    mode,         \* what each handle is used for
    lock,         \* the lock each handle is on
    phase         \* where each backend is in its use of the locks

vars == <<state, alive, mode, lock, phase>>

Modes == {"free", "declare", "waitShared", "waitExclusive",
           "shared", "exclusive", "unref"}

\* A process in one of these is inside RWLockAcquire or RWLockRelease.
Busy == {"waitShared", "waitExclusive", "unref"}

Handles == Procs \X Slots

Word == [shared: Nat, excl: {0, 1}, ref: Nat, waiter: {0, 1}]

Zero == [shared |-> 0, excl |-> 0, ref |-> 0, waiter |-> 0]

NoLock == "none"

\* Handle h is in mode st on lock l.
In(h, st, l) == mode[h] = st /\ lock[h] = l

Refs(l) == {h \in Handles : mode[h] # "free" /\ lock[h] = l}

Holders(l, st) == {h \in Handles : In(h, st, l)}

\* Backend p is not in the middle of RWLockAcquire or RWLockRelease.
Settled(p) == \A i \in Slots : mode[<<p, i>>] \notin Busy

Phases == {"idle", "declared", "acquired", "releasing"}

TypeOK ==
    /\ state \in [Locks -> Word]
    /\ alive \in [Locks -> {"in", "out"}]
    /\ mode \in [Handles -> Modes]
    /\ lock \in [Handles -> Locks \cup {NoLock}]
    /\ phase \in [Procs -> Phases]

Init ==
    /\ state = [l \in Locks |-> Zero]
    /\ alive = [l \in Locks |-> "out"]
    /\ mode = [h \in Handles |-> "free"]
    /\ lock = [h \in Handles |-> NoLock]
    /\ phase = [p \in Procs |-> "idle"]

-----------------------------------------------------------------------------
(* Mistakes that could be made in the operations below; the runs show that *)
(* each of them breaks a property.                                         *)

\* A shared request that looks at the flag only.
AttemptSharedIgnoringExclusive(p, i, l) ==
    /\ In(<<p, i>>, "waitShared", l)
    /\ state[l].waiter = 0
    /\ state' = [state EXCEPT ![l].shared = @ + 1]
    /\ mode' = [mode EXCEPT ![<<p, i>>] = "shared"]
    /\ UNCHANGED <<alive, lock, phase>>

\* A shared request that looks at the exclusive bit only.
AttemptSharedIgnoringFlag(p, i, l) ==
    /\ In(<<p, i>>, "waitShared", l)
    /\ state[l].excl = 0
    /\ state' = [state EXCEPT ![l].shared = @ + 1]
    /\ mode' = [mode EXCEPT ![<<p, i>>] = "shared"]
    /\ UNCHANGED <<alive, lock, phase>>

\* An exclusive request that takes the lock and leaves the flag set.
AttemptExclusiveKeepingFlag(p, i, l) ==
    /\ In(<<p, i>>, "waitExclusive", l)
    /\ IF state[l].shared = 0 /\ state[l].excl = 0
         THEN /\ state' = [state EXCEPT ![l].excl = 1]
              /\ mode' = [mode EXCEPT ![<<p, i>>] = "exclusive"]
         ELSE /\ state' = [state EXCEPT ![l].waiter = 1]
              /\ UNCHANGED mode
    /\ UNCHANGED <<alive, lock, phase>>

\* A declaration that takes no reference.
DeclareWithoutReference(p, i, l) ==
    /\ phase[p] = "idle"
    /\ Settled(p)
    /\ alive[l] = "in"
    /\ mode[<<p, i>>] = "free"
    /\ \A j \in Slots : <<p, j>> \in Refs(l) =>
          In(<<p, j>>, "shared", l) /\ Reacquire = "shared"
    /\ mode' = [mode EXCEPT ![<<p, i>>] = "declare"]
    /\ lock' = [lock EXCEPT ![<<p, i>>] = l]
    /\ phase' = [phase EXCEPT ![p] = "declared"]
    /\ UNCHANGED <<state, alive>>

\* A release that gives the reference back before the lock.
ReleaseReferenceFirst(p, i, l) ==
    /\ phase[p] \in {"idle", "releasing"}
    /\ Settled(p)
    /\ In(<<p, i>>, "exclusive", l) \/ In(<<p, i>>, "shared", l)
    /\ state' = [state EXCEPT ![l].ref = @ - 1]
    /\ mode' = [mode EXCEPT ![<<p, i>>] = "unref"]
    /\ UNCHANGED <<alive, lock, phase>>

-----------------------------------------------------------------------------
(* RWLockInitialize, on an entry just entered into the hash table.         *)
RWLockInitialize(l) ==
    /\ alive[l] = "out"
    /\ alive' = [alive EXCEPT ![l] = "in"]
    /\ state' = [state EXCEPT ![l] = Zero]
    /\ UNCHANGED <<mode, lock, phase>>

(* The eviction of an entry whose lock RWLockCheckDestroyable passes.      *)
Destroy(l) ==
    /\ alive[l] = "in"
    /\ state[l].ref = 0
    /\ alive' = [alive EXCEPT ![l] = "out"]
    /\ UNCHANGED <<state, mode, lock, phase>>

(* RWLockDeclare, called with the entry found under the partition's lock.  *)
RWLockDeclare(p, i, l) ==
    /\ phase[p] = "idle"
    /\ Settled(p)
    /\ alive[l] = "in"
    /\ mode[<<p, i>>] = "free"
    /\ \A j \in Slots : <<p, j>> \in Refs(l) =>
          In(<<p, j>>, "shared", l) /\ Reacquire = "shared"
    /\ mode' = [mode EXCEPT ![<<p, i>>] = "declare"]
    /\ lock' = [lock EXCEPT ![<<p, i>>] = l]
    /\ state' = [state EXCEPT ![l].ref = @ + 1]
    /\ phase' = [phase EXCEPT ![p] = "declared"]
    /\ UNCHANGED alive

(* RWLockAcquire up to its wait loop.  The callers do not ask for a lock   *)
(* they have, unless a lookup that failed left it behind as shared.        *)
RWLockAcquire(p, i, l, wait) ==
    /\ phase[p] = "declared"
    /\ mode[<<p, i>>] = "free"
    /\ \E j \in Slots : In(<<p, j>>, "declare", l)
    /\ \A j \in Slots : In(<<p, j>>, "shared", l) => wait = "waitShared"
    /\ mode' = [mode EXCEPT ![<<p, i>>] = wait]
    /\ lock' = [lock EXCEPT ![<<p, i>>] = l]
    /\ state' = [state EXCEPT ![l].ref = @ + 1]
    /\ phase' = [phase EXCEPT ![p] = "acquired"]
    /\ UNCHANGED alive

(* RWLockUndeclare, once the lock is acquired or from RWLockReleaseAll.    *)
RWLockUndeclare(p, i, l) ==
    /\ phase[p] \in {"acquired", "releasing"}
    /\ Settled(p)
    /\ In(<<p, i>>, "declare", l)
    /\ mode' = [mode EXCEPT ![<<p, i>>] = "free"]
    /\ lock' = [lock EXCEPT ![<<p, i>>] = NoLock]
    /\ state' = [state EXCEPT ![l].ref = @ - 1]
    /\ phase' = [phase EXCEPT ![p] = IF @ = "acquired" THEN "idle" ELSE @]
    /\ UNCHANGED alive

(* RWLockAttemptLock for an exclusive request: take a free lock and clear  *)
(* the flag, or set the flag.                                              *)
AttemptExclusive(p, i, l) ==
    /\ In(<<p, i>>, "waitExclusive", l)
    /\ IF state[l].shared = 0 /\ state[l].excl = 0
         THEN /\ state' = [state EXCEPT ![l].excl = 1, ![l].waiter = 0]
              /\ mode' = [mode EXCEPT ![<<p, i>>] = "exclusive"]
         ELSE /\ state' = [state EXCEPT ![l].waiter = 1]
              /\ UNCHANGED mode
    /\ UNCHANGED <<alive, lock, phase>>

(* RWLockAttemptLock for a shared request: join the holders unless there   *)
(* is an exclusive holder or the flag is set; a failed attempt writes the  *)
(* word back as it was.                                                    *)
AttemptShared(p, i, l) ==
    /\ In(<<p, i>>, "waitShared", l)
    /\ IF state[l].excl = 0 /\ state[l].waiter = 0
         THEN /\ state' = [state EXCEPT ![l].shared = @ + 1]
              /\ mode' = [mode EXCEPT ![<<p, i>>] = "shared"]
         ELSE UNCHANGED <<state, mode>>
    /\ UNCHANGED <<alive, lock, phase>>

(* The first atomic step of RWLockRelease: give the lock back.             *)
RWLockRelease(p, i, l) ==
    /\ phase[p] \in {"idle", "releasing"}
    /\ Settled(p)
    /\ \/ /\ In(<<p, i>>, "exclusive", l)
          /\ state' = [state EXCEPT ![l].excl = @ - 1]
       \/ /\ In(<<p, i>>, "shared", l)
          /\ state' = [state EXCEPT ![l].shared = @ - 1]
    /\ mode' = [mode EXCEPT ![<<p, i>>] = "unref"]
    /\ UNCHANGED <<alive, lock, phase>>

(* The second atomic step of RWLockRelease: give the reference back.       *)
DropReference(p, i, l) ==
    /\ In(<<p, i>>, "unref", l)
    /\ mode' = [mode EXCEPT ![<<p, i>>] = "free"]
    /\ lock' = [lock EXCEPT ![<<p, i>>] = NoLock]
    /\ state' = [state EXCEPT ![l].ref = @ - 1]
    /\ UNCHANGED <<alive, phase>>

(* RWLockReleaseAll, at the end of a transaction, when a backend exits, or *)
(* after the error RWLockAcquire raises when held_rwlocks is full.  From   *)
(* here on the backend only releases and undeclares.                       *)
RWLockReleaseAll(p) ==
    /\ \/ phase[p] = "idle" /\ \E i \in Slots : mode[<<p, i>>] # "free"
       \/ phase[p] = "declared" /\ \A i \in Slots : mode[<<p, i>>] # "free"
    /\ Settled(p)
    /\ phase' = [phase EXCEPT ![p] = "releasing"]
    /\ UNCHANGED <<state, alive, mode, lock>>

ReleaseAllDone(p) ==
    /\ phase[p] = "releasing"
    /\ \A i \in Slots : mode[<<p, i>>] = "free"
    /\ phase' = [phase EXCEPT ![p] = "idle"]
    /\ UNCHANGED <<state, alive, mode, lock>>

-----------------------------------------------------------------------------
\* What a backend does on a lock without choosing to begin something new.
Continue(p) ==
    \/ \E i \in Slots, l \in Locks :
          \/ \E wait \in {"waitShared", "waitExclusive"} :
                RWLockAcquire(p, i, l, wait)
          \/ RWLockUndeclare(p, i, l)
          \/ AttemptExclusive(p, i, l)
          \/ AttemptShared(p, i, l)
          \/ phase[p] = "releasing" /\ RWLockRelease(p, i, l)
          \/ DropReference(p, i, l)
    \/ ReleaseAllDone(p)

Begin(p) ==
    \/ \E i \in Slots, l \in Locks :
          \/ RWLockDeclare(p, i, l)
          \/ RWLockRelease(p, i, l)
    \/ RWLockReleaseAll(p)

Next ==
    \/ \E l \in Locks : RWLockInitialize(l) \/ Destroy(l)
    \/ \E p \in Procs : Begin(p) \/ Continue(p)

Spec == Init /\ [][Next]_vars

(* A waiting backend keeps attempting, a release that has begun goes on,   *)
(* and a transaction ends: its end is RWLockReleaseAll.                    *)
FairSpec ==
    /\ Spec
    /\ \A p \in Procs :
          /\ WF_vars(Continue(p))
          /\ WF_vars(RWLockReleaseAll(p))

-----------------------------------------------------------------------------
(* An exclusive holder is the only holder of its lock, also across the     *)
(* eviction of the entry and the reuse of its memory.                      *)
MutualExclusion ==
    \A l \in Locks : \A g, h \in Handles :
        In(g, "exclusive", l) /\ (In(h, "exclusive", l) \/ In(h, "shared", l))
            => g = h

(* No backend has a handle, even one it is only waiting with, on a lock    *)
(* whose entry has been removed: the memory a waiting backend spins on is  *)
(* never given to another entry.                                           *)
NoUseAfterDestroy == \A l \in Locks : alive[l] = "out" => Refs(l) = {}

(* A destroyable lock has a word that is all zero.  CommitForDirPathHash   *)
(* enters an entry without RWLockInitialize and relies on it.              *)
DestroyableIsClear ==
    \A l \in Locks : state[l].ref = 0 => state[l] = Zero

(* The flag that keeps new readers out is never left behind: while it is   *)
(* set some backend is waiting for the exclusive lock and will clear it.   *)
FlagHasWaiter ==
    \A l \in Locks :
        state[l].waiter = 1 => Holders(l, "waitExclusive") # {}

(* The word counts the handles.                                            *)
WordCounts ==
    \A l \in Locks :
        /\ state[l].ref = Cardinality(Refs(l))
        /\ state[l].shared = Cardinality(Holders(l, "shared"))
        /\ state[l].excl = Cardinality(Holders(l, "exclusive"))

ExclusiveAlone ==
    \A l \in Locks : state[l].excl = 1 => state[l].shared = 0

(* The inductive invariant: together these imply every safety property.    *)
IInv ==
    /\ TypeOK
    /\ WordCounts
    /\ ExclusiveAlone
    /\ FlagHasWaiter
    /\ NoUseAfterDestroy

(* If a backend waits for a lock as exclusive, one of the exclusive        *)
(* waiters gets it: readers that keep arriving cannot keep them all out    *)
(* (the comment at rwlock.c:15).                                           *)
WriterProgress ==
    \A l \in Locks :
        Holders(l, "waitExclusive") # {} ~> Holders(l, "exclusive") # {}

=============================================================================
