---------------------------- MODULE RWLockProofs ----------------------------
(***************************************************************************)
(* Proofs that IInv is an inductive invariant of RWLock, for every finite  *)
(* set of backends and handle slots and every set of locks, and that the   *)
(* safety properties of the lock follow from it.                           *)
(***************************************************************************)
EXTENDS RWLock, FiniteSetTheorems, TLAPS

(* The handles are finitely many, so every set of them can be counted.     *)
LEMMA CountHandles ==
    ASSUME NEW S \in SUBSET Handles
    PROVE  /\ IsFiniteSet(S)
           /\ Cardinality(S) \in Nat
           /\ Cardinality(S) = 0 <=> S = {}
<1>1. IsFiniteSet(Handles)
    BY FiniteConstants, FS_Product DEF Handles
<1>2. IsFiniteSet(S)
    BY <1>1, FS_Subset
<1> QED
    BY <1>2, FS_CardinalityType, FS_EmptySet

(* One more handle is counted once.                                        *)
LEMMA AddHandle ==
    ASSUME NEW S \in SUBSET Handles, NEW h \in Handles, h \notin S
    PROVE  Cardinality(S \cup {h}) = Cardinality(S) + 1
BY CountHandles, FS_AddElement

(* A handle that leaves is no longer counted.                              *)
LEMMA RemoveHandle ==
    ASSUME NEW S \in SUBSET Handles, NEW h \in S
    PROVE  /\ Cardinality(S \ {h}) = Cardinality(S) - 1
           /\ Cardinality(S) > 0
BY CountHandles, FS_RemoveElement

(* RWLockInitialize and Destroy move an entry that has no handles.         *)
LEMMA EntryStep ==
    ASSUME IInv, NEW l \in Locks, RWLockInitialize(l) \/ Destroy(l)
    PROVE  IInv'
<1>1. UNCHANGED <<mode, lock, phase>>
    BY DEF RWLockInitialize, Destroy
<1>2. \A k \in Locks : Refs(k)' = Refs(k)
    BY <1>1 DEF Refs
<1>3. \A k \in Locks, st \in Modes : Holders(k, st)' = Holders(k, st)
    BY <1>1 DEF Holders, In
<1>4. Refs(l) = {}
  <2>1. CASE RWLockInitialize(l)
    BY <2>1 DEF RWLockInitialize, IInv, NoUseAfterDestroy
  <2>2. CASE Destroy(l)
    <3>1. Cardinality(Refs(l)) = 0
        BY <2>2 DEF Destroy, IInv, WordCounts
    <3> QED
        BY <3>1, CountHandles DEF Refs
  <2> QED BY <2>1, <2>2
<1>5. \A st \in Modes \ {"free"} : Holders(l, st) = {}
    BY <1>4 DEF Refs, Holders, In
<1>6. TypeOK'
    BY DEF IInv, TypeOK, RWLockInitialize, Destroy, Word, Zero
<1>7. \A k \in Locks : state'[k] = state[k] \/ (k = l /\ state'[k] = Zero)
    BY DEF IInv, TypeOK, RWLockInitialize, Destroy
<1>8. WordCounts'
  <2> SUFFICES ASSUME NEW k \in Locks
               PROVE  /\ state'[k].ref = Cardinality(Refs(k))
                      /\ state'[k].shared = Cardinality(Holders(k, "shared"))
                      /\ state'[k].excl = Cardinality(Holders(k, "exclusive"))
    BY <1>2, <1>3 DEF WordCounts, Modes
  <2>1. CASE state'[k] = state[k]
    BY <2>1 DEF IInv, WordCounts
  <2>2. CASE k = l /\ state'[k] = Zero
    BY <2>2, <1>4, <1>5, FS_EmptySet DEF Zero, Modes
  <2> QED BY <1>7, <2>1, <2>2
<1>9. ExclusiveAlone' /\ FlagHasWaiter'
    BY <1>3, <1>7 DEF IInv, ExclusiveAlone, FlagHasWaiter, Zero, Modes
<1>10. NoUseAfterDestroy'
    BY <1>2, <1>4 DEF IInv, NoUseAfterDestroy, TypeOK, RWLockInitialize, Destroy
<1> QED
    BY <1>6, <1>8, <1>9, <1>10 DEF IInv

(* RWLockDeclare and RWLockAcquire add a handle, which holds nothing yet.  *)
LEMMA AddStep ==
    ASSUME IInv, NEW p \in Procs, NEW i \in Slots, NEW l \in Locks,
           \/ RWLockDeclare(p, i, l)
           \/ \E wait \in {"waitShared", "waitExclusive"} :
                 RWLockAcquire(p, i, l, wait)
    PROVE  IInv'
<1> DEFINE h == <<p, i>>
<1>1. h \in Handles /\ mode[h] = "free"
    BY DEF RWLockDeclare, RWLockAcquire, Handles
<1>2. PICK m \in {"declare", "waitShared", "waitExclusive"} :
         /\ mode' = [mode EXCEPT ![h] = m]
         /\ lock' = [lock EXCEPT ![h] = l]
         /\ state' = [state EXCEPT ![l].ref = @ + 1]
         /\ alive' = alive
    BY DEF RWLockDeclare, RWLockAcquire
<1>3. \A g \in Handles : /\ mode'[g] = IF g = h THEN m ELSE mode[g]
                         /\ lock'[g] = IF g = h THEN l ELSE lock[g]
    BY <1>1, <1>2 DEF IInv, TypeOK
<1>4. /\ h \notin Refs(l)
      /\ Refs(l)' = Refs(l) \cup {h}
      /\ \A k \in Locks \ {l} : Refs(k)' = Refs(k)
    BY <1>1, <1>3 DEF Refs
<1>5. \A k \in Locks, st \in {"shared", "exclusive"} :
         Holders(k, st)' = Holders(k, st)
    BY <1>1, <1>3 DEF Holders, In
<1>6. \A k \in Locks :
         Holders(k, "waitExclusive") \subseteq Holders(k, "waitExclusive")'
    BY <1>1, <1>3 DEF Holders, In
<1>7. TypeOK'
  <2>1. mode' \in [Handles -> Modes] /\ lock' \in [Handles -> Locks \cup {NoLock}]
    BY <1>1, <1>2 DEF IInv, TypeOK, Modes
  <2>2. state' \in [Locks -> Word] /\ alive' \in [Locks -> {"in", "out"}]
    BY <1>2 DEF IInv, TypeOK, Word
  <2>3. phase' \in [Procs -> Phases]
    BY DEF IInv, TypeOK, Phases, RWLockDeclare, RWLockAcquire
  <2> QED BY <2>1, <2>2, <2>3 DEF TypeOK
<1>8. /\ \A k \in Locks \ {l} : state'[k] = state[k]
      /\ state'[l] = [state[l] EXCEPT !.ref = @ + 1]
    BY <1>2 DEF IInv, TypeOK
<1>9. WordCounts'
  <2>1. Cardinality(Refs(l)') = Cardinality(Refs(l)) + 1
    <3>1. Refs(l) \in SUBSET Handles
        BY DEF Refs
    <3> QED BY <1>1, <1>4, <3>1, AddHandle
  <2>2. state'[l].ref = Cardinality(Refs(l)')
    BY <1>8, <2>1 DEF IInv, WordCounts, TypeOK, Word
  <2> SUFFICES ASSUME NEW k \in Locks
               PROVE  /\ state'[k].ref = Cardinality(Refs(k)')
                      /\ state'[k].shared = Cardinality(Holders(k, "shared"))
                      /\ state'[k].excl = Cardinality(Holders(k, "exclusive"))
    BY <1>5 DEF WordCounts
  <2>3. CASE k = l
    BY <1>8, <2>2, <2>3 DEF IInv, WordCounts, TypeOK, Word
  <2>4. CASE k # l
    <3>1. Refs(k)' = Refs(k) /\ state'[k] = state[k]
        BY <1>4, <1>8, <2>4
    <3> QED BY <3>1 DEF IInv, WordCounts
  <2> QED BY <2>3, <2>4
<1>10. ExclusiveAlone'
    BY <1>8 DEF IInv, ExclusiveAlone, TypeOK, Word
<1>11. FlagHasWaiter'
    BY <1>6, <1>8 DEF IInv, FlagHasWaiter, TypeOK, Word
<1>12. NoUseAfterDestroy'
  <2>1. alive[l] = "in"
    <3>1. CASE RWLockDeclare(p, i, l)
        BY <3>1 DEF RWLockDeclare
    <3>2. CASE \E wait \in {"waitShared", "waitExclusive"} :
                 RWLockAcquire(p, i, l, wait)
      <4>1. Refs(l) # {}
        BY <3>2 DEF RWLockAcquire, Refs, In, Handles
      <4> QED BY <4>1 DEF IInv, NoUseAfterDestroy, TypeOK
    <3> QED BY <3>1, <3>2
  <2> QED BY <1>2, <1>4, <2>1 DEF IInv, NoUseAfterDestroy
<1> QED
    BY <1>7, <1>9, <1>10, <1>11, <1>12 DEF IInv

(* RWLockUndeclare and the last step of RWLockRelease drop a handle that   *)
(* holds nothing.                                                          *)
LEMMA DropStep ==
    ASSUME IInv, NEW p \in Procs, NEW i \in Slots, NEW l \in Locks,
           RWLockUndeclare(p, i, l) \/ DropReference(p, i, l)
    PROVE  IInv'
<1> DEFINE h == <<p, i>>
<1>1. h \in Handles /\ mode[h] \in {"declare", "unref"} /\ lock[h] = l
    BY DEF RWLockUndeclare, DropReference, Handles, In
<1>2. /\ mode' = [mode EXCEPT ![h] = "free"]
      /\ lock' = [lock EXCEPT ![h] = NoLock]
      /\ state' = [state EXCEPT ![l].ref = @ - 1]
      /\ alive' = alive
    BY DEF RWLockUndeclare, DropReference
<1>3. \A g \in Handles : /\ mode'[g] = IF g = h THEN "free" ELSE mode[g]
                         /\ lock'[g] = IF g = h THEN NoLock ELSE lock[g]
    BY <1>1, <1>2 DEF IInv, TypeOK
<1>4. /\ h \in Refs(l)
      /\ Refs(l)' = Refs(l) \ {h}
      /\ \A k \in Locks \ {l} : Refs(k)' = Refs(k)
    BY <1>1, <1>3 DEF Refs
<1>5. \A k \in Locks, st \in {"shared", "exclusive", "waitExclusive"} :
         Holders(k, st)' = Holders(k, st)
    BY <1>1, <1>3 DEF Holders, In
<1>6. /\ \A k \in Locks \ {l} : state'[k] = state[k]
      /\ state'[l] = [state[l] EXCEPT !.ref = @ - 1]
    BY <1>2 DEF IInv, TypeOK
<1>7. /\ Cardinality(Refs(l)') = Cardinality(Refs(l)) - 1
      /\ state[l].ref = Cardinality(Refs(l))
      /\ Cardinality(Refs(l)) > 0
      /\ Cardinality(Refs(l)) \in Nat
    <2>1. Refs(l) \in SUBSET Handles
        BY DEF Refs
    <2> QED BY <1>4, <2>1, RemoveHandle, CountHandles DEF IInv, WordCounts
<1>8. TypeOK'
  <2>1. mode' \in [Handles -> Modes] /\ lock' \in [Handles -> Locks \cup {NoLock}]
    BY <1>1, <1>2 DEF IInv, TypeOK, Modes
  <2>2. state' \in [Locks -> Word] /\ alive' \in [Locks -> {"in", "out"}]
    BY <1>2, <1>7 DEF IInv, TypeOK, Word
  <2>3. phase' \in [Procs -> Phases]
    BY DEF IInv, TypeOK, Phases, RWLockUndeclare, DropReference
  <2> QED BY <2>1, <2>2, <2>3 DEF TypeOK
<1>9. WordCounts'
  <2> SUFFICES ASSUME NEW k \in Locks
               PROVE  /\ state'[k].ref = Cardinality(Refs(k)')
                      /\ state'[k].shared = Cardinality(Holders(k, "shared"))
                      /\ state'[k].excl = Cardinality(Holders(k, "exclusive"))
    BY <1>5 DEF WordCounts
  <2>1. CASE k = l
    BY <1>6, <1>7, <2>1 DEF IInv, WordCounts, TypeOK, Word
  <2>2. CASE k # l
    <3>1. Refs(k)' = Refs(k) /\ state'[k] = state[k]
        BY <1>4, <1>6, <2>2
    <3> QED BY <3>1 DEF IInv, WordCounts
  <2> QED BY <2>1, <2>2
<1>10. ExclusiveAlone' /\ FlagHasWaiter'
    BY <1>5, <1>6 DEF IInv, ExclusiveAlone, FlagHasWaiter, TypeOK, Word
<1>11. NoUseAfterDestroy'
    BY <1>2, <1>4 DEF IInv, NoUseAfterDestroy
<1> QED
    BY <1>8, <1>9, <1>10, <1>11 DEF IInv

(* A step that changes nothing, such as an attempt that fails again.       *)
LEMMA StutterStep ==
    ASSUME IInv, UNCHANGED vars
    PROVE  IInv'
<1>1. /\ \A k \in Locks : Refs(k)' = Refs(k)
      /\ \A k \in Locks, st \in Modes : Holders(k, st)' = Holders(k, st)
    BY DEF vars, Refs, Holders, In
<1>2. TypeOK'
    BY DEF IInv, TypeOK, vars
<1>3. WordCounts' /\ ExclusiveAlone'
    BY <1>1 DEF IInv, WordCounts, ExclusiveAlone, vars, Modes
<1>4. FlagHasWaiter' /\ NoUseAfterDestroy'
    BY <1>1 DEF IInv, FlagHasWaiter, NoUseAfterDestroy, vars, Modes
<1> QED BY <1>2, <1>3, <1>4 DEF IInv

(* An attempt by a reader.                                                 *)
LEMMA AttemptSharedStep ==
    ASSUME IInv, NEW p \in Procs, NEW i \in Slots, NEW l \in Locks,
           AttemptShared(p, i, l)
    PROVE  IInv'
<1> DEFINE h == <<p, i>>
<1>1. CASE ~ (state[l].excl = 0 /\ state[l].waiter = 0)
  <2>1. UNCHANGED vars
    BY <1>1 DEF AttemptShared, vars
  <2> QED BY <2>1, StutterStep
<1>2. CASE state[l].excl = 0 /\ state[l].waiter = 0
  <2>1. /\ h \in Handles
        /\ In(h, "waitShared", l)
        /\ mode' = [mode EXCEPT ![h] = "shared"]
        /\ lock' = lock /\ alive' = alive /\ phase' = phase
    BY <1>2 DEF AttemptShared, Handles
  <2>2. /\ \A k \in Locks \ {l} : state'[k] = state[k]
        /\ state'[l] = [state[l] EXCEPT !.shared = @ + 1]
        /\ state' \in [Locks -> Word]
    <3>1. state' = [state EXCEPT ![l].shared = @ + 1] /\ state \in [Locks -> Word]
        BY <1>2 DEF AttemptShared, IInv, TypeOK
    <3>2. state' \in [Locks -> Word]
        BY <3>1 DEF Word
    <3> QED BY <3>1, <3>2
  <2>3. /\ mode' \in [Handles -> Modes]
        /\ \A k \in Locks : Refs(k)' = Refs(k)
        /\ h \notin Holders(l, "shared")
        /\ Holders(l, "shared")' = Holders(l, "shared") \cup {h}
        /\ \A k \in Locks : k # l => Holders(k, "shared")' = Holders(k, "shared")
        /\ \A k \in Locks, st \in {"exclusive", "waitExclusive"} :
              Holders(k, st)' = Holders(k, st)
    <3>1. \A g \in Handles : mode'[g] = IF g = h THEN "shared" ELSE mode[g]
        BY <2>1 DEF IInv, TypeOK
    <3>2. mode' \in [Handles -> Modes]
        BY <2>1 DEF IInv, TypeOK, Modes
    <3>3. \A k \in Locks : Refs(k)' = Refs(k)
        BY <2>1, <3>1 DEF Refs, In
    <3> QED BY <2>1, <3>1, <3>2, <3>3 DEF Holders, In
  <2>4. TypeOK'
    BY <2>1, <2>2, <2>3 DEF IInv, TypeOK
  <2>5. Cardinality(Holders(l, "shared")') = Cardinality(Holders(l, "shared")) + 1
    <3>1. Holders(l, "shared") \in SUBSET Handles
        BY DEF Holders
    <3> QED BY <2>1, <2>3, <3>1, AddHandle
  <2>6. WordCounts'
    <3> SUFFICES ASSUME NEW k \in Locks
                 PROVE  /\ state'[k].ref = Cardinality(Refs(k))
                        /\ state'[k].shared = Cardinality(Holders(k, "shared")')
                        /\ state'[k].excl = Cardinality(Holders(k, "exclusive"))
        BY <2>3 DEF WordCounts
    <3>1. CASE k = l
        BY <2>2, <2>5, <3>1 DEF IInv, WordCounts, TypeOK, Word
    <3>2. CASE k # l
      <4>1. state'[k] = state[k] /\ Holders(k, "shared")' = Holders(k, "shared")
        BY <2>2, <2>3, <3>2
      <4> QED BY <4>1 DEF IInv, WordCounts
    <3> QED BY <3>1, <3>2
  <2>7. ExclusiveAlone' /\ FlagHasWaiter'
    BY <1>2, <2>2, <2>3 DEF IInv, ExclusiveAlone, FlagHasWaiter, TypeOK, Word
  <2>8. NoUseAfterDestroy'
    BY <2>1, <2>3 DEF IInv, NoUseAfterDestroy
  <2> QED BY <2>4, <2>6, <2>7, <2>8 DEF IInv
<1> QED BY <1>1, <1>2

(* An attempt by a writer: it takes the lock, or leaves the flag behind    *)
(* while it is itself the waiter the flag speaks of.                       *)
LEMMA AttemptExclusiveStep ==
    ASSUME IInv, NEW p \in Procs, NEW i \in Slots, NEW l \in Locks,
           AttemptExclusive(p, i, l)
    PROVE  IInv'
<1> DEFINE h == <<p, i>>
<1>0. /\ h \in Handles /\ In(h, "waitExclusive", l)
      /\ lock' = lock /\ alive' = alive /\ phase' = phase
    BY DEF AttemptExclusive, Handles
<1>1. CASE ~ (state[l].shared = 0 /\ state[l].excl = 0)
  <2>1. /\ UNCHANGED mode
        /\ \A k \in Locks \ {l} : state'[k] = state[k]
        /\ state'[l] = [state[l] EXCEPT !.waiter = 1]
        /\ state' \in [Locks -> Word]
    BY <1>1 DEF AttemptExclusive, IInv, TypeOK, Word
  <2>2. /\ \A k \in Locks : Refs(k)' = Refs(k)
        /\ \A k \in Locks, st \in Modes : Holders(k, st)' = Holders(k, st)
        /\ h \in Holders(l, "waitExclusive")
    BY <1>0, <2>1 DEF Refs, Holders, In
  <2>3. TypeOK'
    BY <1>0, <2>1 DEF IInv, TypeOK
  <2>4. WordCounts' /\ ExclusiveAlone'
    BY <2>1, <2>2 DEF IInv, WordCounts, ExclusiveAlone, TypeOK, Word, Modes
  <2>5. FlagHasWaiter'
    BY <2>1, <2>2 DEF IInv, FlagHasWaiter, TypeOK, Word, Modes
  <2>6. NoUseAfterDestroy'
    BY <1>0, <2>2 DEF IInv, NoUseAfterDestroy
  <2> QED BY <2>3, <2>4, <2>5, <2>6 DEF IInv
<1>2. CASE state[l].shared = 0 /\ state[l].excl = 0
  <2>1. mode' = [mode EXCEPT ![h] = "exclusive"]
    BY <1>2 DEF AttemptExclusive
  <2>2. /\ \A k \in Locks \ {l} : state'[k] = state[k]
        /\ state'[l].excl = 1 /\ state'[l].waiter = 0
        /\ state'[l].ref = state[l].ref /\ state'[l].shared = state[l].shared
        /\ state' \in [Locks -> Word]
    <3>1. /\ state' = [state EXCEPT ![l].excl = 1, ![l].waiter = 0]
          /\ state \in [Locks -> Word]
        BY <1>2 DEF AttemptExclusive, IInv, TypeOK
    <3>2. state' \in [Locks -> Word]
        BY <3>1 DEF Word
    <3> QED BY <3>1, <3>2 DEF Word
  <2>3. /\ mode' \in [Handles -> Modes]
        /\ \A k \in Locks : Refs(k)' = Refs(k)
        /\ h \notin Holders(l, "exclusive")
        /\ Holders(l, "exclusive")' = Holders(l, "exclusive") \cup {h}
        /\ \A k \in Locks : Holders(k, "shared")' = Holders(k, "shared")
        /\ \A k \in Locks, st \in {"exclusive", "waitExclusive"} :
              k # l => Holders(k, st)' = Holders(k, st)
    <3>1. \A g \in Handles : mode'[g] = IF g = h THEN "exclusive" ELSE mode[g]
        BY <1>0, <2>1 DEF IInv, TypeOK
    <3>2. mode' \in [Handles -> Modes]
        BY <1>0, <2>1 DEF IInv, TypeOK, Modes
    <3>3. \A k \in Locks : Refs(k)' = Refs(k)
        BY <1>0, <2>1, <3>1 DEF Refs, In
    <3> QED BY <1>0, <2>1, <3>1, <3>2, <3>3 DEF Holders, In
  <2>4. TypeOK'
    BY <1>0, <2>2, <2>3 DEF IInv, TypeOK
  <2>5. Cardinality(Holders(l, "exclusive")') =
           Cardinality(Holders(l, "exclusive")) + 1
    <3>1. Holders(l, "exclusive") \in SUBSET Handles
        BY DEF Holders
    <3> QED BY <1>0, <2>3, <3>1, AddHandle
  <2>6. WordCounts'
    <3> SUFFICES ASSUME NEW k \in Locks
                 PROVE  /\ state'[k].ref = Cardinality(Refs(k))
                        /\ state'[k].shared = Cardinality(Holders(k, "shared"))
                        /\ state'[k].excl = Cardinality(Holders(k, "exclusive")')
        BY <2>3 DEF WordCounts
    <3>1. CASE k = l
        BY <1>2, <2>2, <2>5, <3>1 DEF IInv, WordCounts, TypeOK, Word
    <3>2. CASE k # l
      <4>1. /\ state'[k] = state[k]
            /\ Holders(k, "exclusive")' = Holders(k, "exclusive")
        BY <2>2, <2>3, <3>2
      <4> QED BY <4>1 DEF IInv, WordCounts
    <3> QED BY <3>1, <3>2
  <2>7. ExclusiveAlone' /\ FlagHasWaiter'
    BY <1>2, <2>2, <2>3 DEF IInv, ExclusiveAlone, FlagHasWaiter, TypeOK, Word
  <2>8. NoUseAfterDestroy'
    BY <1>0, <2>3 DEF IInv, NoUseAfterDestroy
  <2> QED BY <2>4, <2>6, <2>7, <2>8 DEF IInv
<1> QED BY <1>1, <1>2

(* The first step of a release: the lock goes, the reference stays.        *)
LEMMA ReleaseStep ==
    ASSUME IInv, NEW p \in Procs, NEW i \in Slots, NEW l \in Locks,
           RWLockRelease(p, i, l)
    PROVE  IInv'
<1> DEFINE h == <<p, i>>
<1>1. PICK m \in {"shared", "exclusive"} :
         /\ h \in Handles
         /\ In(h, m, l)
         /\ mode' = [mode EXCEPT ![h] = "unref"]
         /\ lock' = lock /\ alive' = alive /\ phase' = phase
    BY DEF RWLockRelease, Handles
<1>2. \A g \in Handles : mode'[g] = IF g = h THEN "unref" ELSE mode[g]
    BY <1>1 DEF IInv, TypeOK
<1>3. mode' \in [Handles -> Modes]
    BY <1>1 DEF IInv, TypeOK, Modes
<1>4. \A k \in Locks : Refs(k)' = Refs(k)
    BY <1>1, <1>2 DEF Refs, In
<1>5. /\ h \in Holders(l, m)
      /\ Holders(l, m)' = Holders(l, m) \ {h}
      /\ \A k \in Locks, st \in {"shared", "exclusive"} :
            k # l \/ st # m => Holders(k, st)' = Holders(k, st)
      /\ \A k \in Locks :
            Holders(k, "waitExclusive")' = Holders(k, "waitExclusive")
    BY <1>1, <1>2 DEF Holders, In
<1>6. /\ Cardinality(Holders(l, m)') = Cardinality(Holders(l, m)) - 1
      /\ Cardinality(Holders(l, m)) > 0
      /\ Cardinality(Holders(l, m)) \in Nat
  <2>1. Holders(l, m) \in SUBSET Handles
    BY DEF Holders
  <2> QED BY <1>5, <2>1, RemoveHandle, CountHandles
<1>7. CASE m = "shared"
  <2>1. /\ state' = [state EXCEPT ![l].shared = @ - 1]
        /\ state \in [Locks -> Word]
    BY <1>1, <1>7 DEF RWLockRelease, In, IInv, TypeOK
  <2>2. /\ state[l].shared \in Nat /\ state[l].shared > 0
        /\ state[l].shared = Cardinality(Holders(l, "shared"))
    BY <1>6, <1>7 DEF IInv, WordCounts
  <2>3. state' \in [Locks -> Word]
    BY <2>1, <2>2 DEF Word
  <2>4. /\ \A k \in Locks \ {l} : state'[k] = state[k]
        /\ state'[l].shared = state[l].shared - 1
        /\ state'[l].excl = state[l].excl
        /\ state'[l].ref = state[l].ref
        /\ state'[l].waiter = state[l].waiter
    BY <2>1 DEF Word
  <2>5. WordCounts'
    <3> SUFFICES ASSUME NEW k \in Locks
                 PROVE  /\ state'[k].ref = Cardinality(Refs(k))
                        /\ state'[k].shared = Cardinality(Holders(k, "shared")')
                        /\ state'[k].excl = Cardinality(Holders(k, "exclusive"))
        BY <1>4, <1>5, <1>7 DEF WordCounts
    <3>1. CASE k = l
        BY <1>6, <1>7, <2>2, <2>4, <3>1 DEF IInv, WordCounts
    <3>2. CASE k # l
      <4>1. state'[k] = state[k] /\ Holders(k, "shared")' = Holders(k, "shared")
        BY <1>5, <2>4, <3>2
      <4> QED BY <4>1 DEF IInv, WordCounts
    <3> QED BY <3>1, <3>2
  <2>6. ExclusiveAlone' /\ FlagHasWaiter'
    BY <1>5, <2>2, <2>4 DEF IInv, ExclusiveAlone, FlagHasWaiter
  <2>7. TypeOK'
    BY <1>1, <1>3, <2>3 DEF IInv, TypeOK
  <2>8. NoUseAfterDestroy'
    BY <1>1, <1>4 DEF IInv, NoUseAfterDestroy
  <2> QED BY <2>5, <2>6, <2>7, <2>8 DEF IInv
<1>8. CASE m = "exclusive"
  <2>1. /\ state' = [state EXCEPT ![l].excl = @ - 1]
        /\ state \in [Locks -> Word]
    BY <1>1, <1>8 DEF RWLockRelease, In, IInv, TypeOK
  <2>2. /\ state[l].excl = 1
        /\ state[l].excl = Cardinality(Holders(l, "exclusive"))
    BY <1>6, <1>8, <2>1 DEF IInv, WordCounts, Word
  <2>3. state' \in [Locks -> Word]
    BY <2>1, <2>2 DEF Word
  <2>4. /\ \A k \in Locks \ {l} : state'[k] = state[k]
        /\ state'[l].shared = state[l].shared
        /\ state'[l].excl = 0
        /\ state'[l].ref = state[l].ref
        /\ state'[l].waiter = state[l].waiter
    BY <2>1, <2>2 DEF Word
  <2>5. WordCounts'
    <3> SUFFICES ASSUME NEW k \in Locks
                 PROVE  /\ state'[k].ref = Cardinality(Refs(k))
                        /\ state'[k].shared = Cardinality(Holders(k, "shared"))
                        /\ state'[k].excl = Cardinality(Holders(k, "exclusive")')
        BY <1>4, <1>5, <1>8 DEF WordCounts
    <3>1. CASE k = l
        BY <1>6, <1>8, <2>2, <2>4, <3>1 DEF IInv, WordCounts
    <3>2. CASE k # l
      <4>1. /\ state'[k] = state[k]
            /\ Holders(k, "exclusive")' = Holders(k, "exclusive")
        BY <1>5, <2>4, <3>2
      <4> QED BY <4>1 DEF IInv, WordCounts
    <3> QED BY <3>1, <3>2
  <2>6. ExclusiveAlone' /\ FlagHasWaiter'
    BY <1>5, <2>4 DEF IInv, ExclusiveAlone, FlagHasWaiter
  <2>7. TypeOK'
    BY <1>1, <1>3, <2>3 DEF IInv, TypeOK
  <2>8. NoUseAfterDestroy'
    BY <1>1, <1>4 DEF IInv, NoUseAfterDestroy
  <2> QED BY <2>5, <2>6, <2>7, <2>8 DEF IInv
<1> QED BY <1>7, <1>8

(* RWLockReleaseAll begins and ends without touching a lock.               *)
LEMMA PhaseStep ==
    ASSUME IInv, NEW p \in Procs, RWLockReleaseAll(p) \/ ReleaseAllDone(p)
    PROVE  IInv'
<1>1. /\ state' = state /\ alive' = alive /\ mode' = mode /\ lock' = lock
      /\ phase' \in [Procs -> Phases]
    BY DEF RWLockReleaseAll, ReleaseAllDone, IInv, TypeOK, Phases
<1>2. /\ \A k \in Locks : Refs(k)' = Refs(k)
      /\ \A k \in Locks, st \in Modes : Holders(k, st)' = Holders(k, st)
    BY <1>1 DEF Refs, Holders, In
<1>3. TypeOK'
    BY <1>1 DEF IInv, TypeOK
<1>4. WordCounts' /\ ExclusiveAlone'
    BY <1>1, <1>2 DEF IInv, WordCounts, ExclusiveAlone, Modes
<1>5. FlagHasWaiter' /\ NoUseAfterDestroy'
    BY <1>1, <1>2 DEF IInv, FlagHasWaiter, NoUseAfterDestroy, Modes
<1> QED BY <1>3, <1>4, <1>5 DEF IInv

(* No lock has a handle at the start.                                      *)
LEMMA InitIInv == Init => IInv
<1> SUFFICES ASSUME Init PROVE IInv
    OBVIOUS
<1>1. /\ \A k \in Locks : Refs(k) = {}
      /\ \A k \in Locks, st \in Modes \ {"free"} : Holders(k, st) = {}
    BY DEF Init, Refs, Holders, In
<1>2. TypeOK
    BY DEF Init, TypeOK, Word, Zero, Modes, Phases
<1>3. WordCounts
    BY <1>1, FS_EmptySet DEF Init, WordCounts, Zero, Modes
<1>4. ExclusiveAlone /\ FlagHasWaiter /\ NoUseAfterDestroy
    BY <1>1 DEF Init, ExclusiveAlone, FlagHasWaiter, NoUseAfterDestroy, Zero
<1> QED BY <1>2, <1>3, <1>4 DEF IInv

(* The word of every lock counts its handles exactly, whatever the         *)
(* backends do: IInv is an invariant.                                      *)
THEOREM Invariance == Spec => []IInv
<1>1. IInv /\ [Next]_vars => IInv'
  <2> SUFFICES ASSUME IInv, [Next]_vars PROVE IInv'
    OBVIOUS
  <2>1. ASSUME NEW l \in Locks, RWLockInitialize(l) \/ Destroy(l) PROVE IInv'
    BY <2>1, EntryStep
  <2>2. ASSUME NEW p \in Procs, Begin(p) PROVE IInv'
    BY <2>2, AddStep, ReleaseStep, PhaseStep DEF Begin
  <2>3. ASSUME NEW p \in Procs, Continue(p) PROVE IInv'
    BY <2>3, AddStep, DropStep, AttemptExclusiveStep, AttemptSharedStep,
       ReleaseStep, PhaseStep DEF Continue
  <2>4. CASE UNCHANGED vars
    BY <2>4, StutterStep
  <2> QED BY <2>1, <2>2, <2>3, <2>4 DEF Next
<1> QED BY <1>1, InitIInv, PTL DEF Spec

(* An exclusive holder excludes every other holder.                        *)
THEOREM ExclusionHolds == Spec => []MutualExclusion
<1>1. IInv => MutualExclusion
  <2> SUFFICES ASSUME IInv, NEW l \in Locks, NEW g \in Handles, NEW h \in Handles,
                      In(g, "exclusive", l),
                      In(h, "exclusive", l) \/ In(h, "shared", l)
               PROVE  g = h
    BY DEF MutualExclusion
  <2>1. /\ Holders(l, "exclusive") \in SUBSET Handles
        /\ Holders(l, "shared") \in SUBSET Handles
        /\ g \in Holders(l, "exclusive")
    BY DEF Holders
  <2>2. Cardinality(Holders(l, "exclusive")) = 1
    BY <2>1, CountHandles DEF IInv, WordCounts, TypeOK, Word
  <2>3. Holders(l, "shared") = {}
    BY <2>1, <2>2, CountHandles DEF IInv, WordCounts, ExclusiveAlone
  <2>4. Holders(l, "exclusive") = {g}
    BY <2>1, <2>2, CountHandles, FS_Singleton
  <2> QED BY <2>3, <2>4 DEF Holders
<1> QED BY <1>1, Invariance, PTL

(* The memory of a lock is not reused while a backend refers to it         *)
(* (EliminateDirPathHashByLRU tests the word under the partition's lock).  *)
THEOREM LifetimeHolds == Spec => []NoUseAfterDestroy
<1>1. IInv => NoUseAfterDestroy
    BY DEF IInv
<1> QED BY <1>1, Invariance, PTL

(* The flag that stops readers always has a writer behind it, whichever    *)
(* of the waiters set it, cleared it or got the lock (RWLockAcquire).      *)
THEOREM FlagHolds == Spec => []FlagHasWaiter
<1>1. IInv => FlagHasWaiter
    BY DEF IInv
<1> QED BY <1>1, Invariance, PTL

(* A destroyable lock is all zero.                                         *)
THEOREM ClearHolds == Spec => []DestroyableIsClear
<1>1. IInv => DestroyableIsClear
  <2> SUFFICES ASSUME IInv, NEW l \in Locks, state[l].ref = 0
               PROVE  state[l] = Zero
    BY DEF DestroyableIsClear
  <2>1. Refs(l) = {}
    BY CountHandles DEF IInv, WordCounts, Refs
  <2>2. \A st \in Modes \ {"free"} : Holders(l, st) = {}
    BY <2>1 DEF Refs, Holders, In
  <2>3. state[l].shared = 0 /\ state[l].excl = 0
    BY <2>2, FS_EmptySet DEF IInv, WordCounts, Modes
  <2>4. state[l].waiter = 0
    BY <2>2 DEF IInv, FlagHasWaiter, TypeOK, Word, Modes
  <2> QED BY <2>3, <2>4 DEF IInv, TypeOK, Word, Zero
<1> QED BY <1>1, Invariance, PTL
=============================================================================
