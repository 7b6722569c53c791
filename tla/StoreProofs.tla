---------------------------- MODULE StoreProofs ----------------------------
(***************************************************************************)
(* Space and locks of the store are accounted for on every path of a load, *)
(* a write and their failures, for any number of users and inodes.  A step *)
(* is sorted by what it does to the lock and to the space: most do neither *)
(* (Plain), the others take, wait for, give back or hand over one of them. *)
(***************************************************************************)
EXTENDS Store, FiniteSetTheorems, WellFoundedInduction, TLAPS

\* What a step of user u that goes to x leaves alone.
StepTo(u, x) ==
    /\ x \in Steps /\ pc' = [pc EXCEPT ![u] = x] /\ job' = job
    /\ Detached(u) => Detached(u)'
SameLock(u, x) ==
    /\ lock' = lock /\ (x \in Owning <=> pc[u] \in Owning) /\ (x = "wait" <=> pc[u] = "wait")
SameSpace(u, x) ==
    reservedCap' = reservedCap /\ (x \in Reserving <=> pc[u] \in Reserving)

Owned(i) == OneOwner(i) /\ lock[i].waiting = Cardinality(Waiters(i))

\* Facts of the invariant that every step uses.
LEMMA Facts ==
    ASSUME StoreInv
    PROVE  /\ job \in [Users -> Requests] /\ pc \in [Users -> Steps]
           /\ lock \in [Inodes -> [held: BOOLEAN, waiting: Nat]]
           /\ tasks \in SUBSET TaskType /\ reservedCap \in Nat
           /\ IsFiniteSet(tasks) /\ IsFiniteSet(Users)
           /\ \A u \in Users : I(u) \in Inodes
           /\ \A i \in Inodes : Owned(i)
<1>1. \A u \in Users : I(u) \in Inodes
    BY DEF StoreInv, TypeOK, ControlOK, I, Requests
<1> QED BY <1>1, StoreAssumptions DEF StoreInv, TypeOK, ControlOK, TasksDetached, Owned

\* The sets that are counted are finite.
LEMMA Counted ==
    ASSUME StoreInv
    PROVE  /\ IsFiniteSet(Reservers) /\ Cardinality(Reservers) \in Nat
           /\ Cardinality(tasks) \in Nat
           /\ \A i \in Inodes : IsFiniteSet(Waiters(i)) /\ Cardinality(Waiters(i)) \in Nat
           /\ \A i \in Inodes : IsFiniteSet(OwnerUsers(i)) /\ IsFiniteSet(OwnerTasks(i))
<1>1. IsFiniteSet(Users) /\ IsFiniteSet(tasks)
    BY Facts
<1>2. /\ Reservers \in SUBSET Users
      /\ \A i \in Inodes : Waiters(i) \in SUBSET Users /\ OwnerUsers(i) \in SUBSET Users
                           /\ OwnerTasks(i) \in SUBSET tasks
    BY DEF Reservers, Waiters, OwnerUsers, OwnerTasks
<1>3. /\ IsFiniteSet(Reservers)
      /\ \A i \in Inodes : IsFiniteSet(Waiters(i)) /\ IsFiniteSet(OwnerUsers(i))
                           /\ IsFiniteSet(OwnerTasks(i))
    BY <1>1, <1>2, FS_Subset
<1> QED BY <1>1, <1>3, FS_CardinalityType

-----------------------------------------------------------------------------
(* Steps of a user.                                                        *)

\* The step of a user keeps every task with its detached user.
LEMMA StillDetached ==
    ASSUME StoreInv, NEW u \in Users, NEW x, StepTo(u, x), tasks' = tasks
    PROVE  TasksDetached'
<1>1. \A v \in Users : Detached(v) => Detached(v)'
    BY Facts DEF StepTo, Detached, Writes, Kind
<1>2. \A t \in tasks : t.by \in Users /\ I(t.by)' = I(t.by)
    BY Facts DEF TaskType, StepTo, I
<1> QED BY <1>1, <1>2 DEF StoreInv, TasksDetached

\* A user that has not left a load to the pool has no task.
LEMMA NoTask ==
    ASSUME StoreInv, NEW u \in Users, ~ Detached(u)
    PROVE  \A t \in tasks : t.by # u
BY DEF StoreInv, TasksDetached

\* A step that neither enters nor leaves the owners and the waiters.
LEMMA LockKept ==
    ASSUME StoreInv, NEW u \in Users, NEW x, StepTo(u, x), SameLock(u, x), tasks' = tasks
    PROVE  \A i \in Inodes : Owned(i)'
<1> SUFFICES ASSUME NEW i \in Inodes PROVE Owned(i)'
    OBVIOUS
<1>1. OwnerUsers(i)' = OwnerUsers(i) /\ Waiters(i)' = Waiters(i) /\ OwnerTasks(i)' = OwnerTasks(i)
    BY Facts DEF StepTo, SameLock, OwnerUsers, Waiters, OwnerTasks, I
<1> QED BY <1>1, Facts DEF Owned, OneOwner, SameLock

\* A step that changes nothing of what is reserved.
LEMMA SpaceKept ==
    ASSUME StoreInv, NEW u \in Users, NEW x, StepTo(u, x), SameSpace(u, x), tasks' = tasks
    PROVE  ReservedAccounted'
<1>1. Reservers' = Reservers
    BY Facts DEF StepTo, SameSpace, Reservers
<1> QED BY <1>1 DEF StoreInv, ReservedAccounted, SameSpace

\* A successful PreAllocSpace: one more has space.
LEMMA SpaceTaken ==
    ASSUME StoreInv, NEW u \in Users, NEW x, StepTo(u, x), tasks' = tasks,
           pc[u] \notin Reserving, x \in Reserving, reservedCap' = reservedCap + 1
    PROVE  ReservedAccounted' /\ reservedCap' \in Nat
<1>1. Reservers' = Reservers \cup {u} /\ u \notin Reservers
    BY Facts DEF StepTo, Reservers
<1>2. Cardinality(Reservers') = Cardinality(Reservers) + 1
    BY <1>1, Counted, FS_AddElement
<1> QED BY <1>2, Counted, Facts DEF StoreInv, ReservedAccounted

\* FreePreAllocSpace by a user.
LEMMA SpaceGiven ==
    ASSUME StoreInv, NEW u \in Users, NEW x, StepTo(u, x), tasks' = tasks,
           pc[u] \in Reserving, x \notin Reserving, reservedCap' = reservedCap - 1
    PROVE  ReservedAccounted' /\ reservedCap' \in Nat
<1>1. Reservers' = Reservers \ {u} /\ u \in Reservers
    BY Facts DEF StepTo, Reservers
<1>2. Cardinality(Reservers') = Cardinality(Reservers) - 1 /\ Cardinality(Reservers') \in Nat
    BY <1>1, Counted, FS_RemoveElement, FS_CardinalityType
<1> QED BY <1>2, Counted, Facts DEF StoreInv, ReservedAccounted

\* What a step of u does to the owners and the waiters of each inode.
Moved(u, x) ==
    \A i \in Inodes :
        /\ OwnerUsers(i)' = IF x \in Owning /\ i = I(u) THEN OwnerUsers(i) \cup {u}
                                                        ELSE OwnerUsers(i) \ {u}
        /\ Waiters(i)' = IF x = "wait" /\ i = I(u) THEN Waiters(i) \cup {u}
                                                   ELSE Waiters(i) \ {u}
        /\ u \in OwnerUsers(i) <=> i = I(u) /\ pc[u] \in Owning
        /\ u \in Waiters(i) <=> i = I(u) /\ pc[u] = "wait"

\* It moves u alone.
LEMMA Moving ==
    ASSUME StoreInv, NEW u \in Users, NEW x, StepTo(u, x)
    PROVE  Moved(u, x)
<1> SUFFICES ASSUME NEW i \in Inodes
             PROVE  /\ OwnerUsers(i)' = IF x \in Owning /\ i = I(u) THEN OwnerUsers(i) \cup {u}
                                                        ELSE OwnerUsers(i) \ {u}
                    /\ Waiters(i)' = IF x = "wait" /\ i = I(u) THEN Waiters(i) \cup {u}
                                                   ELSE Waiters(i) \ {u}
                    /\ u \in OwnerUsers(i) <=> i = I(u) /\ pc[u] \in Owning
                    /\ u \in Waiters(i) <=> i = I(u) /\ pc[u] = "wait"
    BY DEF Moved
<1>1. \A v \in Users : I(v)' = I(v) /\ pc'[v] = IF v = u THEN x ELSE pc[v]
    BY Facts DEF StepTo, I
<1> QED BY <1>1 DEF OwnerUsers, Waiters

\* The other inodes do not see the step.
LEMMA Elsewhere ==
    ASSUME NEW u \in Users, NEW x, Moved(u, x), NEW i \in Inodes, i # I(u)
    PROVE  OwnerUsers(i)' = OwnerUsers(i) /\ Waiters(i)' = Waiters(i)
<1>1. /\ OwnerUsers(i)' = OwnerUsers(i) \ {u} /\ Waiters(i)' = Waiters(i) \ {u}
      /\ u \notin OwnerUsers(i) /\ u \notin Waiters(i)
    BY DEF Moved
<1> QED BY <1>1

\* The lock is free and the user takes it, having waited for it or not.
LEMMA LockTaken ==
    ASSUME StoreInv, NEW u \in Users, NEW x, StepTo(u, x), tasks' = tasks,
           pc[u] \notin Owning, x \in Owning, x # "wait", ~ lock[I(u)].held,
           \/ pc[u] # "wait" /\ lock' = [lock EXCEPT ![I(u)].held = TRUE]
           \/ /\ pc[u] = "wait"
              /\ lock' = [lock EXCEPT ![I(u)] = [held |-> TRUE, waiting |-> @.waiting - 1]]
    PROVE  (\A i \in Inodes : Owned(i)') /\ lock' \in [Inodes -> [held: BOOLEAN, waiting: Nat]]
<1>k. PICK k \in Inodes : k = I(u)
    BY Facts
<1>1. k \in Inodes /\ Owned(k) /\ lock[k].waiting \in Nat /\ Moved(u, x)
    BY <1>k, Facts, Moving
<1>2. OwnerUsers(k) = {} /\ OwnerTasks(k) = {}
    BY <1>k, <1>1 DEF Owned, OneOwner
<1>3. \A i \in Inodes : OwnerTasks(i)' = OwnerTasks(i)
    BY DEF OwnerTasks
<1>4. /\ OwnerUsers(k)' = {u}
      /\ Waiters(k)' = Waiters(k) \ {u}
      /\ u \in Waiters(k) <=> pc[u] = "wait"
    BY <1>k, <1>1, <1>2, <1>k DEF Moved
<1>5. /\ Cardinality(Waiters(k)') = IF pc[u] = "wait" THEN Cardinality(Waiters(k)) - 1
                                                      ELSE Cardinality(Waiters(k))
      /\ Cardinality(Waiters(k)') \in Nat
    BY <1>1, <1>4, Counted, FS_RemoveElement, FS_CardinalityType
<1>6. /\ lock'[k].held = TRUE
      /\ lock'[k].waiting = IF pc[u] = "wait" THEN lock[k].waiting - 1 ELSE lock[k].waiting
      /\ lock' = [lock EXCEPT ![k] = lock'[k]]
      /\ lock'[k] = [held |-> lock'[k].held, waiting |-> lock'[k].waiting]
    BY <1>k, <1>1, Facts
<1>7. lock'[k].waiting = Cardinality(Waiters(k)') /\ lock'[k].waiting \in Nat
    BY <1>1, <1>5, <1>6 DEF Owned
<1>8. Owned(k)'
  <2>1. OneOwner(k)'
    BY <1>2, <1>3, <1>4, <1>6, <1>1 DEF OneOwner
  <2> QED BY <2>1, <1>7 DEF Owned
<1>9. ASSUME NEW i \in Inodes, i # k PROVE Owned(i)'
  <2>0. lock'[i] = lock[i]
    BY <1>6, <1>9, Facts
  <2>1. OwnerUsers(i)' = OwnerUsers(i) /\ Waiters(i)' = Waiters(i) /\ lock'[i] = lock[i]
    BY <1>1, <1>9, <1>k, <2>0, Elsewhere
  <2> QED BY <1>3, <2>1, Facts DEF Owned, OneOwner
<1>10. lock' \in [Inodes -> [held: BOOLEAN, waiting: Nat]]
  <2>1. lock'[k] \in [held: BOOLEAN, waiting: Nat]
    BY <1>6, <1>7
  <2> QED BY <1>6, <2>1, Facts
<1> QED BY <1>8, <1>9, <1>10

\* The user that owns the lock gives it back.
LEMMA LockGiven ==
    ASSUME StoreInv, NEW u \in Users, NEW x, StepTo(u, x),
           \A i \in Inodes : OwnerTasks(i)' = OwnerTasks(i),
           pc[u] \in Owning, x \notin Owning, x # "wait", pc[u] # "wait",
           lock' = [lock EXCEPT ![I(u)].held = FALSE]
    PROVE  (\A i \in Inodes : Owned(i)') /\ lock' \in [Inodes -> [held: BOOLEAN, waiting: Nat]]
<1>k. PICK k \in Inodes : k = I(u)
    BY Facts
<1>1. k \in Inodes /\ Owned(k) /\ Moved(u, x)
    BY <1>k, Facts, Moving
<1>2. u \in OwnerUsers(k) /\ OwnerUsers(k)' = OwnerUsers(k) \ {u} /\ Waiters(k)' = Waiters(k)
    BY <1>k, <1>1 DEF Moved
<1>3. OwnerUsers(k)' = {} /\ OwnerTasks(k)' = {}
    BY <1>1, <1>2 DEF Owned, OneOwner
<1>4. /\ lock'[k].held = FALSE /\ lock'[k].waiting = lock[k].waiting
      /\ \A i \in Inodes : i # k => lock'[i] = lock[i]
      /\ lock' \in [Inodes -> [held: BOOLEAN, waiting: Nat]]
    BY <1>k, <1>1, Facts
<1>5. Owned(k)'
  <2>1. OneOwner(k)'
    BY <1>3, <1>4 DEF OneOwner
  <2> QED BY <2>1, <1>1, <1>2, <1>4 DEF Owned
<1>6. ASSUME NEW i \in Inodes, i # k PROVE Owned(i)'
  <2>1. OwnerUsers(i)' = OwnerUsers(i) /\ Waiters(i)' = Waiters(i) /\ lock'[i] = lock[i]
    BY <1>1, <1>4, <1>6, <1>k, Elsewhere
  <2> QED BY <2>1, Facts DEF Owned, OneOwner
<1> QED BY <1>4, <1>5, <1>6

\* A user begins to wait for a lock that is held.
LEMMA LockAwaited ==
    ASSUME StoreInv, NEW u \in Users, StepTo(u, "wait"), tasks' = tasks,
           pc[u] \notin Owning, pc[u] # "wait",
           lock' = [lock EXCEPT ![I(u)].waiting = @ + 1]
    PROVE  (\A i \in Inodes : Owned(i)') /\ lock' \in [Inodes -> [held: BOOLEAN, waiting: Nat]]
<1>k. PICK k \in Inodes : k = I(u)
    BY Facts
<1>0. "wait" \notin Owning
    BY DEF Owning
<1>1. k \in Inodes /\ Owned(k) /\ Moved(u, "wait") /\ lock[k].waiting \in Nat
    BY <1>k, Facts, Moving
<1>2. \A i \in Inodes : OwnerTasks(i)' = OwnerTasks(i) /\ OwnerUsers(i)' = OwnerUsers(i)
    BY <1>0, <1>1 DEF OwnerTasks, Moved
<1>3. u \notin Waiters(k) /\ Waiters(k)' = Waiters(k) \cup {u}
    BY <1>k, <1>1 DEF Moved
<1>4. Cardinality(Waiters(k)') = Cardinality(Waiters(k)) + 1
    BY <1>1, <1>3, Counted, FS_AddElement
<1>5. /\ lock'[k].held = lock[k].held /\ lock'[k].waiting = lock[k].waiting + 1
      /\ \A i \in Inodes : i # k => lock'[i] = lock[i]
      /\ lock' \in [Inodes -> [held: BOOLEAN, waiting: Nat]]
    BY <1>k, <1>1, Facts
<1>6. Owned(k)'
  <2>1. OneOwner(k)'
    BY <1>1, <1>2, <1>5 DEF Owned, OneOwner
  <2> QED BY <2>1, <1>1, <1>4, <1>5 DEF Owned
<1>7. ASSUME NEW i \in Inodes, i # k PROVE Owned(i)'
  <2>1. Waiters(i)' = Waiters(i) /\ lock'[i] = lock[i]
    BY <1>1, <1>5, <1>7, <1>k, Elsewhere
  <2> QED BY <1>2, <2>1, Facts DEF Owned, OneOwner
<1> QED BY <1>5, <1>6, <1>7

-----------------------------------------------------------------------------
(* A load that is left to the pool.                                        *)

\* u leaves the load to a new task t.
Hands(u, x, t) ==
    /\ StepTo(u, x) /\ ~ Detached(u) /\ Detached(u)'
    /\ t \in TaskType /\ t.by = u /\ t.inode = I(u) /\ tasks' = tasks \cup {t}

\* The new task is the only one of its user, who asks for nothing any more.
LEMMA HandedDetached ==
    ASSUME StoreInv, NEW u \in Users, NEW x, NEW t, Hands(u, x, t)
    PROVE  /\ TasksDetached' /\ tasks' \in SUBSET TaskType
           /\ t \notin tasks /\ Cardinality(tasks') = Cardinality(tasks) + 1
<1>1. \A s \in tasks : s.by # u
    BY NoTask DEF Hands
<1>2. t \notin tasks
    BY <1>1 DEF Hands
<1>3. IsFiniteSet(tasks') /\ Cardinality(tasks') = Cardinality(tasks) + 1
    BY <1>2, Facts, FS_AddElement DEF Hands
<1>4. \A v \in Users : (Detached(v) => Detached(v)') /\ I(v)' = I(v)
    BY Facts DEF Hands, StepTo, Detached, Writes, Kind, I
<1>5. \A s \in tasks' : s.inode = I(s.by)' /\ Detached(s.by)'
  <2> SUFFICES ASSUME NEW s \in tasks' PROVE s.inode = I(s.by)' /\ Detached(s.by)'
    OBVIOUS
  <2>1. CASE s = t
    BY <1>4, <2>1 DEF Hands
  <2>2. CASE s \in tasks
    BY <1>4, <2>2, Facts DEF StoreInv, TasksDetached, TaskType
  <2> QED BY <2>1, <2>2 DEF Hands
<1>6. \A r, s \in tasks' : r.by = s.by => r = s
    BY <1>1 DEF Hands, StoreInv, TasksDetached
<1>7. tasks' \in SUBSET TaskType
    BY Facts DEF Hands
<1> QED BY <1>2, <1>3, <1>5, <1>6, <1>7 DEF TasksDetached

\* The space goes with the task.
LEMMA HandedSpace ==
    ASSUME StoreInv, NEW u \in Users, NEW x, NEW t, Hands(u, x, t),
           pc[u] \in Reserving, x \notin Reserving, reservedCap' = reservedCap
    PROVE  ReservedAccounted'
<1>1. Reservers' = Reservers \ {u} /\ u \in Reservers
    BY Facts DEF Hands, StepTo, Reservers
<1>2. Cardinality(Reservers') = Cardinality(Reservers) - 1
    BY <1>1, Counted, FS_RemoveElement
<1> QED BY <1>2, Counted, HandedDetached DEF StoreInv, ReservedAccounted

\* So does the lock, when the task has a copy of it.
LEMMA HandedLock ==
    ASSUME StoreInv, NEW u \in Users, NEW x, NEW t, Hands(u, x, t), t.locked = TRUE,
           pc[u] \in Owning, pc[u] # "wait", x \notin Owning, x # "wait", lock' = lock
    PROVE  \A i \in Inodes : Owned(i)'
<1>k. PICK k \in Inodes : k = I(u)
    BY Facts
<1>1. Owned(k) /\ Moved(u, x)
    BY Facts, Moving DEF Hands
<1>2. u \in OwnerUsers(k) /\ OwnerUsers(k)' = OwnerUsers(k) \ {u} /\ Waiters(k)' = Waiters(k)
    BY <1>k, <1>1 DEF Moved
<1>3. OwnerUsers(k)' = {} /\ OwnerTasks(k) = {} /\ lock[k].held
    BY <1>1, <1>2 DEF Owned, OneOwner
<1>4. OwnerTasks(k)' = {t}
    BY <1>k, <1>3 DEF OwnerTasks, Hands
<1>5. Owned(k)'
  <2>1. OneOwner(k)'
    BY <1>3, <1>4 DEF OneOwner
  <2> QED BY <2>1, <1>1, <1>2 DEF Owned
<1>6. ASSUME NEW i \in Inodes, i # k PROVE Owned(i)'
  <2>1. OwnerUsers(i)' = OwnerUsers(i) /\ Waiters(i)' = Waiters(i)
    BY <1>1, <1>6, <1>k, Elsewhere
  <2>2. OwnerTasks(i)' = OwnerTasks(i)
    BY <1>k, <1>6 DEF OwnerTasks, Hands
  <2> QED BY <2>1, <2>2, Facts DEF Owned, OneOwner
<1> QED BY <1>5, <1>6

-----------------------------------------------------------------------------
(* Steps of the pool.                                                      *)

\* A task that goes on stays the task of its user.
LEMMA TaskMoves ==
    ASSUME StoreInv, NEW t \in tasks, NEW to \in {"fetch", "insert", "free"}, Move(t, to),
           pc' = pc, job' = job, lock' = lock, reservedCap' = reservedCap
    PROVE  /\ TasksDetached' /\ tasks' \in SUBSET TaskType /\ ReservedAccounted'
           /\ \A i \in Inodes : Owned(i)'
<1> DEFINE n == [t EXCEPT !.at = to]
<1>1. t \in TaskType
    BY Facts
<1>2. n \in TaskType /\ n.by = t.by /\ n.inode = t.inode /\ n.locked = t.locked
    BY <1>1 DEF TaskType
<1>3. tasks' = (tasks \ {t}) \cup {n}
    BY DEF Move
<1> HIDE DEF n
<1>4. n \notin tasks \ {t}
  <2>1. \A s \in tasks : s.by = t.by => s = t
    BY DEF StoreInv, TasksDetached
  <2> QED BY <1>2, <2>1
<1>5. IsFiniteSet(tasks \ {t}) /\ Cardinality(tasks \ {t}) = Cardinality(tasks) - 1
    BY Facts, FS_RemoveElement
<1>6. IsFiniteSet(tasks') /\ Cardinality(tasks') = Cardinality(tasks)
  <2>1. /\ IsFiniteSet((tasks \ {t}) \cup {n})
        /\ Cardinality((tasks \ {t}) \cup {n}) = Cardinality(tasks \ {t}) + 1
    BY <1>4, <1>5, FS_AddElement
  <2>2. Cardinality(tasks) \in Nat
    BY Counted
  <2> QED BY <1>3, <1>5, <2>1, <2>2
<1>7. \A v \in Users : Detached(v)' = Detached(v) /\ I(v)' = I(v)
    BY DEF Detached, Writes, Kind, I
<1>8. \A s \in tasks' : s.inode = I(s.by)' /\ Detached(s.by)'
    BY <1>1, <1>2, <1>3, <1>7, Facts DEF StoreInv, TasksDetached, TaskType
<1>9. \A r, s \in tasks' : r.by = s.by => r = s
    BY <1>2, <1>3 DEF StoreInv, TasksDetached
<1>10. tasks' \in SUBSET TaskType
    BY <1>2, <1>3, Facts
<1>11. ReservedAccounted'
    BY <1>6 DEF StoreInv, ReservedAccounted, Reservers
<1>12. ASSUME NEW i \in Inodes PROVE Owned(i)'
  <2>1. OwnerUsers(i)' = OwnerUsers(i) /\ Waiters(i)' = Waiters(i)
    BY DEF OwnerUsers, Waiters, I
  <2>2. OwnerTasks(i)' = IF t.inode = i /\ t.locked THEN (OwnerTasks(i) \ {t}) \cup {n}
                                                   ELSE OwnerTasks(i)
    <3>1. CASE t.inode = i /\ t.locked
      BY <1>2, <1>3, <3>1 DEF OwnerTasks
    <3>2. CASE ~ (t.inode = i /\ t.locked)
      BY <1>2, <1>3, <3>2 DEF OwnerTasks
    <3> QED BY <3>1, <3>2
  <2>0. t \in OwnerTasks(i) <=> t.inode = i /\ t.locked
    BY DEF OwnerTasks
  <2>5. OneOwner(i)
    BY Facts DEF Owned
  <2>3. OneOwner(i)'
    <3>1. CASE t \in OwnerTasks(i)
      <4>1. (\A s \in OwnerTasks(i) : s = t) /\ OwnerUsers(i) = {} /\ lock[i].held
        BY <2>5, <3>1 DEF OneOwner
      <4>2. OwnerTasks(i)' = {n}
        BY <2>0, <2>2, <3>1, <4>1
      <4> QED BY <2>1, <4>1, <4>2 DEF OneOwner
    <3>2. CASE t \notin OwnerTasks(i)
      BY <2>0, <2>1, <2>2, <2>5, <3>2 DEF OneOwner
    <3> QED BY <3>1, <3>2
  <2> QED BY <2>1, <2>3, Facts DEF Owned
<1> QED BY <1>6, <1>8, <1>9, <1>10, <1>11, <1>12 DEF TasksDetached

\* A task that ends gives back its space, and its lock if it has one.
LEMMA TaskEnds ==
    ASSUME StoreInv, NEW t \in tasks, TaskFree(t)
    PROVE  /\ TasksDetached' /\ tasks' \in SUBSET TaskType /\ ReservedAccounted'
           /\ reservedCap' \in Nat
           /\ lock' \in [Inodes -> [held: BOOLEAN, waiting: Nat]]
           /\ \A i \in Inodes : Owned(i)'
<1>0. /\ tasks' = tasks \ {t} /\ reservedCap' = reservedCap - 1 /\ pc' = pc /\ job' = job
      /\ lock' = IF t.locked THEN [lock EXCEPT ![t.inode].held = FALSE] ELSE lock
    BY DEF TaskFree, FreePreAllocSpace, ReleaseFileLock, user
<1>1. t \in TaskType /\ t.inode \in Inodes
    BY Facts DEF TaskType
<1>2. /\ IsFiniteSet(tasks') /\ Cardinality(tasks') = Cardinality(tasks) - 1
      /\ Cardinality(tasks') \in Nat
    BY <1>0, Facts, FS_RemoveElement, FS_CardinalityType
<1>3. ReservedAccounted' /\ reservedCap' \in Nat
    BY <1>0, <1>2, Counted DEF StoreInv, ReservedAccounted, Reservers
<1>4. \A v \in Users : Detached(v)' = Detached(v) /\ I(v)' = I(v)
    BY <1>0 DEF Detached, Writes, Kind, I
<1>5. TasksDetached' /\ tasks' \in SUBSET TaskType
    BY <1>0, <1>2, <1>4, Facts DEF StoreInv, TasksDetached, TaskType
<1>6. /\ lock' \in [Inodes -> [held: BOOLEAN, waiting: Nat]]
      /\ \A i \in Inodes : /\ lock'[i].waiting = lock[i].waiting
                           /\ lock'[i].held = IF t.locked /\ i = t.inode THEN FALSE ELSE lock[i].held
    BY <1>0, <1>1, Facts
<1>7. ASSUME NEW i \in Inodes PROVE Owned(i)'
  <2>1. OwnerUsers(i)' = OwnerUsers(i) /\ Waiters(i)' = Waiters(i)
    BY <1>0 DEF OwnerUsers, Waiters, I
  <2>2. OwnerTasks(i)' = OwnerTasks(i) \ {t}
    BY <1>0 DEF OwnerTasks
  <2>4. t \in OwnerTasks(i) <=> t.locked /\ i = t.inode
    BY DEF OwnerTasks
  <2>3. OneOwner(i)'
    <3>1. CASE t \in OwnerTasks(i)
      <4>1. (\A s \in OwnerTasks(i) : s = t) /\ OwnerUsers(i) = {}
        BY <3>1, Facts DEF Owned, OneOwner
      <4>2. OwnerTasks(i)' = {} /\ OwnerUsers(i)' = {}
        BY <2>1, <2>2, <4>1
      <4>3. lock'[i].held = FALSE
        BY <1>6, <2>4, <3>1
      <4> QED BY <4>2, <4>3 DEF OneOwner
    <3>2. CASE t \notin OwnerTasks(i)
      <4>1. OwnerTasks(i)' = OwnerTasks(i) /\ lock'[i].held = lock[i].held
        BY <1>6, <2>2, <2>4, <3>2
      <4> QED BY <2>1, <4>1, Facts DEF Owned, OneOwner
    <3> QED BY <3>1, <3>2
  <2> QED BY <1>6, <2>1, <2>3, Facts DEF Owned
<1> QED BY <1>3, <1>5, <1>6, <1>7

-----------------------------------------------------------------------------
(* The types of files and users.                                           *)

\* What the typed files and users give each step.
LEMMA FileTypes ==
    ASSUME StoreInv
    PROVE  /\ FilesOK /\ pc \in [Users -> Steps] /\ tasks \in SUBSET TaskType
           /\ \A u \in Users : I(u) \in Inodes /\ fd[u] \in Nat /\ size[u] \in Nat
                               /\ answer[u] \in Contents /\ ret[u] \in Codes
           /\ \A i \in Inodes : /\ disk[i] \in [gen: Nat, data: Contents, blocks: Nat]
                                /\ object[i] \in Contents /\ gens[i] \in Nat
           /\ NoFile \in [gen: Nat, data: Contents, blocks: Nat]
           /\ {Empty, Old, Partial} \subseteq Contents /\ Users \subseteq Contents
<1>1. FilesOK
    BY DEF StoreInv, TypeOK
<1>2. NoFile \in [gen: Nat, data: Contents, blocks: Nat]
    BY DEF NoFile, Contents
<1> QED BY <1>1, <1>2, Facts DEF FilesOK, Contents

\* A removal, an eviction and a write by name leave a typed file system.
LEMMA DeleteType ==
    ASSUME StoreInv, NEW i \in Inodes, Delete(i) \/ DeleteOldCacheWithNoPin(i)
    PROVE  disk' \in [Inodes -> [gen: Nat, data: Contents, blocks: Nat]]
BY FileTypes DEF Delete, DeleteOldCacheWithNoPin, FilesOK

\* An eviction removes whole files.
LEMMA EvictType ==
    ASSUME StoreInv, NEW n, EvictItems(n)
    PROVE  disk' \in [Inodes -> [gen: Nat, data: Contents, blocks: Nat]]
BY FileTypes DEF EvictItems, FilesOK

\* A write through a descriptor reaches the file it was opened with, or none.
LEMMA WriteType ==
    ASSUME StoreInv, NEW i \in Inodes, NEW g, NEW d \in Contents, NEW n \in Nat,
           WriteGen(i, g, d, n)
    PROVE  disk' \in [Inodes -> [gen: Nat, data: Contents, blocks: Nat]]
<1>1. CASE disk[i].gen # g
    BY <1>1, FileTypes DEF WriteGen, FilesOK
<1>2. CASE disk[i].gen = g
  <2>1. disk' = [disk EXCEPT ![i] = [disk[i] EXCEPT !.data = d,
                                     !.blocks = IF n > disk[i].blocks THEN n ELSE disk[i].blocks]]
    BY <1>2, FileTypes DEF WriteGen, FilesOK
  <2>2. [disk[i] EXCEPT !.data = d,
                  !.blocks = IF n > disk[i].blocks THEN n ELSE disk[i].blocks]
            \in [gen: Nat, data: Contents, blocks: Nat]
    BY FileTypes
  <2> QED BY <2>1, <2>2, FileTypes DEF FilesOK
<1> QED BY <1>1, <1>2

\* Opening with O_CREAT makes a new generation or none.
LEMMA CreateType ==
    ASSUME StoreInv, NEW i \in Inodes, NEW d \in Contents, OpenCreate(i, d)
    PROVE  /\ disk' \in [Inodes -> [gen: Nat, data: Contents, blocks: Nat]]
           /\ gens' \in [Inodes -> Nat] /\ Opened(i) \in Nat
<1>1. [gen |-> gens[i] + 1, data |-> d, blocks |-> 0] \in [gen: Nat, data: Contents, blocks: Nat]
    BY FileTypes
<1>2. disk' \in [Inodes -> [gen: Nat, data: Contents, blocks: Nat]]
    BY <1>1, FileTypes DEF OpenCreate, FilesOK
<1> QED BY <1>2, FileTypes DEF OpenCreate, Opened, FilesOK

\* A load fills its file or removes the name.
LEMMA FetchType ==
    ASSUME StoreInv, NEW i \in Inodes, NEW g, Fetched(i, g) \/ NotFetched(i)
    PROVE  /\ disk' \in [Inodes -> [gen: Nat, data: Contents, blocks: Nat]]
           /\ failures' \in 0 .. MaxFailures
<1>1. CASE Fetched(i, g)
    BY <1>1, FileTypes, WriteType DEF Fetched, FilesOK
<1>2. CASE NotFetched(i)
    BY <1>2, FileTypes, StoreAssumptions DEF NotFetched, FilesOK
<1> QED BY <1>1, <1>2

\* PreAllocSpace tries three times and leaves its mutex to nobody or to itself.
LEMMA AllocType ==
    ASSUME StoreInv, NEW u \in Users, NEW yes, NEW no, PreAllocSpace(u, 1, yes, no)
    PROVE  /\ disk' \in [Inodes -> [gen: Nat, data: Contents, blocks: Nat]]
           /\ tries' \in [Users -> 0 .. 3] /\ allocMutex' \in Users \cup {Nobody}
<1>1. disk' \in [Inodes -> [gen: Nat, data: Contents, blocks: Nat]]
    BY FileTypes, EvictType DEF PreAllocSpace, CleanupForEvict, FilesOK
<1>2. tries' \in [Users -> 0 .. 3]
  <2>1. \/ tries' = [tries EXCEPT ![u] = 0]
        \/ tries[u] < 3 /\ tries' = [tries EXCEPT ![u] = tries[u] + 1]
    BY DEF PreAllocSpace
  <2>2. tries \in [Users -> 0 .. 3] /\ tries[u] \in 0 .. 3
    BY FileTypes DEF FilesOK
  <2> QED BY <2>1, <2>2
<1>3. allocMutex' \in Users \cup {Nobody}
    BY DEF PreAllocSpace
<1> QED BY <1>1, <1>2, <1>3

-----------------------------------------------------------------------------
(* What each step does.                                                    *)

\* A step of u that takes, waits for, gives back or hands over nothing.
Plain(u) ==
    /\ tasks' = tasks
    /\ \E x \in Steps : StepTo(u, x) /\ SameLock(u, x) /\ SameSpace(u, x)

\* A plain step keeps the invariant.
LEMMA PlainStep ==
    ASSUME StoreInv, NEW u \in Users, Plain(u), FilesOK'
    PROVE  StoreInv'
<1>1. PICK x \in Steps : StepTo(u, x) /\ SameLock(u, x) /\ SameSpace(u, x)
    BY DEF Plain
<1>2. tasks' = tasks
    BY DEF Plain
<1>3. TasksDetached' /\ ReservedAccounted' /\ \A i \in Inodes : Owned(i)'
    BY <1>1, <1>2, StillDetached, LockKept, SpaceKept
<1>4. ControlOK'
    BY <1>1, <1>2, Facts DEF ControlOK, StepTo, SameLock, SameSpace
<1> QED BY <1>3, <1>4 DEF StoreInv, TypeOK, Owned

\* Where a user has neither lock nor space.
Outside == {"start", "find", "hit", "missing", "load", "fetchsmall", "smalllock", "make",
            "insertnew", "io", "writefail", "flush", "put", "close", "delete", "delobject", "done"}

\* Most plain steps begin and end there.
LEMMA PlainOutside ==
    ASSUME StoreInv, NEW u \in Users, NEW x \in Outside, pc[u] \in Outside,
           pc' = [pc EXCEPT ![u] = x], Detached(u) => Detached(u)',
           job' = job, lock' = lock, tasks' = tasks, reservedCap' = reservedCap
    PROVE  Plain(u)
<1>1. /\ x \in Steps /\ x \notin Owning /\ x \notin Reserving /\ x # "wait"
      /\ pc[u] \notin Owning /\ pc[u] \notin Reserving /\ pc[u] # "wait"
    BY DEF Outside, Steps, Owning, Reserving
<1> QED BY <1>1 DEF Plain, StepTo, SameLock, SameSpace

\* The steps of opening.
LEMMA OpeningStep ==
    ASSUME StoreInv, NEW u \in Users, Opening(u)
    PROVE  StoreInv'
<1> USE FileTypes
<1>a. I(u) \in Inodes
    OBVIOUS
<1>1. CASE Begin(u)
  <2>1. Plain(u)
    <3>1. PICK x \in Outside : pc' = [pc EXCEPT ![u] = x]
      BY <1>1 DEF Begin, Goto, Outside
    <3> QED BY <1>1, <3>1, PlainOutside DEF Begin, Outside, Detached
  <2>2. disk' \in [Inodes -> [gen: Nat, data: Contents, blocks: Nat]]
    BY <1>1, DeleteType DEF Begin, FilesOK
  <2>3. FilesOK'
    BY <1>1, <2>2 DEF Begin, FilesOK
  <2> QED BY <2>1, <2>3, PlainStep
<1>2. CASE OpenFind(u)
  <2>1. Plain(u)
    <3>0. MissGoesTo(u) \in Outside
      BY DEF MissGoesTo, Outside
    <3>1. PICK x \in Outside : pc' = [pc EXCEPT ![u] = x]
      BY <1>2, <3>0 DEF OpenFind, Goto, Outside
    <3> QED BY <1>2, <3>1, PlainOutside DEF OpenFind, Outside, Detached, user
  <2>2. FilesOK'
    BY <1>2 DEF OpenFind, FilesOK, user
  <2> QED BY <2>1, <2>2, PlainStep
<1>3. CASE OpenMissing(u)
  <2>1. Plain(u)
    BY <1>3 DEF OpenMissing, End, Goto, Plain, StepTo, SameLock, SameSpace, Steps, Owning,
       Reserving, Detached, user, cache
  <2>2. FilesOK'
    BY <1>3 DEF OpenMissing, End, FilesOK, user, cache, Codes
  <2> QED BY <2>1, <2>2, PlainStep
<1>4. CASE OpenHit(u)
  <2>1. Plain(u)
    BY <1>4 DEF OpenHit, End, Goto, Plain, StepTo, SameLock, SameSpace, Steps, Owning,
       Reserving, Detached
  <2>2. FilesOK'
    <3>1. CASE disk[I(u)].gen = 0 /\ Kind(u) # "create"
      BY <1>4, <3>1 DEF OpenHit, End, FilesOK, Codes
    <3>2. CASE ~ (disk[I(u)].gen = 0 /\ Kind(u) # "create")
      <4>1. [gen |-> gens[I(u)] + 1, data |-> Empty, blocks |-> 0]
                \in [gen: Nat, data: Contents, blocks: Nat]
        OBVIOUS
      <4>2. disk' \in [Inodes -> [gen: Nat, data: Contents, blocks: Nat]]
        BY <1>4, <3>2, <4>1 DEF OpenHit, FilesOK
      <4>3. fd' \in [Users -> Nat] /\ gens' \in [Inodes -> Nat]
        <5>1. disk[I(u)].gen \in Nat /\ gens[I(u)] \in Nat
          OBVIOUS
        <5>2. PICK n \in Nat : fd' = [fd EXCEPT ![u] = n]
          BY <1>4, <3>2, <5>1 DEF OpenHit
        <5>0. fd \in [Users -> Nat] /\ gens \in [Inodes -> Nat]
          BY DEF FilesOK
        <5>3. fd' \in [Users -> Nat]
          BY <5>0, <5>2
        <5>4. PICK m \in Nat : gens' = [gens EXCEPT ![I(u)] = m]
          BY <1>4, <3>2, <5>1 DEF OpenHit
        <5>5. gens' \in [Inodes -> Nat]
          BY <5>0, <1>a, <5>4
        <5> QED BY <5>3, <5>5
      <4> QED BY <1>4, <3>2, <4>2, <4>3 DEF OpenHit, FilesOK
    <3> QED BY <3>1, <3>2
  <2> QED BY <2>1, <2>2, PlainStep
<1>5. CASE SmallHit(u)
  <2>1. Plain(u)
    BY <1>5 DEF SmallHit, End, Goto, Plain, StepTo, SameLock, SameSpace, Steps, Owning,
       Reserving, Detached, user
  <2>2. FilesOK'
    BY <1>5 DEF SmallHit, End, FilesOK, Codes, user
  <2> QED BY <2>1, <2>2, PlainStep
<1>6. CASE Make(u)
  <2>1. Plain(u)
    <3>1. PICK x \in Outside : pc' = [pc EXCEPT ![u] = x]
      BY <1>6 DEF Make, Goto, Outside
    <3> QED BY <1>6, <3>1, PlainOutside DEF Make, Outside, Detached, cache
  <2>2. OpenCreate(I(u), Empty) /\ Empty \in Contents
    BY <1>6 DEF Make
  <2>3. /\ disk' \in [Inodes -> [gen: Nat, data: Contents, blocks: Nat]]
        /\ gens' \in [Inodes -> Nat] /\ Opened(I(u)) \in Nat
    BY <1>a, <2>2, CreateType
  <2>4. FilesOK'
    BY <1>6, <2>3 DEF Make, FilesOK, cache
  <2> QED BY <2>1, <2>4, PlainStep
<1>7. CASE InsertNew(u)
  <2>1. Plain(u)
    BY <1>7 DEF InsertNew, Goto, Plain, StepTo, SameLock, SameSpace, Steps, Owning,
       Reserving, Detached, user
  <2>2. FilesOK'
    BY <1>7 DEF InsertNew, FilesOK, user
  <2> QED BY <2>1, <2>2, PlainStep
<1> QED BY <1>1, <1>2, <1>3, <1>4, <1>5, <1>6, <1>7 DEF Opening

\* A load that returns goes outside, and to the pool's users if it was not
\* waited for.
LEMMA LoadReturns ==
    ASSUME StoreInv, NEW u \in Users, AfterLoad(u), job' = job
    PROVE  /\ \E x \in Outside : pc' = [pc EXCEPT ![u] = x]
           /\ ret' \in [Users -> Codes] /\ phase' = phase
           /\ ~ IsSync(u) => Detached(u)'
<1>1. \E x \in Outside : pc' = [pc EXCEPT ![u] = x]
    BY DEF AfterLoad, End, Goto, Outside
<1>2. ret' \in [Users -> Codes]
    BY FileTypes DEF AfterLoad, End, FilesOK, Codes
<1>3. ~ IsSync(u) => Detached(u)'
  <2>1. ~ IsSync(u) => pc'[u] \in {"done", "io"}
    BY FileTypes DEF AfterLoad, End, Goto
  <2>2. Writes(u)' = Writes(u)
    BY DEF Writes, Kind
  <2> QED BY <2>1, <2>2 DEF Detached, IsSync
<1> QED BY <1>1, <1>2, <1>3 DEF AfterLoad

\* Outside are neither owners, nor reservers, nor waiters.
LEMMA OutsideIs ==
    ASSUME NEW x \in Outside
    PROVE  x \in Steps /\ x \notin Owning /\ x \notin Reserving /\ x # "wait"
BY DEF Outside, Steps, Owning, Reserving

\* The owner of a lock has not left its load to the pool.
LEMMA OwningIs ==
    ASSUME NEW u, pc[u] \in Owning
    PROVE  ~ Detached(u) /\ pc[u] # "wait"
BY DEF Owning, Detached

\* The parts of the invariant after a step.
LEMMA Together ==
    ASSUME StoreInv, NEW u \in Users, NEW x, StepTo(u, x), FilesOK', TasksDetached',
           tasks' \in SUBSET TaskType, ReservedAccounted', reservedCap' \in Nat,
           lock' \in [Inodes -> [held: BOOLEAN, waiting: Nat]], \A i \in Inodes : Owned(i)'
    PROVE  StoreInv'
<1>1. ControlOK'
    BY Facts DEF ControlOK, StepTo
<1> QED BY <1>1 DEF StoreInv, TypeOK, Owned

\* A user that gives the lock back and goes outside, with the space it had.
LEMMA Leaving ==
    ASSUME StoreInv, NEW u \in Users, NEW x \in Outside, pc' = [pc EXCEPT ![u] = x],
           job' = job, tasks' = tasks, FilesOK', pc[u] \in Owning, ReleaseFileLock(I(u)),
           \/ pc[u] \notin Reserving /\ reservedCap' = reservedCap
           \/ pc[u] \in Reserving /\ reservedCap' = reservedCap - 1
    PROVE  StoreInv'
<1>1. /\ x \in Steps /\ x \notin Owning /\ x \notin Reserving /\ x # "wait"
      /\ ~ Detached(u) /\ pc[u] # "wait"
    BY OutsideIs, OwningIs
<1>2. StepTo(u, x)
    BY <1>1 DEF StepTo
<1>3. TasksDetached' /\ tasks' \in SUBSET TaskType
    BY <1>2, StillDetached, Facts
<1>4. \A i \in Inodes : OwnerTasks(i)' = OwnerTasks(i)
    BY DEF OwnerTasks
<1>5. /\ \A i \in Inodes : Owned(i)'
      /\ lock' \in [Inodes -> [held: BOOLEAN, waiting: Nat]]
    BY <1>1, <1>2, <1>4, LockGiven DEF ReleaseFileLock
<1>6. ReservedAccounted' /\ reservedCap' \in Nat
  <2>1. CASE pc[u] \notin Reserving /\ reservedCap' = reservedCap
    BY <1>1, <1>2, <2>1, SpaceKept, Facts DEF SameSpace
  <2>2. CASE pc[u] \in Reserving /\ reservedCap' = reservedCap - 1
    BY <1>1, <1>2, <2>2, SpaceGiven
  <2> QED BY <2>1, <2>2
<1> QED BY <1>2, <1>3, <1>5, <1>6, Together

\* A user that takes the free lock.
LEMMA Taking ==
    ASSUME StoreInv, NEW u \in Users, NEW x \in {"loadfind", "smallfind"},
           pc' = [pc EXCEPT ![u] = x], job' = job, tasks' = tasks, reservedCap' = reservedCap,
           FilesOK', pc[u] \in {"load", "smalllock", "wait"}, ~ lock[I(u)].held,
           \/ pc[u] # "wait" /\ lock' = [lock EXCEPT ![I(u)].held = TRUE]
           \/ /\ pc[u] = "wait"
              /\ lock' = [lock EXCEPT ![I(u)] = [held |-> TRUE, waiting |-> @.waiting - 1]]
    PROVE  StoreInv'
<1>1. /\ x \in Steps /\ x \in Owning /\ x \notin Reserving /\ x # "wait" /\ ~ Detached(u)
      /\ pc[u] \notin Owning /\ pc[u] \notin Reserving
    BY DEF Steps, Owning, Reserving, Detached
<1>2. StepTo(u, x) /\ SameSpace(u, x)
    BY <1>1 DEF StepTo, SameSpace
<1>3. TasksDetached' /\ tasks' \in SUBSET TaskType /\ ReservedAccounted' /\ reservedCap' \in Nat
    BY <1>2, StillDetached, SpaceKept, Facts
<1>4. /\ \A i \in Inodes : Owned(i)'
      /\ lock' \in [Inodes -> [held: BOOLEAN, waiting: Nat]]
    BY <1>1, <1>2, LockTaken
<1> QED BY <1>2, <1>3, <1>4, Together

\* PreAllocSpace: it has the space, tries again, or gives up.
LEMMA Allocating ==
    ASSUME StoreInv, NEW u \in Users, NEW yes \in Steps, NEW no \in Steps,
           PreAllocSpace(u, 1, yes, no), job' = job, tasks' = tasks, lock' = lock, FilesOK',
           ~ Detached(u), pc[u] \notin Reserving, yes \in Reserving, no \notin Reserving,
           pc[u] # "wait", yes # "wait", no # "wait",
           yes \in Owning <=> pc[u] \in Owning, no \in Owning <=> pc[u] \in Owning
    PROVE  StoreInv'
<1>1. CASE reservedCap' = reservedCap + 1 /\ pc' = [pc EXCEPT ![u] = yes]
  <2>1. StepTo(u, yes) /\ SameLock(u, yes)
    BY <1>1 DEF StepTo, SameLock
  <2>2. /\ TasksDetached' /\ tasks' \in SUBSET TaskType
        /\ ReservedAccounted' /\ reservedCap' \in Nat
        /\ \A i \in Inodes : Owned(i)'
        /\ lock' \in [Inodes -> [held: BOOLEAN, waiting: Nat]]
    BY <1>1, <2>1, StillDetached, SpaceTaken, LockKept, Facts
  <2> QED BY <2>1, <2>2, Together
<1>2. CASE reservedCap' = reservedCap /\ pc' = [pc EXCEPT ![u] = no]
  <2>1. Plain(u)
    BY <1>2 DEF Plain, StepTo, SameLock, SameSpace
  <2> QED BY <2>1, PlainStep
<1>3. CASE reservedCap' = reservedCap /\ pc' = pc
  <2>0. pc[u] \in Steps /\ pc' = [pc EXCEPT ![u] = pc[u]]
    BY <1>3, Facts
  <2>1. Plain(u)
    BY <1>3, <2>0 DEF Plain, StepTo, SameLock, SameSpace
  <2> QED BY <2>1, PlainStep
<1> QED BY <1>1, <1>2, <1>3 DEF PreAllocSpace

-----------------------------------------------------------------------------
(* Loading.                                                                *)

\* innerGetFileLock takes the lock, waits for it or gives up.
LEMMA InnerGetFileLockStep ==
    ASSUME StoreInv, NEW u \in Users, InnerGetFileLock(u)
    PROVE  StoreInv'
<1>0. /\ pc[u] = "load" /\ job' = job /\ tasks' = tasks /\ reservedCap' = reservedCap
      /\ ~ Detached(u)
    BY DEF InnerGetFileLock, cache, Detached
<1>1. CASE /\ ~ lock[I(u)].held /\ lock' = [lock EXCEPT ![I(u)].held = TRUE]
           /\ Goto(u, "loadfind") /\ UNCHANGED <<phase, ret>>
  <2>1. FilesOK'
    BY <1>1, FileTypes DEF InnerGetFileLock, FilesOK, cache
  <2> QED BY <1>0, <1>1, <2>1, Taking DEF Goto
<1>2. CASE /\ lock' = [lock EXCEPT ![I(u)].waiting = @ + 1]
           /\ Goto(u, "wait") /\ UNCHANGED <<phase, ret>>
  <2>1. FilesOK'
    BY <1>2, FileTypes DEF InnerGetFileLock, FilesOK, cache
  <2>2. /\ "wait" \in Steps /\ "wait" \notin Reserving /\ pc[u] \notin Owning
        /\ pc[u] \notin Reserving
    BY <1>0 DEF Steps, Owning, Reserving
  <2>3. StepTo(u, "wait") /\ SameSpace(u, "wait")
    BY <1>0, <1>2, <2>2 DEF StepTo, SameSpace, Goto
  <2>4. /\ TasksDetached' /\ tasks' \in SUBSET TaskType
        /\ ReservedAccounted' /\ reservedCap' \in Nat
    BY <1>0, <2>3, StillDetached, SpaceKept, Facts
  <2>5. /\ \A i \in Inodes : Owned(i)'
        /\ lock' \in [Inodes -> [held: BOOLEAN, waiting: Nat]]
    BY <1>0, <1>2, <2>2, <2>3, LockAwaited
  <2> QED BY <2>1, <2>3, <2>4, <2>5, Together
<1>3. CASE AfterLoad(u) /\ UNCHANGED lock
  <2>1. PICK x \in Outside : pc' = [pc EXCEPT ![u] = x]
    BY <1>0, <1>3, LoadReturns
  <2>2. ret' \in [Users -> Codes] /\ phase' = phase
    BY <1>0, <1>3, LoadReturns
  <2>3. FilesOK'
    BY <2>2, FileTypes DEF InnerGetFileLock, FilesOK, cache
  <2>4. Plain(u)
    BY <1>0, <1>3, <2>1, PlainOutside DEF Outside
  <2> QED BY <2>3, <2>4, PlainStep
<1> QED BY <1>1, <1>2, <1>3 DEF InnerGetFileLock

\* The steps that take the lock, keep it to look, or give it back.
LEMMA LockingStep ==
    ASSUME StoreInv, NEW u \in Users,
           \/ WaitGetFileLock(u) \/ LoadFind(u) \/ LoadNoSpace(u) \/ SmallLock(u) \/ SmallFind(u)
    PROVE  StoreInv'
<1>1. CASE WaitGetFileLock(u)
  <2>1. FilesOK'
    BY <1>1, FileTypes DEF WaitGetFileLock, FilesOK, cache, user
  <2> QED BY <1>1, <2>1, Taking DEF WaitGetFileLock, Goto, cache, user
<1>2. CASE LoadFind(u)
  <2>0. /\ pc[u] = "loadfind" /\ pc[u] \in Owning /\ pc[u] \notin Reserving /\ job' = job
        /\ tasks' = tasks /\ reservedCap' = reservedCap /\ ~ Detached(u)
    BY <1>2 DEF LoadFind, Owning, Reserving, Detached
  <2>1. CASE AfterLoad(u) /\ ReleaseFileLock(I(u))
    <3>1. PICK x \in Outside : pc' = [pc EXCEPT ![u] = x]
      BY <2>0, <2>1, LoadReturns
    <3>2. ret' \in [Users -> Codes] /\ phase' = phase
      BY <2>0, <2>1, LoadReturns
    <3>3. FilesOK'
      BY <1>2, <3>2, FileTypes DEF LoadFind, FilesOK
    <3> QED BY <2>0, <2>1, <3>1, <3>3, Leaving
  <2>2. CASE Goto(u, "loadalloc") /\ UNCHANGED <<phase, ret, lock>>
    <3>1. FilesOK'
      BY <1>2, <2>2, FileTypes DEF LoadFind, FilesOK
    <3>2. "loadalloc" \in Steps /\ "loadalloc" \in Owning /\ "loadalloc" \notin Reserving
      BY DEF Steps, Owning, Reserving
    <3>3. Plain(u)
      BY <2>0, <2>2, <3>2 DEF Goto, Plain, StepTo, SameLock, SameSpace
    <3> QED BY <3>1, <3>3, PlainStep
  <2> QED BY <1>2, <2>1, <2>2 DEF LoadFind
<1>3. CASE LoadNoSpace(u)
  <2>1. FilesOK'
    BY <1>3, FileTypes DEF LoadNoSpace, End, FilesOK, Codes, cache, user
  <2>2. /\ pc[u] \in Owning /\ pc[u] \notin Reserving /\ pc' = [pc EXCEPT ![u] = "done"]
        /\ "done" \in Outside /\ ReleaseFileLock(I(u))
        /\ job' = job /\ tasks' = tasks /\ reservedCap' = reservedCap
    BY <1>3 DEF LoadNoSpace, Owning, Reserving, Outside, End, Goto, cache, user
  <2> QED BY <2>1, <2>2, Leaving
<1>4. CASE SmallLock(u)
  <2>1. FilesOK'
    BY <1>4, FileTypes DEF SmallLock, End, FilesOK, Codes, cache, user
  <2>0. /\ pc[u] = "smalllock" /\ job' = job /\ tasks' = tasks /\ reservedCap' = reservedCap
        /\ ~ Detached(u)
    BY <1>4 DEF SmallLock, Detached, cache, user
  <2>2. CASE lock[I(u)].held
    <3>1. pc' = [pc EXCEPT ![u] = "done"] /\ lock' = lock /\ "done" \in Outside
      BY <1>4, <2>2 DEF SmallLock, End, Goto, Outside
    <3>2. Plain(u)
      BY <2>0, <3>1, PlainOutside DEF Outside
    <3> QED BY <2>1, <3>2, PlainStep
  <2>3. CASE ~ lock[I(u)].held
    <3>1. /\ pc' = [pc EXCEPT ![u] = "smallfind"]
          /\ lock' = [lock EXCEPT ![I(u)].held = TRUE]
      BY <1>4, <2>3 DEF SmallLock, Goto
    <3> QED BY <2>0, <2>1, <2>3, <3>1, Taking
  <2> QED BY <2>2, <2>3
<1>5. CASE SmallFind(u)
  <2>1. FilesOK'
    BY <1>5, FileTypes DEF SmallFind, End, FilesOK, Codes, cache, user
  <2>0. /\ pc[u] = "smallfind" /\ pc[u] \in Owning /\ pc[u] \notin Reserving /\ job' = job
        /\ tasks' = tasks /\ reservedCap' = reservedCap /\ ~ Detached(u)
    BY <1>5 DEF SmallFind, Owning, Reserving, Detached, cache, user
  <2>2. CASE InCache(I(u))
    <3>1. pc' = [pc EXCEPT ![u] = "done"] /\ "done" \in Outside /\ ReleaseFileLock(I(u))
      BY <1>5, <2>2 DEF SmallFind, End, Goto, Outside
    <3> QED BY <2>0, <2>1, <3>1, Leaving
  <2>3. CASE ~ InCache(I(u))
    <3>1. /\ pc' = [pc EXCEPT ![u] = "smallalloc"] /\ lock' = lock
          /\ "smallalloc" \in Steps /\ "smallalloc" \in Owning /\ "smallalloc" \notin Reserving
      BY <1>5, <2>3 DEF SmallFind, Goto, Steps, Owning, Reserving
    <3>2. Plain(u)
      BY <2>0, <3>1 DEF Plain, StepTo, SameLock, SameSpace
    <3> QED BY <2>1, <3>2, PlainStep
  <2> QED BY <2>2, <2>3
<1> QED BY <1>1, <1>2, <1>3, <1>4, <1>5

\* The three places that ask for space.
LEMMA AllocStep ==
    ASSUME StoreInv, NEW u \in Users, LoadAlloc(u) \/ SmallAlloc(u) \/ WriteAlloc(u)
    PROVE  StoreInv'
<1>1. /\ disk' \in [Inodes -> [gen: Nat, data: Contents, blocks: Nat]]
      /\ tries' \in [Users -> 0 .. 3] /\ allocMutex' \in Users \cup {Nobody}
    BY AllocType DEF LoadAlloc, SmallAlloc, WriteAlloc
<1>2. FilesOK' /\ job' = job /\ tasks' = tasks /\ lock' = lock
    BY <1>1, FileTypes DEF LoadAlloc, SmallAlloc, WriteAlloc, FilesOK
<1>3. CASE LoadAlloc(u)
  <2>1. /\ ~ Detached(u) /\ pc[u] \in Owning /\ pc[u] \notin Reserving /\ pc[u] # "wait"
        /\ "loadopen" \in Steps /\ "nospace" \in Steps
        /\ "loadopen" \in Owning /\ "nospace" \in Owning
        /\ "loadopen" \in Reserving /\ "nospace" \notin Reserving
    BY <1>3 DEF LoadAlloc, Detached, Steps, Owning, Reserving
  <2>2. PreAllocSpace(u, 1, "loadopen", "nospace")
    BY <1>3 DEF LoadAlloc
  <2> QED BY <1>2, <2>1, <2>2, Allocating
<1>4. CASE SmallAlloc(u)
  <2>1. /\ ~ Detached(u) /\ pc[u] \in Owning /\ pc[u] \notin Reserving /\ pc[u] # "wait"
        /\ "smallopen" \in Steps /\ "nospace" \in Steps
        /\ "smallopen" \in Owning /\ "nospace" \in Owning
        /\ "smallopen" \in Reserving /\ "nospace" \notin Reserving
    BY <1>4 DEF SmallAlloc, Detached, Steps, Owning, Reserving
  <2>2. PreAllocSpace(u, 1, "smallopen", "nospace")
    BY <1>4 DEF SmallAlloc
  <2> QED BY <1>2, <2>1, <2>2, Allocating
<1>5. CASE WriteAlloc(u)
  <2>1. /\ ~ Detached(u) /\ pc[u] \notin Owning /\ pc[u] \notin Reserving /\ pc[u] # "wait"
        /\ "pwrite" \in Steps /\ "writefail" \in Steps
        /\ "pwrite" \notin Owning /\ "writefail" \notin Owning
        /\ "pwrite" \in Reserving /\ "writefail" \notin Reserving
    BY <1>5 DEF WriteAlloc, Detached, Steps, Owning, Reserving
  <2>2. PreAllocSpace(u, 1, "pwrite", "writefail")
    BY <1>5 DEF WriteAlloc
  <2> QED BY <1>2, <2>1, <2>2, Allocating
<1> QED BY <1>3, <1>4, <1>5

\* The cache file is opened for a load, which goes on or is left to the pool.
LEMMA OpeningForLoad ==
    ASSUME StoreInv, NEW u \in Users, LoadOpen(u) \/ SmallOpen(u)
    PROVE  StoreInv'
<1>0. /\ pc[u] \in {"loadopen", "smallopen"} /\ job' = job /\ reservedCap' = reservedCap
      /\ pc[u] \in Owning /\ pc[u] \in Reserving /\ ~ Detached(u) /\ pc[u] # "wait"
    BY DEF LoadOpen, SmallOpen, Owning, Reserving, Detached, cache, user
<1>1. OpenCreate(I(u), Partial) /\ I(u) \in Inodes /\ Partial \in Contents
    BY FileTypes DEF LoadOpen, SmallOpen
<1>2. /\ disk' \in [Inodes -> [gen: Nat, data: Contents, blocks: Nat]]
      /\ gens' \in [Inodes -> Nat] /\ Opened(I(u)) \in Nat
    BY <1>1, CreateType
<1>3. CASE LoadOpen(u) /\ IsSync(u)
  <2>4. fd' = [fd EXCEPT ![u] = Opened(I(u))] /\ phase' = phase /\ ret' = ret
    BY <1>3 DEF LoadOpen
  <2>0. fd' \in [Users -> Nat] /\ phase' = phase /\ ret' = ret
    BY <1>2, <2>4, FileTypes DEF FilesOK
  <2>1. FilesOK'
    BY <1>2, <1>3, <2>0, FileTypes DEF LoadOpen, FilesOK, cache
  <2>2. /\ pc' = [pc EXCEPT ![u] = "loadfetch"] /\ lock' = lock /\ tasks' = tasks
        /\ "loadfetch" \in Steps /\ "loadfetch" \in Owning /\ "loadfetch" \in Reserving
    BY <1>3 DEF LoadOpen, Goto, Steps, Owning, Reserving
  <2>3. Plain(u)
    BY <1>0, <2>2 DEF Plain, StepTo, SameLock, SameSpace
  <2> QED BY <2>1, <2>3, PlainStep
<1>4. CASE LoadOpen(u) /\ ~ IsSync(u)
  <2> DEFINE t == Task(u, Partial, FALSE)
  <2>1. /\ tasks' = tasks \cup {t} /\ ReleaseFileLock(I(u)) /\ AfterLoad(u) /\ fd' = fd
    BY <1>4 DEF LoadOpen
  <2>2. t \in TaskType /\ t.by = u /\ t.inode = I(u) /\ t.locked = FALSE
    BY <1>1, <1>2 DEF Task, TaskType
  <2> HIDE DEF t
  <2>3. PICK x \in Outside : pc' = [pc EXCEPT ![u] = x]
    BY <1>0, <2>1, LoadReturns
  <2>4. ret' \in [Users -> Codes] /\ phase' = phase /\ Detached(u)'
    BY <1>0, <1>4, <2>1, LoadReturns
  <2>5. FilesOK'
    BY <1>2, <1>4, <2>1, <2>4, FileTypes DEF LoadOpen, FilesOK, cache
  <2>6. x \in Steps /\ x \notin Owning /\ x \notin Reserving /\ x # "wait"
    BY OutsideIs
  <2>7. StepTo(u, x) /\ Hands(u, x, t)
    BY <1>0, <2>1, <2>2, <2>3, <2>4, <2>6 DEF StepTo, Hands
  <2>8. TasksDetached' /\ tasks' \in SUBSET TaskType
    BY <2>7, HandedDetached
  <2>9. ReservedAccounted' /\ reservedCap' \in Nat
    BY <1>0, <2>6, <2>7, HandedSpace, Facts
  <2>10. \A i \in Inodes : OwnerTasks(i)' = OwnerTasks(i)
    BY <2>1, <2>2 DEF OwnerTasks
  <2>11. /\ \A i \in Inodes : Owned(i)'
         /\ lock' \in [Inodes -> [held: BOOLEAN, waiting: Nat]]
    BY <1>0, <2>1, <2>6, <2>7, <2>10, LockGiven DEF ReleaseFileLock
  <2> QED BY <2>5, <2>7, <2>8, <2>9, <2>11, Together
<1>5. CASE SmallOpen(u)
  <2> DEFINE t == Task(u, answer[u], TRUE)
  <2>1. /\ tasks' = tasks \cup {t} /\ pc' = [pc EXCEPT ![u] = "done"] /\ lock' = lock
    BY <1>5 DEF SmallOpen, End, Goto
  <2>2. t \in TaskType /\ t.by = u /\ t.inode = I(u) /\ t.locked = TRUE
    BY <1>1, <1>2, FileTypes DEF Task, TaskType
  <2> HIDE DEF t
  <2>3. FilesOK'
    BY <1>2, <1>5, FileTypes DEF SmallOpen, End, FilesOK, Codes, cache, user
  <2>4. /\ "done" \in Steps /\ "done" \notin Owning /\ "done" \notin Reserving
    BY DEF Steps, Owning, Reserving
  <2>5. Detached(u)'
    BY <2>1, Facts DEF Detached
  <2>6. StepTo(u, "done") /\ Hands(u, "done", t)
    BY <1>0, <2>1, <2>2, <2>4, <2>5 DEF StepTo, Hands
  <2>7. /\ TasksDetached' /\ tasks' \in SUBSET TaskType
        /\ ReservedAccounted' /\ reservedCap' \in Nat
    BY <1>0, <2>4, <2>6, HandedDetached, HandedSpace, Facts
  <2>8. /\ \A i \in Inodes : Owned(i)'
        /\ lock' \in [Inodes -> [held: BOOLEAN, waiting: Nat]]
    BY <1>0, <2>1, <2>2, <2>4, <2>6, HandedLock, Facts
  <2> QED BY <2>3, <2>6, <2>7, <2>8, Together
<1> QED BY <1>3, <1>4, <1>5

\* The load itself, its failure and its end.
LEMMA FetchingStep ==
    ASSUME StoreInv, NEW u \in Users,
           LoadFetch(u) \/ LoadInsert(u) \/ LoadFree(u) \/ FetchSmall(u)
    PROVE  StoreInv'
<1>1. CASE LoadFetch(u)
  <2>1. /\ pc[u] = "loadfetch" /\ pc[u] \in Owning /\ pc[u] \in Reserving /\ ~ Detached(u)
        /\ job' = job /\ tasks' = tasks /\ reservedCap' = reservedCap /\ lock' = lock
    BY <1>1 DEF LoadFetch, Owning, Reserving, Detached, cache, user
  <2>2. PICK x \in {"loadinsert", "loadfree"} : pc' = [pc EXCEPT ![u] = x]
    BY <1>1 DEF LoadFetch, Goto
  <2>3. x \in Steps /\ x \in Owning /\ x \in Reserving /\ x # "wait"
    BY DEF Steps, Owning, Reserving
  <2>4. Plain(u)
    BY <2>1, <2>2, <2>3 DEF Plain, StepTo, SameLock, SameSpace
  <2>5. /\ disk' \in [Inodes -> [gen: Nat, data: Contents, blocks: Nat]]
        /\ failures' \in 0 .. MaxFailures
    BY <1>1, FileTypes, FetchType DEF LoadFetch
  <2>6. FilesOK'
    BY <1>1, <2>5, FileTypes DEF LoadFetch, FilesOK, Codes, cache, user
  <2> QED BY <2>4, <2>6, PlainStep
<1>2. CASE LoadInsert(u)
  <2>1. FilesOK'
    BY <1>2, FileTypes DEF LoadInsert, FilesOK, user
  <2>2. Plain(u)
    BY <1>2 DEF LoadInsert, Goto, Plain, StepTo, SameLock, SameSpace, Steps, Owning, Reserving,
       Detached, user
  <2> QED BY <2>1, <2>2, PlainStep
<1>3. CASE LoadFree(u)
  <2>1. /\ pc[u] \in Owning /\ pc[u] \in Reserving /\ job' = job /\ tasks' = tasks
        /\ ReleaseFileLock(I(u)) /\ reservedCap' = reservedCap - 1
    BY <1>3 DEF LoadFree, FreePreAllocSpace, Owning, Reserving
  <2>2. /\ \E x \in Outside : pc' = [pc EXCEPT ![u] = x]
        /\ ret' \in [Users -> Codes] /\ phase' = phase
    <3>1. CASE ret[u] = "EIO"
      BY <1>3, <3>1, FileTypes DEF LoadFree, Goto, Outside, FilesOK
    <3>2. CASE ret[u] # "EIO"
      BY <1>3, <2>1, <3>2, LoadReturns DEF LoadFree
    <3> QED BY <3>1, <3>2
  <2>3. PICK x \in Outside : pc' = [pc EXCEPT ![u] = x]
    BY <2>2
  <2>4. FilesOK'
    BY <1>3, <2>2, FileTypes DEF LoadFree, FilesOK
  <2> QED BY <2>1, <2>3, <2>4, Leaving
<1>4. CASE FetchSmall(u)
  <2>0. failures' \in 0 .. MaxFailures
    BY <1>4, FileTypes, StoreAssumptions DEF FetchSmall, FilesOK
  <2>5. ret' \in [Users -> Codes] /\ answer' \in [Users -> Contents]
    BY <1>4, FileTypes DEF FetchSmall, End, FilesOK, Codes
  <2>1. FilesOK'
    BY <1>4, <2>0, <2>5, FileTypes DEF FetchSmall, FilesOK, cache, user
  <2>2. PICK x \in Outside : pc' = [pc EXCEPT ![u] = x]
    BY <1>4 DEF FetchSmall, End, Goto, Outside
  <2>3. /\ pc[u] \in Outside /\ ~ Detached(u) /\ job' = job /\ lock' = lock /\ tasks' = tasks
        /\ reservedCap' = reservedCap
    BY <1>4 DEF FetchSmall, Outside, Detached, cache, user
  <2>4. Plain(u)
    BY <2>2, <2>3, PlainOutside
  <2> QED BY <2>1, <2>4, PlainStep
<1> QED BY <1>1, <1>2, <1>3, <1>4

-----------------------------------------------------------------------------
(* Using the file.                                                         *)

\* A write between its reservation and its return.
LEMMA WritingStep ==
    ASSUME StoreInv, NEW u \in Users,
           \/ Pwrite(u) \/ PersistToFileAdd(u) \/ WriteLocalFileForBrpcUpdate(u) \/ WriteFree(u)
    PROVE  StoreInv'
<1>1. CASE Pwrite(u)
  <2>1. Plain(u)
    BY <1>1 DEF Pwrite, Goto, Plain, StepTo, SameLock, SameSpace, Steps, Owning, Reserving,
       Detached, cache, user
  <2>2. WriteGen(I(u), fd[u], u, size[u] + 1) /\ I(u) \in Inodes /\ u \in Contents
        /\ size[u] + 1 \in Nat
    BY <1>1, FileTypes DEF Pwrite
  <2>3. disk' \in [Inodes -> [gen: Nat, data: Contents, blocks: Nat]]
    BY <2>2, WriteType
  <2>4. wrote' \in [Inodes -> [gen: Nat, data: Contents]]
    BY <1>1, <2>2, FileTypes DEF Pwrite, FilesOK
  <2>5. FilesOK'
    BY <1>1, <2>3, <2>4, FileTypes DEF Pwrite, FilesOK, cache, user
  <2> QED BY <2>1, <2>5, PlainStep
<1>2. CASE PersistToFileAdd(u) \/ WriteLocalFileForBrpcUpdate(u)
  <2>1. /\ pc[u] = "add" /\ pc' = [pc EXCEPT ![u] = "writefree"] /\ job' = job /\ tasks' = tasks
        /\ lock' = lock /\ reservedCap' = reservedCap
    BY <1>2 DEF PersistToFileAdd, WriteLocalFileForBrpcUpdate, Goto
  <2>2. Plain(u)
    BY <2>1 DEF Plain, StepTo, SameLock, SameSpace, Steps, Owning, Reserving, Detached
  <2>5. /\ ret' = ret \/ ret' = [ret EXCEPT ![u] = "ENOENT"]
        /\ \E n \in {size[u], size[u] + 1} : size' = [size EXCEPT ![u] = n]
    BY <1>2 DEF PersistToFileAdd, WriteLocalFileForBrpcUpdate
  <2>3. ret' \in [Users -> Codes] /\ size' \in [Users -> Nat]
    <3>1. ret' \in [Users -> Codes]
      BY <2>5, FileTypes DEF FilesOK, Codes
    <3>2. PICK n \in {size[u], size[u] + 1} : size' = [size EXCEPT ![u] = n]
      BY <2>5
    <3>3. n \in Nat
      BY FileTypes
    <3> QED BY <3>1, <3>2, <3>3, FileTypes DEF FilesOK
  <2>4. FilesOK'
    BY <1>2, <2>3, FileTypes DEF PersistToFileAdd, WriteLocalFileForBrpcUpdate, FilesOK
  <2> QED BY <2>2, <2>4, PlainStep
<1>3. CASE WriteFree(u)
  <2>1. /\ pc[u] = "writefree" /\ pc' = [pc EXCEPT ![u] = "flush"] /\ job' = job
        /\ tasks' = tasks /\ lock' = lock /\ reservedCap' = reservedCap - 1
    BY <1>3 DEF WriteFree, FreePreAllocSpace, Goto, user
  <2>2. /\ StepTo(u, "flush") /\ SameLock(u, "flush")
        /\ pc[u] \in Reserving /\ "flush" \notin Reserving
    BY <2>1 DEF StepTo, SameLock, Steps, Owning, Reserving, Detached
  <2>3. /\ TasksDetached' /\ tasks' \in SUBSET TaskType
        /\ ReservedAccounted' /\ reservedCap' \in Nat
        /\ \A i \in Inodes : Owned(i)'
        /\ lock' \in [Inodes -> [held: BOOLEAN, waiting: Nat]]
    BY <2>1, <2>2, StillDetached, SpaceGiven, LockKept, Facts
  <2>4. FilesOK'
    BY <1>3, FileTypes DEF WriteFree, FilesOK, user
  <2> QED BY <2>2, <2>3, <2>4, Together
<1> QED BY <1>1, <1>2, <1>3

\* The other steps of using a file.
EndingSteps(u) ==
    \/ ReadFileLR(u) \/ WriteFail(u) \/ FlushSize(u) \/ FlushToStorage(u) \/ CloseFile(u)
    \/ DeleteFiles(u) \/ DeleteObject(u)

\* Reading, flushing, closing and deleting touch neither lock nor space.
LEMMA EndingStep ==
    ASSUME StoreInv, NEW u \in Users, EndingSteps(u)
    PROVE  StoreInv'
<1>1. /\ job' = job /\ tasks' = tasks /\ lock' = lock /\ reservedCap' = reservedCap
    BY DEF EndingSteps, ReadFileLR, WriteFail, FlushSize, FlushToStorage, CloseFile, DeleteFiles,
       DeleteObject, cache, user
<1>2. /\ pc[u] \in {"io", "writefail", "flush", "put", "close", "delete", "delobject"}
      /\ \E x \in {"flush", "put", "close", "delobject", "done"} :
            /\ pc' = [pc EXCEPT ![u] = x]
            /\ pc[u] # "delete" => x # "delobject"
  <2>1. CASE ReadFileLR(u)
    BY <2>1 DEF ReadFileLR, Goto
  <2>2. CASE WriteFail(u)
    BY <2>2 DEF WriteFail, Goto
  <2>3. CASE FlushSize(u)
    BY <2>3 DEF FlushSize, End, Goto
  <2>4. CASE FlushToStorage(u)
    BY <2>4 DEF FlushToStorage, Goto
  <2>5. CASE CloseFile(u)
    BY <2>5 DEF CloseFile, End, Goto
  <2>6. CASE DeleteFiles(u)
    BY <2>6 DEF DeleteFiles, End, Goto
  <2>7. CASE DeleteObject(u)
    BY <2>7 DEF DeleteObject, End, Goto
  <2> QED BY <2>1, <2>2, <2>3, <2>4, <2>5, <2>6, <2>7 DEF EndingSteps
<1>3. PICK x \in {"flush", "put", "close", "delobject", "done"} :
            /\ pc' = [pc EXCEPT ![u] = x]
            /\ pc[u] # "delete" => x # "delobject"
    BY <1>2
<1>4. x \in Outside /\ pc[u] \in Outside
    BY <1>2 DEF Outside
<1>5. Detached(u) => Detached(u)'
  <2>1. Writes(u)' = Writes(u)
    BY <1>1 DEF Writes, Kind
  <2>2. pc'[u] = x
    BY <1>3, Facts
  <2> QED BY <1>2, <1>3, <2>1, <2>2 DEF Detached
<1>6. Plain(u)
    BY <1>1, <1>3, <1>4, <1>5, PlainOutside
<1>7. /\ ret' \in [Users -> Codes] /\ object' \in [Inodes -> Contents]
      /\ failures' \in 0 .. MaxFailures /\ answer' \in [Users -> Contents]
      /\ fd' \in [Users -> Nat]
      /\ disk' \in [Inodes -> [gen: Nat, data: Contents, blocks: Nat]]
  <2> USE FileTypes
  <2>1. CASE ReadFileLR(u)
    BY <2>1 DEF ReadFileLR, FilesOK, Codes, user
  <2>2. CASE WriteFail(u)
    BY <2>2 DEF WriteFail, FilesOK, Codes, user
  <2>3. CASE FlushSize(u)
    BY <2>3 DEF FlushSize, End, FilesOK, Codes, user
  <2>4. CASE FlushToStorage(u)
    <3>1. failures' \in 0 .. MaxFailures
      BY <2>4, StoreAssumptions DEF FlushToStorage, FilesOK
    <3>2. ret' \in [Users -> Codes]
      BY <2>4 DEF FlushToStorage, FilesOK, Codes
    <3>3. object' \in [Inodes -> Contents]
      BY <2>4 DEF FlushToStorage, FilesOK
    <3> QED BY <2>4, <3>1, <3>2, <3>3 DEF FlushToStorage, FilesOK, user
  <2>5. CASE CloseFile(u)
    BY <2>5 DEF CloseFile, End, FilesOK, Codes
  <2>6. CASE DeleteFiles(u)
    <3>1. Delete(I(u)) /\ I(u) \in Inodes
      BY <2>6 DEF DeleteFiles
    <3>2. disk' \in [Inodes -> [gen: Nat, data: Contents, blocks: Nat]]
      BY <3>1, DeleteType
    <3> QED BY <2>6, <3>2 DEF DeleteFiles, End, FilesOK, Codes, user
  <2>7. CASE DeleteObject(u)
    BY <2>7 DEF DeleteObject, End, FilesOK, Codes, user
  <2> QED BY <2>1, <2>2, <2>3, <2>4, <2>5, <2>6, <2>7 DEF EndingSteps
<1>8. FilesOK'
    BY <1>7, FileTypes DEF EndingSteps, ReadFileLR, WriteFail, FlushSize, FlushToStorage, CloseFile,
       DeleteFiles, DeleteObject, FilesOK, cache, user
<1> QED BY <1>6, <1>8, PlainStep

-----------------------------------------------------------------------------
(* The pool, the cleanup, and all of it.                                   *)

\* The thread pool.
LEMMA PoolSteps ==
    ASSUME StoreInv, PoolStep
    PROVE  StoreInv'
<1>1. PICK t \in tasks : TaskFetch(t) \/ TaskInsert(t) \/ TaskFree(t)
    BY DEF PoolStep
<1>2. t \in TaskType /\ t.inode \in Inodes /\ t.data \in Contents
    BY Facts DEF TaskType
<1>3. CASE TaskFetch(t) \/ TaskInsert(t)
  <2>1. pc' = pc /\ job' = job /\ lock' = lock /\ reservedCap' = reservedCap
    BY <1>3 DEF TaskFetch, TaskInsert, cache, user
  <2>2. PICK to \in {"fetch", "insert", "free"} : Move(t, to)
    BY <1>3 DEF TaskFetch, TaskInsert
  <2>3. /\ TasksDetached' /\ tasks' \in SUBSET TaskType /\ ReservedAccounted'
        /\ \A i \in Inodes : Owned(i)'
    BY <2>1, <2>2, TaskMoves
  <2>4. /\ disk' \in [Inodes -> [gen: Nat, data: Contents, blocks: Nat]]
        /\ failures' \in 0 .. MaxFailures
    <3>1. CASE TaskFetch(t)
      <4>1. CASE Fetched(t.inode, t.gen) \/ NotFetched(t.inode)
        BY <1>2, <4>1, FetchType
      <4>2. CASE WriteGen(t.inode, t.gen, t.data, 1) /\ UNCHANGED failures
        BY <1>2, <4>2, WriteType, FileTypes DEF FilesOK
      <4> QED BY <3>1, <4>1, <4>2 DEF TaskFetch
    <3>2. CASE TaskInsert(t)
      BY <3>2, FileTypes DEF TaskInsert, FilesOK
    <3> QED BY <1>3, <3>1, <3>2
  <2>5. FilesOK'
    BY <1>3, <2>4, FileTypes DEF TaskFetch, TaskInsert, FilesOK, cache, user
  <2>6. ControlOK'
    BY <2>1, <2>3, Facts DEF ControlOK
  <2> QED BY <2>3, <2>5, <2>6 DEF StoreInv, TypeOK, Owned
<1>4. CASE TaskFree(t)
  <2>1. /\ TasksDetached' /\ tasks' \in SUBSET TaskType /\ ReservedAccounted'
        /\ reservedCap' \in Nat
        /\ lock' \in [Inodes -> [held: BOOLEAN, waiting: Nat]]
        /\ \A i \in Inodes : Owned(i)'
    BY <1>4, TaskEnds
  <2>2. FilesOK'
    BY <1>4, FileTypes DEF TaskFree, FilesOK, user
  <2>3. ControlOK'
    BY <1>4, <2>1, Facts DEF TaskFree, ControlOK, user
  <2> QED BY <2>1, <2>2, <2>3 DEF StoreInv, TypeOK, Owned
<1> QED BY <1>1, <1>3, <1>4

\* The background cleanup, and stuttering.
LEMMA QuietStep ==
    ASSUME StoreInv, CheckFreeSpace \/ UNCHANGED vars
    PROVE  StoreInv'
<1>1. /\ job' = job /\ pc' = pc /\ lock' = lock /\ tasks' = tasks /\ reservedCap' = reservedCap
    BY DEF CheckFreeSpace, vars, cache, user
<1>2. disk' \in [Inodes -> [gen: Nat, data: Contents, blocks: Nat]]
    BY EvictType, FileTypes DEF CheckFreeSpace, vars, FilesOK
<1>3. FilesOK'
    BY <1>2, FileTypes DEF CheckFreeSpace, vars, cache, user, FilesOK
<1>4. ControlOK'
    BY <1>1, Facts DEF ControlOK
<1>5. TasksDetached'
    BY <1>1 DEF StoreInv, TasksDetached, Detached, Writes, Kind, I
<1>6. ReservedAccounted'
    BY <1>1 DEF StoreInv, ReservedAccounted, Reservers
<1>7. \A i \in Inodes : OneOwner(i)' /\ lock'[i].waiting = Cardinality(Waiters(i)')
    BY <1>1 DEF StoreInv, OneOwner, OwnerUsers, OwnerTasks, Waiters, I
<1> QED BY <1>3, <1>4, <1>5, <1>6, <1>7 DEF StoreInv, TypeOK

\* At first nobody has anything.
LEMMA StoreInit ==
    ASSUME Init
    PROVE  StoreInv
<1>1. PICK j \in Jobs : job = j.job /\ persist = j.persist
    BY DEF Init
<1>2. job \in [Users -> Requests] /\ persist \in BOOLEAN
    BY <1>1, StoreAssumptions
<1>3. FilesOK
  <2>1. /\ object \in [Inodes -> Contents]
        /\ disk \in [Inodes -> [gen: Nat, data: Contents, blocks: Nat]]
    BY DEF Init, Contents, NoFile
  <2>2. /\ gens \in [Inodes -> Nat] /\ phase \in [Users -> {"open", "small"}]
        /\ fd \in [Users -> Nat] /\ size \in [Users -> Nat] /\ ret \in [Users -> Codes]
        /\ answer \in [Users -> Contents] /\ wrote \in [Inodes -> [gen: Nat, data: Contents]]
        /\ failures \in 0 .. MaxFailures /\ tries \in [Users -> 0 .. 3]
        /\ allocMutex \in Users \cup {Nobody}
    BY StoreAssumptions DEF Init, Contents, Codes
  <2> QED BY <1>2, <2>1, <2>2 DEF FilesOK
<1>4. ControlOK
    BY <1>2 DEF Init, ControlOK, Steps, Owning, Reserving
<1>5. /\ tasks = {} /\ Reservers = {} /\ reservedCap = 0
      /\ \A i \in Inodes : /\ OwnerUsers(i) = {} /\ OwnerTasks(i) = {} /\ Waiters(i) = {}
                           /\ lock[i].held = FALSE /\ lock[i].waiting = 0
    BY DEF Init, Reservers, Reserving, OwnerUsers, Owning, OwnerTasks, Waiters
<1>6. TasksDetached
    BY <1>5, FS_EmptySet DEF TasksDetached
<1>7. ReservedAccounted
    BY <1>5, FS_EmptySet DEF ReservedAccounted
<1>8. \A i \in Inodes : OneOwner(i) /\ lock[i].waiting = Cardinality(Waiters(i))
    BY <1>5, FS_EmptySet DEF OneOwner
<1> QED BY <1>3, <1>4, <1>6, <1>7, <1>8 DEF StoreInv, TypeOK

(* The inductive invariant of the store: types, the tasks with their       *)
(* users, the reserved space and the owners of the locks (falcon_store.cpp,*)
(* PreAllocSpace and FreePreAllocSpace of disk_cache.cpp, file_lock.cpp).  *)
THEOREM StoreInvariance == Spec => []StoreInv
<1>1. Init => StoreInv
    BY StoreInit
<1>2. StoreInv /\ [Next]_vars => StoreInv'
  <2> SUFFICES ASSUME StoreInv, [Next]_vars PROVE StoreInv'
    OBVIOUS
  <2>1. ASSUME NEW u \in Users, UserStep(u) PROVE StoreInv'
    <3>1. CASE Opening(u)
      BY <3>1, OpeningStep
    <3>2. CASE Loading(u)
      BY <3>2, InnerGetFileLockStep, LockingStep, AllocStep, OpeningForLoad, FetchingStep
         DEF Loading
    <3>3. CASE Using(u)
      BY <3>3, AllocStep, WritingStep, EndingStep DEF Using, EndingSteps
    <3> QED BY <2>1, <3>1, <3>2, <3>3 DEF UserStep
  <2> QED BY <2>1, PoolSteps, QuietStep DEF Next
<1> QED BY <1>1, <1>2, PTL DEF Spec

(* Whatever fails, what is reserved of the disk is what a load or a write  *)
(* in progress has reserved: no early return keeps space for ever          *)
(* (PreAllocSpace, FreePreAllocSpace).                                     *)
THEOREM ReservedHolds == Spec => []ReservedAccounted
<1>1. StoreInv => ReservedAccounted
    BY DEF StoreInv
<1> QED BY <1>1, StoreInvariance, PTL

(* A file's lock has one owner at a time, a user or a background load, is  *)
(* free when nobody loads, and counts who waits for it (file_lock.cpp).    *)
THEOREM LockHolds == Spec => []LockHasOwner
<1>1. StoreInv => LockHasOwner
  <2> SUFFICES ASSUME StoreInv, NEW i \in Inodes
               PROVE  /\ Cardinality(OwnerUsers(i)) + Cardinality(OwnerTasks(i))
                            = IF lock[i].held THEN 1 ELSE 0
                      /\ lock[i].waiting = Cardinality(Waiters(i))
    BY DEF LockHasOwner
  <2>1. OneOwner(i) /\ IsFiniteSet(OwnerUsers(i)) /\ IsFiniteSet(OwnerTasks(i))
    BY Counted DEF StoreInv
  <2>2. \A S : IsFiniteSet(S) /\ S # {} /\ (\A x, y \in S : x = y) => Cardinality(S) = 1
    <3> SUFFICES ASSUME NEW S, IsFiniteSet(S), S # {}, \A x, y \in S : x = y
                 PROVE  Cardinality(S) = 1
      OBVIOUS
    <3>1. PICK x : x \in S
      OBVIOUS
    <3>2. S = {x}
      BY <3>1
    <3> QED BY <3>2, FS_Singleton
  <2>3. Cardinality({}) = 0
    BY FS_EmptySet
  <2>4. CASE lock[i].held
    <3>1. \/ OwnerUsers(i) = {} /\ OwnerTasks(i) # {}
          \/ OwnerTasks(i) = {} /\ OwnerUsers(i) # {}
      BY <2>1, <2>4 DEF OneOwner
    <3>2. CASE OwnerUsers(i) = {} /\ OwnerTasks(i) # {}
      <4>1. Cardinality(OwnerTasks(i)) = 1
        BY <2>1, <2>2, <3>2 DEF OneOwner
      <4> QED BY <2>3, <2>4, <3>2, <4>1 DEF StoreInv
    <3>3. CASE OwnerTasks(i) = {} /\ OwnerUsers(i) # {}
      <4>1. Cardinality(OwnerUsers(i)) = 1
        BY <2>1, <2>2, <3>3 DEF OneOwner
      <4> QED BY <2>3, <2>4, <3>3, <4>1 DEF StoreInv
    <3> QED BY <3>1, <3>2, <3>3
  <2>5. CASE ~ lock[i].held
    <3>1. OwnerUsers(i) = {} /\ OwnerTasks(i) = {}
      BY <2>1, <2>5 DEF OneOwner
    <3> QED BY <2>3, <2>5, <3>1 DEF StoreInv
  <2> QED BY <2>4, <2>5
<1> QED BY <1>1, StoreInvariance, PTL

-----------------------------------------------------------------------------
(* Sums of lists.  What is proved of every length goes by induction over    *)
(* the positions of the list.                                               *)

\* A set of numbers has a least one.
LEMMA LeastNumber ==
    ASSUME NEW T \in SUBSET Nat, T # {}
    PROVE  \E x \in T : \A y \in T : x <= y
<1>1. IsWellFoundedOn({ss \in Nat \X Nat : ss[1] < ss[2]}, Nat)
  BY NatLessThanWellFounded DEF OpToRel
<1>2. PICK x \in T : \A y \in T : ~ (<<y, x>> \in {ss \in Nat \X Nat : ss[1] < ss[2]})
  BY <1>1, WFMin
<1>3. \A y \in T : ~ (y < x)
  BY <1>2
<1> QED BY <1>3

\* A set that has 0, and with a number the next one, has all numbers.
LEMMA NumberInduction ==
    ASSUME NEW T, 0 \in T, \A n \in Nat : n \in T => n + 1 \in T
    PROVE  Nat \subseteq T
<1> SUFFICES ASSUME Nat \ T # {} PROVE FALSE
  OBVIOUS
<1>1. PICK x \in Nat \ T : \A y \in Nat \ T : x <= y
  BY LeastNumber
<1>2. x # 0
  OBVIOUS
<1>3. x - 1 \in Nat /\ x - 1 \in T
  BY <1>1, <1>2
<1> QED BY <1>3

\* The same, for the numbers up to N.
LEMMA UpTo ==
    ASSUME NEW N \in Nat, NEW T, 0 \in T, \A n \in 1 .. N : n - 1 \in T => n \in T
    PROVE  0 .. N \subseteq T
<1> DEFINE R == {n \in Nat : n <= N => n \in T}
<1>1. 0 \in R
  OBVIOUS
<1>2. ASSUME NEW n \in Nat, n \in R PROVE n + 1 \in R
  <2>1. CASE n + 1 <= N
    <3>1. n + 1 \in 1 .. N /\ (n + 1) - 1 = n
      BY <2>1
    <3>2. n \in T
      BY <1>2, <2>1
    <3> QED BY <3>1, <3>2
  <2> QED BY <2>1
<1> HIDE DEF R
<1>3. Nat \subseteq R
  BY <1>1, <1>2, NumberInduction
<1> QED BY <1>3 DEF R

\* f is what a recursion from a with the step G gives, up to N.
Recurses(f, N, V, a, G) ==
    f \in [0 .. N -> V] /\ f[0] = a /\ \A n \in 1 .. N : f[n] = G[<<n, f[n - 1]>>]

\* There is such a function.
LEMMA Recursion ==
    ASSUME NEW V, NEW a \in V, NEW G \in [Nat \X V -> V], NEW N \in Nat
    PROVE  \E f : Recurses(f, N, V, a, G)
<1> DEFINE P(m, f) == f[0] = a /\ \A n \in 1 .. m : f[n] = G[<<n, f[n - 1]>>]
           T == {m \in Nat : \E f \in [0 .. m -> V] : P(m, f)}
<1>1. 0 \in T
  <2>1. [n \in 0 .. 0 |-> a] \in [0 .. 0 -> V] /\ P(0, [n \in 0 .. 0 |-> a])
    OBVIOUS
  <2> QED BY <2>1
<1>2. ASSUME NEW m \in Nat, m \in T PROVE m + 1 \in T
  <2>1. PICK f \in [0 .. m -> V] : P(m, f)
    BY <1>2
  <2> DEFINE g == [n \in 0 .. m + 1 |-> IF n <= m THEN f[n] ELSE G[<<m + 1, f[m]>>]]
  <2>2. g \in [0 .. m + 1 -> V]
    OBVIOUS
  <2>3. g[0] = a
    BY <2>1
  <2>4. ASSUME NEW n \in 1 .. m + 1 PROVE g[n] = G[<<n, g[n - 1]>>]
    <3>1. CASE n <= m
      <4>1. g[n] = f[n] /\ g[n - 1] = f[n - 1] /\ n \in 1 .. m
        BY <3>1
      <4> QED BY <4>1, <2>1
    <3>2. CASE n = m + 1
      <4>1. g[n] = G[<<m + 1, f[m]>>] /\ g[n - 1] = f[m]
        BY <3>2
      <4> QED BY <4>1, <3>2
    <3> QED BY <3>1, <3>2
  <2>5. P(m + 1, g)
    BY <2>3, <2>4
  <2> HIDE DEF g, P
  <2>6. \E h \in [0 .. m + 1 -> V] : P(m + 1, h)
    BY <2>2, <2>5
  <2> QED BY <2>6
<1> HIDE DEF T
<1>3. Nat \subseteq T
  BY <1>1, <1>2, NumberInduction
<1>4. PICK f \in [0 .. N -> V] : P(N, f)
  BY <1>3 DEF T
<1> QED BY <1>4 DEF Recurses

\* Counting modulo W may go on from the remainder.
LEMMA Modulo ==
    ASSUME NEW W \in Nat, W > 0, NEW a \in Int, NEW b \in Int
    PROVE  ((a % W) + b) % W = (a + b) % W
<1> DEFINE r == a % W
           x == (r + b) % W
           y == (a + b) % W
           p == a \div W
           q == (r + b) \div W
           s == (a + b) \div W
<1>1. /\ r \in 0 .. W - 1 /\ x \in 0 .. W - 1 /\ y \in 0 .. W - 1
      /\ p \in Int /\ q \in Int /\ s \in Int
  OBVIOUS
<1>2. a = W * p + r
  OBVIOUS
<1>3. r + b = W * q + x
  BY <1>1
<1>4. a + b = W * s + y
  OBVIOUS
<1> HIDE DEF r, x, y, p, q, s
<1>5. W * (p + q - s) = y - x
  BY <1>1, <1>2, <1>3, <1>4
<1> DEFINE d == p + q - s
<1>6. d \in Int /\ W * d = y - x
  BY <1>1, <1>5
<1>7. y - x < W /\ y - x > 0 - W
  BY <1>1
<1> HIDE DEF d
<1>8. CASE d >= 1
  <2>1. W * d >= W
    BY <1>6, <1>8
  <2> QED BY <2>1, <1>6, <1>7, <1>1
<1>9. CASE d <= 0 - 1
  <2>1. W * d <= 0 - W
    BY <1>6, <1>9
  <2> QED BY <2>1, <1>6, <1>7, <1>1
<1>10. CASE d = 0
  <2>1. W * d = 0
    BY <1>10
  <2>2. x = y
    BY <2>1, <1>6, <1>1
  <2> QED BY <2>2 DEF x, y, r
<1> QED BY <1>6, <1>8, <1>9, <1>10

\* The items of a list.
LEMMA ItemFacts ==
    ASSUME NEW items \in Seq(ItemType)
    PROVE  /\ Len(items) \in Nat /\ DOMAIN items = 1 .. Len(items)
           /\ \A n \in 1 .. Len(items) :
                 /\ items[n] \in ItemType
                 /\ items[n].inode \in Inodes /\ items[n].size \in Nat /\ items[n].refs \in Nat
<1>1. Len(items) \in Nat /\ DOMAIN items = 1 .. Len(items)
  OBVIOUS
<1>2. \A n \in 1 .. Len(items) : items[n] \in ItemType
  OBVIOUS
<1>3. \A x \in ItemType : x.inode \in Inodes /\ x.size \in Nat /\ x.refs \in Nat
  BY DEF ItemType
<1> QED BY <1>1, <1>2, <1>3

\* S sums up the sizes of a list.
Sums(items, S) ==
    S = [n \in 0 .. Len(items) |-> IF n = 0 THEN 0 ELSE S[n - 1] + items[n].size]

\* There is one such function, whose last value is the sum.
LEMMA SumIs ==
    ASSUME NEW items \in Seq(ItemType)
    PROVE  \E S \in [0 .. Len(items) -> Nat] :
              /\ S[0] = 0 /\ \A n \in 1 .. Len(items) : S[n] = S[n - 1] + items[n].size
              /\ Sizes(items) = S[Len(items)]
<1> DEFINE N == Len(items)
           G == [x \in Nat \X Nat |-> IF x[1] \in 1 .. N THEN x[2] + items[x[1]].size ELSE 0]
<1>1. N \in Nat /\ \A n \in 1 .. N : items[n].size \in Nat
  BY ItemFacts
<1>2. G \in [Nat \X Nat -> Nat]
  BY <1>1
<1>3. ASSUME NEW n \in 1 .. N, NEW v \in Nat PROVE G[<<n, v>>] = v + items[n].size
  <2>1. <<n, v>> \in Nat \X Nat /\ <<n, v>>[1] = n /\ <<n, v>>[2] = v
    BY <1>1
  <2> QED BY <2>1
<1> HIDE DEF G
<1>4. PICK f : Recurses(f, N, Nat, 0, G)
  BY <1>1, <1>2, Recursion
<1>5. f \in [0 .. N -> Nat] /\ f[0] = 0 /\ \A n \in 1 .. N : f[n] = f[n - 1] + items[n].size
  <2>1. f \in [0 .. N -> Nat] /\ f[0] = 0 /\ \A n \in 1 .. N : f[n] = G[<<n, f[n - 1]>>]
    BY <1>4 DEF Recurses
  <2>2. ASSUME NEW n \in 1 .. N PROVE f[n] = f[n - 1] + items[n].size
    <3>1. n - 1 \in 0 .. N
      BY <1>1
    <3>2. f[n - 1] \in Nat
      BY <2>1, <3>1
    <3> QED BY <2>1, <3>2, <1>3
  <2> QED BY <2>1, <2>2
<1>6. Sums(items, f)
  <2>1. \A n \in 0 .. N : f[n] = IF n = 0 THEN 0 ELSE f[n - 1] + items[n].size
    BY <1>5, <1>1
  <2>2. f = [n \in 0 .. N |-> f[n]]
    BY <1>5
  <2> QED BY <2>1, <2>2 DEF Sums
<1> DEFINE S == CHOOSE S : Sums(items, S)
<1>7. Sums(items, S)
  BY <1>6
<1>8. Sizes(items) = S[Len(items)]
  BY DEF Sizes, Sums
<1> HIDE DEF S
<1>9. S[0] = 0 /\ \A n \in 1 .. N : S[n] = S[n - 1] + items[n].size
  <2>1. \A n \in 0 .. N : S[n] = IF n = 0 THEN 0 ELSE S[n - 1] + items[n].size
    BY <1>7 DEF Sums
  <2> QED BY <2>1, <1>1
<1>10. S \in [0 .. N -> Nat]
  <2> DEFINE T == {n \in 0 .. N : S[n] \in Nat}
  <2>1. 0 \in T
    BY <1>9, <1>1
  <2>2. \A n \in 1 .. N : n - 1 \in T => n \in T
    BY <1>9, <1>1
  <2> HIDE DEF T
  <2>3. 0 .. N \subseteq T
    BY <2>1, <2>2, <1>1, UpTo
  <2>4. \A n \in 0 .. N : S[n] \in Nat
    BY <2>3 DEF T
  <2>5. DOMAIN S = 0 .. N /\ S = [n \in 0 .. N |-> S[n]]
    BY <1>7 DEF Sums
  <2> QED BY <2>4, <2>5
<1> QED BY <1>8, <1>9, <1>10
\* A list of which one item has another size.
LEMMA SumChanged ==
    ASSUME NEW items \in Seq(ItemType), NEW after \in Seq(ItemType), Len(after) = Len(items),
           NEW k \in DOMAIN items,
           \A n \in 1 .. Len(items) : n # k => after[n].size = items[n].size
    PROVE  Sizes(after) = (Sizes(items) + after[k].size) - items[k].size
<1> DEFINE N == Len(items)
<1>1. PICK S \in [0 .. N -> Nat] :
              /\ S[0] = 0 /\ \A n \in 1 .. N : S[n] = S[n - 1] + items[n].size
              /\ Sizes(items) = S[N]
  BY SumIs
<1>2. PICK R \in [0 .. N -> Nat] :
              /\ R[0] = 0 /\ \A n \in 1 .. N : R[n] = R[n - 1] + after[n].size
              /\ Sizes(after) = R[N]
  BY SumIs
<1>3. N \in Nat /\ \A n \in 1 .. N : items[n].size \in Nat /\ after[n].size \in Nat
  BY ItemFacts
<1>0. k \in 1 .. N
  BY ItemFacts
<1> DEFINE d == after[k].size - items[k].size
           T == {n \in 0 .. N : R[n] = S[n] + IF n < k THEN 0 ELSE d}
<1>4. 0 \in T
  BY <1>0, <1>1, <1>2, <1>3
<1>5. ASSUME NEW n \in 1 .. N, n - 1 \in T PROVE n \in T
  <2>1. /\ R[n] = R[n - 1] + after[n].size /\ S[n] = S[n - 1] + items[n].size
        /\ R[n - 1] \in Nat /\ S[n - 1] \in Nat
    <3>1. n - 1 \in 0 .. N
      BY <1>3
    <3> QED BY <1>1, <1>2, <3>1
  <2>2. R[n - 1] = S[n - 1] + IF n - 1 < k THEN 0 ELSE d
    BY <1>5
  <2>3. CASE n = k
    <3>1. R[n - 1] = S[n - 1]
      BY <2>1, <2>2, <2>3, <1>3, <1>0
    <3> QED BY <3>1, <2>1, <2>3, <1>3
  <2>4. CASE n < k
    BY <2>1, <2>2, <2>4, <1>3, <1>0
  <2>5. CASE n > k
    <3>1. after[n].size = items[n].size /\ items[n].size \in Nat /\ d \in Int
      BY <2>5, <1>3, <1>0
    <3>2. R[n - 1] = S[n - 1] + d
      BY <2>2, <2>5, <1>0, <1>3
    <3> HIDE DEF d
    <3>3. R[n] = S[n] + d
      BY <2>1, <3>1, <3>2
    <3>4. n \in 0 .. N /\ ~ (n < k)
      BY <2>5, <1>0, <1>3
    <3> QED BY <3>3, <3>4
  <2> QED BY <2>3, <2>4, <2>5, <1>0, <1>3
<1> HIDE DEF T
<1>6. 0 .. N \subseteq T
  BY <1>3, <1>4, <1>5, UpTo
<1>7. N \in T
  BY <1>3, <1>6
<1>8. R[N] = S[N] + d
  BY <1>0, <1>3, <1>7 DEF T
<1>9. Sizes(items) \in Nat /\ items[k].size \in Nat /\ after[k].size \in Nat
  BY <1>0, <1>1, <1>3
<1> HIDE DEF d
<1>10. Sizes(after) = Sizes(items) + d
  BY <1>1, <1>2, <1>8
<1> QED BY <1>9, <1>10 DEF d

\* A list with an item more.
LEMMA SumAppend ==
    ASSUME NEW items \in Seq(ItemType), NEW x \in ItemType
    PROVE  Sizes(Append(items, x)) = Sizes(items) + x.size /\ Append(items, x) \in Seq(ItemType)
<1> DEFINE N == Len(items)
           new == Append(items, x)
<1>0. /\ new \in Seq(ItemType) /\ Len(new) = N + 1 /\ N \in Nat
      /\ new[N + 1] = x /\ \A n \in 1 .. N : new[n] = items[n]
  OBVIOUS
<1> HIDE DEF new
<1>1. PICK S \in [0 .. N -> Nat] :
              /\ S[0] = 0 /\ \A n \in 1 .. N : S[n] = S[n - 1] + items[n].size
              /\ Sizes(items) = S[N]
  BY SumIs
<1>2. PICK R \in [0 .. N + 1 -> Nat] :
              /\ R[0] = 0 /\ \A n \in 1 .. N + 1 : R[n] = R[n - 1] + new[n].size
              /\ Sizes(new) = R[N + 1]
  BY <1>0, SumIs
<1>3. \A n \in 1 .. N : items[n].size \in Nat
  BY ItemFacts
<1> DEFINE T == {n \in 0 .. N : R[n] = S[n]}
<1>4. 0 \in T
  BY <1>0, <1>1, <1>2
<1>5. ASSUME NEW n \in 1 .. N, n - 1 \in T PROVE n \in T
  BY <1>0, <1>1, <1>2, <1>3, <1>5
<1> HIDE DEF T
<1>6. 0 .. N \subseteq T
  BY <1>0, <1>4, <1>5, UpTo
<1>7. R[N] = S[N]
  BY <1>0, <1>6 DEF T
<1>8. R[N + 1] = R[N] + x.size
  BY <1>0, <1>2
<1> QED BY <1>0, <1>1, <1>2, <1>7, <1>8 DEF new

\* The sum of no items.
LEMMA SumNone == Sizes(<< >>) = 0
<1>1. << >> \in Seq(ItemType) /\ Len(<< >>) = 0
  OBVIOUS
<1>2. PICK S \in [0 .. 0 -> Nat] : S[0] = 0 /\ Sizes(<< >>) = S[0]
  BY <1>1, SumIs
<1> QED BY <1>2

\* K makes the list without the items of some inodes.
Keeps(items, names, K) ==
    K = [n \in 0 .. Len(items) |->
            IF n = 0 THEN << >>
            ELSE IF items[n].inode \in names THEN K[n - 1]
            ELSE Append(K[n - 1], items[n])]

\* There is one.
LEMMA KeepsExists ==
    ASSUME NEW items \in Seq(ItemType), NEW names
    PROVE  \E K : Keeps(items, names, K)
<1> DEFINE N == Len(items)
           V == Seq(ItemType)
           G == [x \in Nat \X V |-> IF x[1] \in 1 .. N
                                    THEN IF items[x[1]].inode \in names THEN x[2]
                                         ELSE Append(x[2], items[x[1]])
                                    ELSE << >>]
<1>1. N \in Nat /\ << >> \in V /\ \A n \in 1 .. N : items[n] \in ItemType
  BY ItemFacts
<1>2. G \in [Nat \X V -> V]
  <2>1. ASSUME NEW x \in Nat \X V
        PROVE  (IF x[1] \in 1 .. N
                THEN IF items[x[1]].inode \in names THEN x[2] ELSE Append(x[2], items[x[1]])
                ELSE << >>) \in V
    <3>1. x[2] \in V /\ x[1] \in Nat
      OBVIOUS
    <3>2. x[1] \in 1 .. N => Append(x[2], items[x[1]]) \in V
      BY <3>1, <1>1
    <3> QED BY <3>1, <3>2, <1>1
  <2> QED BY <2>1
<1>3. ASSUME NEW n \in 1 .. N, NEW v \in V
      PROVE  G[<<n, v>>] = IF items[n].inode \in names THEN v ELSE Append(v, items[n])
  <2>1. <<n, v>> \in Nat \X V /\ <<n, v>>[1] = n /\ <<n, v>>[2] = v
    BY <1>1
  <2> QED BY <2>1
<1> HIDE DEF G, V
<1>4. PICK f : Recurses(f, N, V, << >>, G)
  BY <1>1, <1>2, Recursion
<1>5. ASSUME NEW n \in 1 .. N
      PROVE  f[n] = IF items[n].inode \in names THEN f[n - 1] ELSE Append(f[n - 1], items[n])
  <2>1. f[n - 1] \in V
    BY <1>4, <1>1 DEF Recurses
  <2> QED BY <2>1, <1>4, <1>3 DEF Recurses
<1>6. ASSUME NEW n \in 0 .. N
      PROVE  f[n] = IF n = 0 THEN << >>
                    ELSE IF items[n].inode \in names THEN f[n - 1] ELSE Append(f[n - 1], items[n])
  <2>1. CASE n = 0
    BY <2>1, <1>4 DEF Recurses
  <2>2. CASE n # 0
    <3>1. n \in 1 .. N
      BY <2>2, <1>1
    <3>2. f[n] = IF items[n].inode \in names THEN f[n - 1] ELSE Append(f[n - 1], items[n])
      BY <3>1, <1>5
    <3> QED BY <2>2, <3>2
  <2> QED BY <2>1, <2>2
<1>7. f = [n \in 0 .. N |-> f[n]]
  BY <1>4 DEF Recurses
<1>8. Keeps(items, names, f)
  BY <1>6, <1>7 DEF Keeps
<1> QED BY <1>8

\* D sums up the sizes of the items that are left out.
Drops(items, names, D) ==
    /\ D \in [0 .. Len(items) -> Nat] /\ D[0] = 0
    /\ \A n \in 1 .. Len(items) :
          D[n] = D[n - 1] + IF items[n].inode \in names THEN items[n].size ELSE 0

\* What is left out is what the sum is less by.
LEMMA SumKept ==
    ASSUME NEW items \in Seq(ItemType), NEW names, NEW K, Keeps(items, names, K),
           NEW D, Drops(items, names, D)
    PROVE  /\ K[Len(items)] \in Seq(ItemType)
           /\ Sizes(K[Len(items)]) = Sizes(items) - D[Len(items)]
<1> DEFINE N == Len(items)
<1>0. /\ D \in [0 .. N -> Nat] /\ D[0] = 0
      /\ \A n \in 1 .. N : D[n] = D[n - 1] + IF items[n].inode \in names THEN items[n].size ELSE 0
  BY DEF Drops
<1>1. PICK S \in [0 .. N -> Nat] :
              /\ S[0] = 0 /\ \A n \in 1 .. N : S[n] = S[n - 1] + items[n].size
              /\ Sizes(items) = S[N]
  BY SumIs
<1>2. N \in Nat /\ \A n \in 1 .. N : items[n] \in ItemType /\ items[n].size \in Nat
  BY ItemFacts
<1>3. /\ K[0] = << >>
      /\ \A n \in 1 .. N : K[n] = IF items[n].inode \in names THEN K[n - 1]
                                  ELSE Append(K[n - 1], items[n])
  <2>1. \A n \in 0 .. N : K[n] = IF n = 0 THEN << >>
            ELSE IF items[n].inode \in names THEN K[n - 1] ELSE Append(K[n - 1], items[n])
    BY DEF Keeps
  <2> QED BY <2>1, <1>2
<1> DEFINE T == {n \in 0 .. N : K[n] \in Seq(ItemType) /\ Sizes(K[n]) = S[n] - D[n]}
<1>4. 0 \in T
  <2>1. << >> \in Seq(ItemType)
    OBVIOUS
  <2>2. 0 \in 0 .. N /\ S[0] - D[0] = 0
    BY <1>0, <1>1, <1>2
  <2>3. K[0] \in Seq(ItemType) /\ Sizes(K[0]) = 0
    BY <2>1, <1>3, SumNone
  <2> QED BY <2>2, <2>3
<1>5. ASSUME NEW n \in 1 .. N, n - 1 \in T PROVE n \in T
  <2>1. K[n - 1] \in Seq(ItemType) /\ Sizes(K[n - 1]) = S[n - 1] - D[n - 1]
    BY <1>5
  <2>2. /\ n - 1 \in 0 .. N /\ n \in 0 .. N
        /\ S[n - 1] \in Nat /\ S[n] = S[n - 1] + items[n].size /\ D[n - 1] \in Nat
        /\ items[n] \in ItemType /\ items[n].size \in Nat
    BY <1>0, <1>1, <1>2
  <2>3. CASE items[n].inode \in names
    <3>1. K[n] = K[n - 1] /\ D[n] = D[n - 1] + items[n].size
      BY <1>0, <1>3, <2>3
    <3> QED BY <2>1, <2>2, <3>1
  <2>4. CASE items[n].inode \notin names
    <3>1. K[n] = Append(K[n - 1], items[n])
      BY <1>3, <2>4
    <3>3. D[n] = D[n - 1]
      BY <1>0, <2>2, <2>4
    <3>2. K[n] \in Seq(ItemType) /\ Sizes(K[n]) = Sizes(K[n - 1]) + items[n].size
      BY <2>1, <2>2, <3>1, SumAppend
    <3>4. Sizes(K[n]) = S[n] - D[n]
      BY <2>1, <2>2, <3>2, <3>3
    <3> QED BY <2>2, <3>2, <3>4
  <2> QED BY <2>3, <2>4
<1> HIDE DEF T
<1>6. 0 .. N \subseteq T
  BY <1>2, <1>4, <1>5, UpTo
<1>7. N \in T
  BY <1>2, <1>6
<1> QED BY <1>1, <1>7 DEF T

\* An item that is kept was in the list, and the one item of its file.
LEMMA OneKept ==
    ASSUME NEW items \in Seq(ItemType), NEW names, NEW K, Keeps(items, names, K), OneItem(items)
    PROVE  /\ K[Len(items)] \in Seq(ItemType) /\ OneItem(K[Len(items)])
           /\ \A m \in 1 .. Len(K[Len(items)]) : \E j \in 1 .. Len(items) : K[Len(items)][m] = items[j]
<1> DEFINE N == Len(items)
<1>2. N \in Nat /\ DOMAIN items = 1 .. N /\ \A n \in 1 .. N : items[n] \in ItemType
  BY ItemFacts
<1>3. /\ K[0] = << >>
      /\ \A n \in 1 .. N : K[n] = IF items[n].inode \in names THEN K[n - 1]
                                  ELSE Append(K[n - 1], items[n])
  <2>1. \A n \in 0 .. N : K[n] = IF n = 0 THEN << >>
            ELSE IF items[n].inode \in names THEN K[n - 1] ELSE Append(K[n - 1], items[n])
    BY DEF Keeps
  <2> QED BY <2>1, <1>2
<1> DEFINE P(n, s) == /\ s \in Seq(ItemType) /\ OneItem(s)
                      /\ \A m \in 1 .. Len(s) : \E j \in 1 .. n : s[m] = items[j]
           T == {n \in 0 .. N : P(n, K[n])}
<1>4. 0 \in T
  <2>1. << >> \in Seq(ItemType) /\ Len(<< >>) = 0 /\ DOMAIN << >> = {}
    OBVIOUS
  <2>2. P(0, << >>)
    BY <2>1 DEF OneItem
  <2>3. 0 \in 0 .. N /\ K[0] = << >>
    BY <1>2, <1>3
  <2> QED BY <2>2, <2>3
<1>5. ASSUME NEW n \in 1 .. N, n - 1 \in T PROVE n \in T
  <2> DEFINE s == K[n - 1]
  <2>1. P(n - 1, s)
    BY <1>5
  <2>2. n \in 0 .. N /\ items[n] \in ItemType /\ 1 .. (n - 1) \subseteq 1 .. n
    BY <1>2
  <2>3. CASE items[n].inode \in names
    <3>1. K[n] = s
      BY <1>3, <2>3
    <3>2. P(n, s)
      BY <2>1, <2>2
    <3> QED BY <2>2, <3>1, <3>2
  <2>4. CASE items[n].inode \notin names
    <3>1. K[n] = Append(s, items[n])
      BY <1>3, <2>4
    <3> HIDE DEF s
    <3> DEFINE t == Append(s, items[n])
    <3>2. /\ t \in Seq(ItemType) /\ Len(t) = Len(s) + 1 /\ Len(s) \in Nat
          /\ t[Len(s) + 1] = items[n] /\ \A m \in 1 .. Len(s) : t[m] = s[m]
      BY <2>1, <2>2
    <3> HIDE DEF t
    <3>3. DOMAIN t = 1 .. Len(s) + 1 /\ DOMAIN s = 1 .. Len(s)
      BY <2>1, <3>2, ItemFacts
    <3>4. ASSUME NEW m \in 1 .. Len(s) PROVE s[m].inode # items[n].inode
      <4>1. PICK j \in 1 .. (n - 1) : s[m] = items[j]
        BY <2>1
      <4>2. j \in DOMAIN items /\ n \in DOMAIN items /\ j # n
        BY <1>2
      <4> QED BY <4>1, <4>2 DEF OneItem
    <3>5. OneItem(t)
      <4> SUFFICES ASSUME NEW a \in 1 .. Len(s) + 1, NEW b \in 1 .. Len(s) + 1,
                          t[a].inode = t[b].inode
                   PROVE  a = b
        BY <3>3 DEF OneItem
      <4>1. CASE a \in 1 .. Len(s) /\ b \in 1 .. Len(s)
        <5>1. s[a].inode = s[b].inode
          BY <4>1, <3>2
        <5> QED BY <5>1, <4>1, <2>1, <3>3 DEF OneItem
      <4>2. CASE a \in 1 .. Len(s) /\ b = Len(s) + 1
        BY <4>2, <3>2, <3>4
      <4>3. CASE a = Len(s) + 1 /\ b \in 1 .. Len(s)
        BY <4>3, <3>2, <3>4
      <4> QED BY <4>1, <4>2, <4>3, <3>2
    <3>6. ASSUME NEW m \in 1 .. Len(t) PROVE \E j \in 1 .. n : t[m] = items[j]
      <4>1. CASE m \in 1 .. Len(s)
        <5>1. PICK j \in 1 .. (n - 1) : s[m] = items[j]
          BY <4>1, <2>1
        <5> QED BY <5>1, <4>1, <2>2, <3>2
      <4>2. CASE m = Len(s) + 1
        BY <4>2, <3>2
      <4> QED BY <4>1, <4>2, <3>2
    <3>7. P(n, t)
      BY <3>2, <3>5, <3>6
    <3> QED BY <2>2, <3>1, <3>7 DEF t
  <2> QED BY <2>3, <2>4
<1> HIDE DEF T
<1>6. 0 .. N \subseteq T
  BY <1>2, <1>4, <1>5, UpTo
<1>7. N \in T
  BY <1>2, <1>6
<1> QED BY <1>7 DEF T

\* L is the loop over the list that chooses what an eviction removes.
Picks(items, files, toFree, L) ==
    L = [n \in 0 .. Len(items) |->
            IF n = 0 THEN [gone |-> {}, freed |-> 0, over |-> FALSE]
            ELSE LET p == L[n - 1]
                     c == items[n] IN
                 IF c.refs > 0 \/ p.over THEN p
                 ELSE IF files[c.inode].gen = 0
                 THEN [gone |-> p.gone, freed |-> p.freed, over |-> p.freed >= toFree]
                 ELSE [gone |-> p.gone \cup {n}, freed |-> p.freed + c.size,
                       over |-> p.freed + c.size >= toFree]]

\* A round passes by an item, tries to remove it in vain, or removes it.
Fails(toFree, p) == [gone |-> p.gone, freed |-> p.freed, over |-> p.freed >= toFree]
Removes(items, toFree, p, n) ==
    [gone |-> p.gone \cup {n}, freed |-> p.freed + items[n].size,
     over |-> p.freed + items[n].size >= toFree]
EvictRound(items, files, toFree, p, n) ==
    IF items[n].refs > 0 \/ p.over THEN p
    ELSE IF files[items[n].inode].gen = 0 THEN Fails(toFree, p)
    ELSE Removes(items, toFree, p, n)

\* There is such a loop.
LEMMA PicksExists ==
    ASSUME NEW items \in Seq(ItemType), NEW files, NEW toFree
    PROVE  \E L : Picks(items, files, toFree, L)
<1> DEFINE N == Len(items)
           V == [gone: SUBSET Nat, freed: Nat, over: BOOLEAN]
           none == [gone |-> {}, freed |-> 0, over |-> FALSE]
           Round(n, p) == EvictRound(items, files, toFree, p, n)
           G == [x \in Nat \X V |-> IF x[1] \in 1 .. N THEN Round(x[1], x[2]) ELSE none]
<1>1. N \in Nat /\ none \in V /\ \A n \in 1 .. N : items[n].size \in Nat
  BY ItemFacts
<1>2. ASSUME NEW n \in 1 .. N, NEW p \in V PROVE Round(n, p) \in V
  <2>1. p.gone \in SUBSET Nat /\ p.freed \in Nat /\ n \in Nat /\ items[n].size \in Nat
    BY <1>1
  <2>2. Removes(items, toFree, p, n) \in V
    BY <2>1 DEF Removes
  <2>3. Fails(toFree, p) \in V
    BY <2>1 DEF Fails
  <2> HIDE DEF V
  <2> QED BY <2>2, <2>3 DEF EvictRound
<1> HIDE DEF Round, none, V
<1>3. G \in [Nat \X V -> V]
  BY <1>1, <1>2
<1>4. ASSUME NEW n \in 1 .. N, NEW p \in V PROVE G[<<n, p>>] = Round(n, p)
  <2>1. <<n, p>> \in Nat \X V /\ <<n, p>>[1] = n /\ <<n, p>>[2] = p
    BY <1>1
  <2> QED BY <2>1
<1> HIDE DEF G
<1>5. PICK f : Recurses(f, N, V, none, G)
  BY <1>1, <1>3, Recursion
<1>6. ASSUME NEW n \in 0 .. N PROVE f[n] = IF n = 0 THEN none ELSE Round(n, f[n - 1])
  <2>1. CASE n = 0
    BY <2>1, <1>5 DEF Recurses
  <2>2. CASE n # 0
    <3>1. n \in 1 .. N /\ n - 1 \in 0 .. N
      BY <2>2, <1>1
    <3>2. f[n - 1] \in V /\ f[n] = G[<<n, f[n - 1]>>]
      BY <3>1, <1>5 DEF Recurses
    <3>3. f[n] = Round(n, f[n - 1])
      BY <3>1, <3>2, <1>4
    <3> QED BY <2>2, <3>3
  <2> QED BY <2>1, <2>2
<1>7. f = [n \in 0 .. N |-> f[n]]
  BY <1>5 DEF Recurses
<1>8. f = [n \in 0 .. N |-> IF n = 0 THEN none ELSE Round(n, f[n - 1])]
  BY <1>6, <1>7
<1>9. Picks(items, files, toFree, f)
  BY <1>8 DEF Picks, Round, none, EvictRound, Fails, Removes
<1> QED BY <1>9

\* The rounds of a loop, one by one.
LEMMA PicksRounds ==
    ASSUME NEW items \in Seq(ItemType), NEW files, NEW toFree, NEW L,
           Picks(items, files, toFree, L)
    PROVE  /\ L[0].gone = {} /\ L[0].freed = 0
           /\ \A n \in 1 .. Len(items) :
                 \/ L[n].gone = L[n - 1].gone /\ L[n].freed = L[n - 1].freed
                 \/ /\ L[n].gone = L[n - 1].gone \cup {n}
                    /\ L[n].freed = L[n - 1].freed + items[n].size
<1> DEFINE N == Len(items)
           none == [gone |-> {}, freed |-> 0, over |-> FALSE]
           Round(n, p) == EvictRound(items, files, toFree, p, n)
<1>1. L = [n \in 0 .. N |-> IF n = 0 THEN none ELSE Round(n, L[n - 1])]
  BY DEF Picks, EvictRound, Fails, Removes
<1>2. N \in Nat
  BY ItemFacts
<1> HIDE DEF Round, none
<1>3. L[0] = none
  BY <1>1, <1>2
<1>4. \A n \in 1 .. N : L[n] = Round(n, L[n - 1])
  BY <1>1, <1>2
<1>5. \A n \in 1 .. N : \/ L[n] = L[n - 1] \/ L[n] = Fails(toFree, L[n - 1])
                        \/ L[n] = Removes(items, toFree, L[n - 1], n)
  BY <1>4 DEF Round, EvictRound
<1>6. \A n \in 1 .. N : L[n] = Removes(items, toFree, L[n - 1], n) =>
           L[n].gone = L[n - 1].gone \cup {n} /\ L[n].freed = L[n - 1].freed + items[n].size
  BY DEF Removes
<1>7. \A n \in 1 .. N : L[n] = Fails(toFree, L[n - 1]) =>
           L[n].gone = L[n - 1].gone /\ L[n].freed = L[n - 1].freed
  BY DEF Fails
<1> QED BY <1>3, <1>5, <1>6, <1>7 DEF none

\* What a round decides stays: what is gone of the first n items at the end was
\* gone after n rounds, and is counted.
LEMMA PicksStay ==
    ASSUME NEW items \in Seq(ItemType), NEW files, NEW toFree, NEW L,
           Picks(items, files, toFree, L)
    PROVE  \A n \in 0 .. Len(items) :
              /\ L[n].gone \subseteq 1 .. n /\ L[n].freed \in Nat
              /\ L[Len(items)].gone \cap (1 .. n) = L[n].gone
<1> DEFINE N == Len(items)
<1>1. N \in Nat /\ \A n \in 1 .. N : items[n].size \in Nat
  BY ItemFacts
<1>2. /\ L[0].gone = {} /\ L[0].freed = 0
      /\ \A n \in 1 .. Len(items) :
            \/ L[n].gone = L[n - 1].gone /\ L[n].freed = L[n - 1].freed
            \/ /\ L[n].gone = L[n - 1].gone \cup {n}
               /\ L[n].freed = L[n - 1].freed + items[n].size
  BY PicksRounds
<1> DEFINE T == {n \in 0 .. N : L[n].gone \subseteq 1 .. n /\ L[n].freed \in Nat}
<1>3. 0 \in T
  BY <1>1, <1>2
<1>4. ASSUME NEW n \in 1 .. N, n - 1 \in T PROVE n \in T
  <2>1. L[n - 1].gone \subseteq 1 .. (n - 1) /\ L[n - 1].freed \in Nat
    BY <1>4
  <2>2. 1 .. (n - 1) \subseteq 1 .. n /\ n \in 1 .. n /\ items[n].size \in Nat /\ n \in 0 .. N
    BY <1>1
  <2>3. L[n].freed \in Nat
    <3>1. L[n].freed = L[n - 1].freed \/ L[n].freed = L[n - 1].freed + items[n].size
      BY <1>2
    <3> QED BY <3>1, <2>1, <2>2
  <2>4. L[n].gone \subseteq 1 .. n
    BY <1>2, <2>1, <2>2
  <2> QED BY <2>2, <2>3, <2>4
<1> HIDE DEF T
<1>5. 0 .. N \subseteq T
  BY <1>1, <1>3, <1>4, UpTo
<1>6. ASSUME NEW n \in 0 .. N PROVE L[N].gone \cap (1 .. n) = L[n].gone
  <2> DEFINE R == {j \in 0 .. N : j >= n => L[j].gone \cap (1 .. n) = L[n].gone}
  <2>1. L[n].gone \subseteq 1 .. n
    BY <1>5 DEF T
  <2>2. 0 \in R
    <3>1. 0 \in 0 .. N
      BY <1>1
    <3>2. n = 0 => L[0].gone \cap (1 .. n) = L[n].gone
      BY <1>2
    <3>3. 0 >= n => n = 0
      BY <1>1
    <3> QED BY <3>1, <3>2, <3>3
  <2>3. ASSUME NEW j \in 1 .. N, j - 1 \in R PROVE j \in R
    <3>1. j \in 0 .. N
      BY <1>1
    <3>2. CASE j = n
      <4>1. L[j].gone \cap (1 .. n) = L[n].gone
        BY <2>1, <3>2
      <4> QED BY <3>1, <4>1
    <3>3. CASE j > n
      <4>1. j - 1 >= n /\ j \notin 1 .. n
        BY <3>3, <1>1
      <4>2. L[j - 1].gone \cap (1 .. n) = L[n].gone
        BY <2>3, <4>1
      <4>3. L[j].gone = L[j - 1].gone \/ L[j].gone = L[j - 1].gone \cup {j}
        BY <1>2
      <4>4. L[j].gone \cap (1 .. n) = L[n].gone
        BY <4>1, <4>2, <4>3
      <4> QED BY <3>1, <4>4
    <3>4. CASE j < n
      BY <3>1, <3>4
    <3> QED BY <3>2, <3>3, <3>4, <1>1
  <2> HIDE DEF R
  <2>4. 0 .. N \subseteq R
    BY <1>1, <2>2, <2>3, UpTo
  <2>5. N \in R /\ N >= n
    BY <2>4, <1>1
  <2> QED BY <2>5 DEF R
<1>7. \A n \in 0 .. N : L[n].gone \subseteq 1 .. n /\ L[n].freed \in Nat
  BY <1>5 DEF T
<1> QED BY <1>6, <1>7

\* An eviction counts what it removes.
LEMMA SumEvicted ==
    ASSUME NEW items \in Seq(ItemType), OneItem(items), NEW files, NEW toFree, NEW L,
           Picks(items, files, toFree, L), NEW names,
           names = {items[n].inode : n \in L[Len(items)].gone},
           NEW K, Keeps(items, names, K)
    PROVE  /\ K[Len(items)] \in Seq(ItemType) /\ OneItem(K[Len(items)])
           /\ L[Len(items)].freed \in Nat
           /\ Sizes(K[Len(items)]) = Sizes(items) - L[Len(items)].freed
<1> DEFINE N == Len(items)
           D == [n \in 0 .. N |-> L[n].freed]
<1>1. N \in Nat /\ DOMAIN items = 1 .. N /\ \A n \in 1 .. N : items[n].size \in Nat
  BY ItemFacts
<1>2. /\ L[0].gone = {} /\ L[0].freed = 0
      /\ \A n \in 1 .. Len(items) :
            \/ L[n].gone = L[n - 1].gone /\ L[n].freed = L[n - 1].freed
            \/ /\ L[n].gone = L[n - 1].gone \cup {n}
               /\ L[n].freed = L[n - 1].freed + items[n].size
  BY PicksRounds
<1>3. \A n \in 0 .. N : /\ L[n].gone \subseteq 1 .. n /\ L[n].freed \in Nat
                        /\ L[N].gone \cap (1 .. n) = L[n].gone
  BY PicksStay
<1>4. ASSUME NEW n \in 1 .. N PROVE items[n].inode \in names <=> n \in L[n].gone
  <2>1. n \in 0 .. N /\ N \in 0 .. N /\ n \in 1 .. n
    BY <1>1
  <2>2. L[N].gone \subseteq 1 .. N /\ L[N].gone \cap (1 .. n) = L[n].gone
    BY <2>1, <1>3
  <2>3. n \in L[n].gone <=> n \in L[N].gone
    BY <2>1, <2>2
  <2>4. ASSUME items[n].inode \in names PROVE n \in L[N].gone
    <3>1. PICK m \in L[N].gone : items[n].inode = items[m].inode
      BY <2>4
    <3>2. m \in DOMAIN items /\ n \in DOMAIN items
      BY <3>1, <2>2, <1>1
    <3>3. m = n
      BY <3>1, <3>2 DEF OneItem
    <3> QED BY <3>1, <3>3
  <2>5. n \in L[N].gone => items[n].inode \in names
    OBVIOUS
  <2> QED BY <2>3, <2>4, <2>5
<1>5. D \in [0 .. N -> Nat] /\ D[0] = 0
  BY <1>1, <1>2, <1>3
<1>6. ASSUME NEW n \in 1 .. N
      PROVE  D[n] = D[n - 1] + IF items[n].inode \in names THEN items[n].size ELSE 0
  <2>1. n \in 0 .. N /\ n - 1 \in 0 .. N /\ n \notin 1 .. (n - 1)
    BY <1>1
  <2>2. D[n] = L[n].freed /\ D[n - 1] = L[n - 1].freed /\ D[n - 1] \in Nat
    BY <2>1, <1>5
  <2>3. n \notin L[n - 1].gone
    BY <2>1, <1>3
  <2>4. CASE items[n].inode \in names
    <3>1. L[n].freed = L[n - 1].freed + items[n].size
      BY <2>3, <2>4, <1>2, <1>4
    <3> QED BY <3>1, <2>2, <2>4
  <2>5. CASE items[n].inode \notin names
    <3>1. L[n].freed = L[n - 1].freed
      BY <2>5, <1>2, <1>4
    <3> QED BY <3>1, <2>2, <2>5
  <2> QED BY <2>4, <2>5
<1>7. D[N] = L[N].freed /\ L[N].freed \in Nat
  BY <1>1, <1>3
<1> HIDE DEF D
<1>8. K[N] \in Seq(ItemType) /\ Sizes(K[N]) = Sizes(items) - D[N]
  <2>1. Drops(items, names, D)
    BY <1>5, <1>6 DEF Drops
  <2>2. /\ K[Len(items)] \in Seq(ItemType)
        /\ Sizes(K[Len(items)]) = Sizes(items) - D[Len(items)]
    BY <2>1, SumKept
  <2> QED BY <2>2
<1>9. OneItem(K[N])
  BY OneKept
<1> QED BY <1>7, <1>8, <1>9

-----------------------------------------------------------------------------
(* What the disk cache's operations do to the list and to its sum.         *)

\* A sum is a number.
LEMMA SumType ==
    ASSUME NEW items \in Seq(ItemType)
    PROVE  Sizes(items) \in Nat
<1>1. PICK S \in [0 .. Len(items) -> Nat] : Sizes(items) = S[Len(items)]
  BY SumIs
<1>2. Len(items) \in 0 .. Len(items)
  BY ItemFacts
<1> QED BY <1>1, <1>2

\* A counter is a number.
LEMMA WrapType == ASSUME NEW n \in Int PROVE Wrap(n) \in Nat
<1>1. Word \in Nat /\ Word > 0
  BY StoreAssumptions
<1> QED BY <1>1 DEF Wrap

\* A counter that changes as the sum does stays the sum.
LEMMA Recounted ==
    ASSUME ListOK, NEW items \in Seq(ItemType), NEW d \in Int,
           Sizes(items) = Sizes(cacheItems) + d
    PROVE  Wrap(usedCap + d) = Wrap(Sizes(items)) /\ usedCap \in Nat
<1>1. Word \in Nat /\ Word > 0
  BY StoreAssumptions
<1>2. Sizes(cacheItems) \in Nat /\ usedCap = Sizes(cacheItems) % Word
  BY SumType DEF ListOK, Wrap
<1>3. ((Sizes(cacheItems) % Word) + d) % Word = (Sizes(cacheItems) + d) % Word
  <2>1. \A a \in Int : ((a % Word) + d) % Word = (a + d) % Word
    BY <1>1, Modulo
  <2>2. Sizes(cacheItems) \in Int
    BY <1>2
  <2> QED BY <2>1, <2>2
<1>4. usedCap \in Nat
  BY <1>2, WrapType DEF Wrap
<1> QED BY <1>2, <1>3, <1>4 DEF Wrap

\* The one item of a file.
LEMMA SlotIs ==
    ASSUME ListOK, NEW i, InCache(i)
    PROVE  \E k \in DOMAIN cacheItems :
              /\ Slot(i) = {k} /\ Item(i) = cacheItems[k]
              /\ Item(i) \in ItemType /\ Item(i).inode = i /\ Item(i).size \in Nat /\ Item(i).refs \in Nat
<1>1. PICK k : k \in Slot(i)
  BY DEF InCache
<1>2. k \in DOMAIN cacheItems /\ cacheItems[k].inode = i
  BY <1>1 DEF Slot
<1>3. Slot(i) = {k}
  BY <1>1, <1>2 DEF Slot, ListOK, OneItem
<1>4. Item(i) = cacheItems[k]
  BY <1>3 DEF Item
<1>5. cacheItems[k] \in ItemType /\ cacheItems[k].size \in Nat /\ cacheItems[k].refs \in Nat
  BY <1>2, ItemFacts DEF ListOK
<1> QED BY <1>2, <1>3, <1>4, <1>5

\* A change of a file's item.
LEMMA SetItemList ==
    ASSUME ListOK, NEW i, InCache(i), NEW new \in ItemType, new.inode = i
    PROVE  /\ SetItem(i, new) \in Seq(ItemType) /\ OneItem(SetItem(i, new))
           /\ Sizes(SetItem(i, new)) = Sizes(cacheItems) + (new.size - Item(i).size)
           /\ Item(i).size \in Nat /\ new.size \in Nat
<1>1. PICK k \in DOMAIN cacheItems : /\ Slot(i) = {k} /\ Item(i) = cacheItems[k]
                                     /\ Item(i).inode = i /\ Item(i).size \in Nat
  BY SlotIs
<1> DEFINE s == [n \in DOMAIN cacheItems |-> IF n = k THEN new ELSE cacheItems[n]]
           N == Len(cacheItems)
<1>2. SetItem(i, new) = s
  BY <1>1 DEF SetItem
<1>3. /\ cacheItems \in Seq(ItemType) /\ OneItem(cacheItems)
      /\ N \in Nat /\ DOMAIN cacheItems = 1 .. N
      /\ \A n \in 1 .. N : cacheItems[n] \in ItemType
  BY ItemFacts DEF ListOK
<1>4. s \in [1 .. N -> ItemType] /\ s[k] = new
      /\ \A n \in 1 .. N : n # k => s[n] = cacheItems[n]
  BY <1>1, <1>3
<1> HIDE DEF s
<1>5. s \in Seq(ItemType) /\ Len(s) = N /\ DOMAIN s = 1 .. N
  BY <1>3, <1>4
<1>6. OneItem(s)
  <2>1. \A n \in 1 .. N : s[n].inode = cacheItems[n].inode
    BY <1>1, <1>4
  <2> QED BY <2>1, <1>3, <1>5 DEF OneItem
<1>7. new.size \in Nat
  BY DEF ItemType
<1>8. Sizes(s) = (Sizes(cacheItems) + s[k].size) - cacheItems[k].size
  <2>1. \A n \in 1 .. N : n # k => s[n].size = cacheItems[n].size
    BY <1>4
  <2> QED BY <2>1, <1>1, <1>3, <1>5, SumChanged
<1>9. Sizes(cacheItems) \in Nat
  BY <1>3, SumType
<1>10. Sizes(s) = Sizes(cacheItems) + (new.size - Item(i).size)
  BY <1>1, <1>4, <1>7, <1>8, <1>9
<1> QED BY <1>1, <1>2, <1>5, <1>6, <1>7, <1>10

\* The list and its counter as they are.
LEMMA ListKept ==
    ASSUME ListOK, cacheItems' = cacheItems, usedCap' = usedCap
    PROVE  ListOK'
BY DEF ListOK, OneItem, Wrap

\* A list in which the item of a file has another size.
LEMMA ListSet ==
    ASSUME ListOK, NEW i, InCache(i), NEW new \in ItemType, new.inode = i,
           cacheItems' = SetItem(i, new), usedCap' = Wrap(usedCap + (new.size - Item(i).size))
    PROVE  ListOK'
<1> DEFINE s == SetItem(i, new)
           d == new.size - Item(i).size
<1>1. /\ s \in Seq(ItemType) /\ OneItem(s) /\ Sizes(s) = Sizes(cacheItems) + d /\ d \in Int
  BY SetItemList
<1> HIDE DEF s, d
<1>2. Wrap(usedCap + d) = Wrap(Sizes(s))
  BY <1>1, Recounted
<1>3. usedCap' = Wrap(usedCap + d) /\ cacheItems' = s
  BY DEF s, d
<1> QED BY <1>1, <1>2, <1>3 DEF ListOK, OneItem, Wrap

\* A pin more or less.
LEMMA ListRefs ==
    ASSUME ListOK, NEW i, InCache(i), NEW r \in Nat, usedCap' = usedCap,
           cacheItems' = SetItem(i, [Item(i) EXCEPT !.refs = r])
    PROVE  ListOK'
<1> DEFINE new == [Item(i) EXCEPT !.refs = r]
<1>1. Item(i) \in ItemType /\ Item(i).inode = i /\ Item(i).size \in Nat
  BY SlotIs
<1>2. new \in ItemType /\ new.inode = i /\ new.size = Item(i).size
  BY <1>1 DEF ItemType
<1> HIDE DEF new
<1>3. new.size - Item(i).size = 0
  BY <1>1, <1>2
<1>4. usedCap \in Nat /\ Wrap(usedCap) = usedCap
  <2>1. Sizes(cacheItems) \in Nat /\ Sizes(cacheItems) = Sizes(cacheItems) + 0
    BY SumType DEF ListOK
  <2>2. Wrap(usedCap + 0) = Wrap(Sizes(cacheItems)) /\ usedCap \in Nat
    BY <2>1, Recounted DEF ListOK
  <2> QED BY <2>2 DEF ListOK
<1>5. usedCap' = Wrap(usedCap + (new.size - Item(i).size))
  BY <1>3, <1>4
<1>6. cacheItems' = SetItem(i, new)
  BY DEF new
<1> QED BY <1>2, <1>5, <1>6, ListSet

\* Find (disk_cache.cpp) adds a pin or nothing.
LEMMA FindList ==
    ASSUME ListOK, NEW i, NEW b, Find(i, b), usedCap' = usedCap
    PROVE  ListOK'
<1>1. CASE InCache(i) /\ b
  <2>1. Item(i).refs + 1 \in Nat
    BY <1>1, SlotIs
  <2>2. cacheItems' = SetItem(i, [Item(i) EXCEPT !.refs = Item(i).refs + 1])
    BY <1>1 DEF Find, Pin
  <2> QED BY <1>1, <2>1, <2>2, ListRefs
<1>2. CASE ~ (InCache(i) /\ b)
  BY <1>2, ListKept DEF Find
<1> QED BY <1>1, <1>2

\* The same of Unpin.
LEMMA UnpinList ==
    ASSUME ListOK, NEW i, Unpin(i), usedCap' = usedCap
    PROVE  ListOK'
<1>1. CASE InCache(i) /\ Item(i).refs > 0
  <2>1. Item(i).refs - 1 \in Nat
    BY <1>1, SlotIs
  <2>2. cacheItems' = SetItem(i, [Item(i) EXCEPT !.refs = Item(i).refs - 1])
    BY <1>1 DEF Unpin
  <2> QED BY <1>1, <2>1, <2>2, ListRefs
<1>2. CASE ~ (InCache(i) /\ Item(i).refs > 0)
  BY <1>2, ListKept DEF Unpin
<1> QED BY <1>1, <1>2

\* An item gets a size.
LEMMA ListSize ==
    ASSUME ListOK, NEW i, InCache(i), NEW n \in Nat,
           cacheItems' = SetItem(i, [Item(i) EXCEPT !.size = n]),
           usedCap' = Wrap(usedCap + (n - Item(i).size))
    PROVE  ListOK'
<1> DEFINE new == [Item(i) EXCEPT !.size = n]
<1>1. Item(i) \in ItemType /\ Item(i).inode = i
  BY SlotIs
<1>2. new \in ItemType /\ new.inode = i /\ new.size = n
  BY <1>1 DEF ItemType
<1> HIDE DEF new
<1>3. cacheItems' = SetItem(i, new)
  BY DEF new
<1> QED BY <1>2, <1>3, ListSet

\* InsertAndUpdate changes the size of the item or adds one.
LEMMA InsertList ==
    ASSUME ListOK, NEW i \in Inodes, NEW n \in Nat, NEW b, InsertAndUpdate(i, n, b)
    PROVE  ListOK'
<1>0. usedCap \in Nat
  <2>1. Sizes(cacheItems) \in Nat
    BY SumType DEF ListOK
  <2> QED BY <2>1, WrapType DEF ListOK
<1>1. CASE InCache(i)
  <2>1. Item(i).size \in Nat
    BY <1>1, SlotIs
  <2>2. cacheItems' = SetItem(i, [Item(i) EXCEPT !.size = n])
        /\ usedCap' = Wrap(usedCap + n - Item(i).size)
    BY <1>1 DEF InsertAndUpdate
  <2>3. usedCap + n - Item(i).size = usedCap + (n - Item(i).size)
    BY <1>0, <2>1
  <2> QED BY <1>1, <2>2, <2>3, ListSize
<1>2. CASE ~ InCache(i)
  <2> DEFINE x == [inode |-> i, size |-> n, refs |-> IF b THEN 1 ELSE 0]
             s == Append(cacheItems, x)
             N == Len(cacheItems)
  <2>1. x \in ItemType /\ x.size = n /\ x.inode = i
    BY DEF ItemType
  <2> HIDE DEF x
  <2>2. cacheItems' = s /\ usedCap' = Wrap(usedCap + n - 0)
    BY <1>2 DEF InsertAndUpdate, x
  <2>3. cacheItems \in Seq(ItemType) /\ OneItem(cacheItems)
    BY DEF ListOK
  <2>4. s \in Seq(ItemType) /\ Sizes(s) = Sizes(cacheItems) + n
    BY <2>1, <2>3, SumAppend
  <2>5. /\ N \in Nat /\ DOMAIN cacheItems = 1 .. N /\ DOMAIN s = 1 .. N + 1
        /\ s[N + 1] = x /\ \A m \in 1 .. N : s[m] = cacheItems[m]
    BY <2>1, <2>3
  <2> HIDE DEF s
  <2>6. \A m \in 1 .. N : cacheItems[m].inode # i
    BY <1>2, <2>5 DEF InCache, Slot
  <2>7. OneItem(s)
    <3> SUFFICES ASSUME NEW k \in 1 .. N + 1, NEW m \in 1 .. N + 1, s[k].inode = s[m].inode
                 PROVE  k = m
      BY <2>5 DEF OneItem
    <3>1. CASE k \in 1 .. N /\ m \in 1 .. N
      <4>1. cacheItems[k].inode = cacheItems[m].inode
        BY <3>1, <2>5
      <4> QED BY <4>1, <3>1, <2>3, <2>5 DEF OneItem
    <3>2. CASE k = N + 1 /\ m \in 1 .. N
      BY <3>2, <2>1, <2>5, <2>6
    <3>3. CASE k \in 1 .. N /\ m = N + 1
      BY <3>3, <2>1, <2>5, <2>6
    <3> QED BY <3>1, <3>2, <3>3, <2>5
  <2>8. usedCap' = Wrap(Sizes(s))
    <3>1. Wrap(usedCap + n) = Wrap(Sizes(s))
      BY <2>4, Recounted
    <3>2. usedCap + n - 0 = usedCap + n
      BY <1>0
    <3> QED BY <3>1, <3>2, <2>2
  <2> QED BY <2>2, <2>4, <2>7, <2>8 DEF ListOK, OneItem, Wrap
<1> QED BY <1>1, <1>2

\* Add, of a file that is in the cache.
LEMMA AddList ==
    ASSUME ListOK, NEW i, InCache(i), NEW n \in Nat, AddTo(i, n)
    PROVE  ListOK'
<1>1. Item(i).size \in Nat
  BY SlotIs
<1> DEFINE m == Item(i).size + n
<1>2. m \in Nat /\ m - Item(i).size = n
  BY <1>1
<1>3. cacheItems' = SetItem(i, [Item(i) EXCEPT !.size = m]) /\ usedCap' = Wrap(usedCap + n)
  BY DEF AddTo
<1> HIDE DEF m
<1> QED BY <1>2, <1>3, ListSize

\* Update grows the item, or leaves it.
LEMMA UpdateList ==
    ASSUME ListOK, NEW i, InCache(i), NEW n \in Nat, Update(i, n)
    PROVE  ListOK'
<1>1. Item(i).size \in Nat
  BY SlotIs
<1>2. CASE n <= Item(i).size
  BY <1>2, ListKept DEF Update
<1>3. CASE ~ (n <= Item(i).size)
  <2>1. n - Item(i).size \in Nat
    BY <1>1, <1>3
  <2> QED BY <1>3, <2>1, AddList DEF Update
<1> QED BY <1>2, <1>3

\* What is left of the list without some files.
LEMMA WithoutIs ==
    ASSUME ListOK, NEW names
    PROVE  \E K : Keeps(cacheItems, names, K) /\ Without(names) = K[Len(cacheItems)]
<1> DEFINE K == CHOOSE K : Keeps(cacheItems, names, K)
<1>1. Keeps(cacheItems, names, K)
  BY KeepsExists DEF ListOK
<1>2. Without(names) = K[Len(cacheItems)]
  BY DEF Without, Keeps
<1> HIDE DEF K
<1> QED BY <1>1, <1>2

\* The counter is less by what a list is less by.
LEMMA ListLess ==
    ASSUME ListOK, NEW s \in Seq(ItemType), OneItem(s), NEW d \in Nat,
           Sizes(s) = Sizes(cacheItems) - d, cacheItems' = s, usedCap' = Wrap(usedCap - d)
    PROVE  ListOK'
<1>1. Sizes(cacheItems) \in Nat
  BY SumType DEF ListOK
<1>2. 0 - d \in Int /\ Sizes(s) = Sizes(cacheItems) + (0 - d)
  BY <1>1
<1>3. Wrap(usedCap + (0 - d)) = Wrap(Sizes(s)) /\ usedCap \in Nat
  BY <1>2, Recounted
<1>4. usedCap - d = usedCap + (0 - d)
  BY <1>3
<1>5. usedCap' = Wrap(Sizes(s))
  BY <1>3, <1>4
<1> QED BY <1>5 DEF ListOK, OneItem, Wrap

\* Delete takes the item with the file, and counts it.
LEMMA DeleteList ==
    ASSUME ListOK, NEW i, Delete(i)
    PROVE  ListOK'
<1>1. CASE InCache(i) /\ disk[i].gen # 0
  <2>1. PICK k \in DOMAIN cacheItems : /\ Slot(i) = {k} /\ Item(i) = cacheItems[k]
                                       /\ Item(i).inode = i /\ Item(i).size \in Nat
    BY <1>1, SlotIs
  <2>2. PICK K : Keeps(cacheItems, {i}, K) /\ Without({i}) = K[Len(cacheItems)]
    BY WithoutIs
  <2> DEFINE N == Len(cacheItems)
             z == Item(i).size
             D == [n \in 0 .. N |-> IF n < k THEN 0 ELSE z]
  <2>3. cacheItems \in Seq(ItemType) /\ N \in Nat /\ DOMAIN cacheItems = 1 .. N
    BY ItemFacts DEF ListOK
  <2>4. Drops(cacheItems, {i}, D)
    <3>1. D \in [0 .. N -> Nat] /\ D[0] = 0
      BY <2>1, <2>3
    <3>2. ASSUME NEW n \in 1 .. N
          PROVE  D[n] = D[n - 1] + IF cacheItems[n].inode \in {i} THEN cacheItems[n].size ELSE 0
      <4>1. n \in 0 .. N /\ n - 1 \in 0 .. N /\ k \in Nat
        BY <2>3
      <4>2. cacheItems[n].inode = i <=> n = k
        BY <2>1, <2>3 DEF Slot
      <4>3. CASE n = k
        <5>1. D[n] = z /\ D[n - 1] = 0 /\ cacheItems[n].size = z
          BY <4>1, <4>3, <2>1
        <5> QED BY <5>1, <4>2, <4>3, <2>1
      <4>4. CASE n # k
        <5>1. D[n] = D[n - 1] /\ D[n - 1] \in Nat
          BY <4>1, <4>4, <2>1
        <5> HIDE DEF D
        <5> QED BY <5>1, <4>2, <4>4
      <4> QED BY <4>3, <4>4
    <3> HIDE DEF D
    <3> QED BY <3>1, <3>2 DEF Drops
  <2>5. D[N] = z
    BY <2>1, <2>3
  <2> HIDE DEF D, z
  <2>6. K[N] \in Seq(ItemType) /\ Sizes(K[N]) = Sizes(cacheItems) - D[N]
    BY <2>2, <2>3, <2>4, SumKept
  <2>7. OneItem(K[N])
    BY <2>2, <2>3, OneKept DEF ListOK
  <2>8. cacheItems' = K[N] /\ usedCap' = Wrap(usedCap - z) /\ z \in Nat
    BY <1>1, <2>1, <2>2 DEF Delete, z
  <2> HIDE DEF N
  <2> QED BY <2>5, <2>6, <2>7, <2>8, ListLess
<1>2. CASE ~ (InCache(i) /\ disk[i].gen # 0)
  BY <1>2, ListKept DEF Delete
<1> QED BY <1>1, <1>2

\* After a failure of the file's node.
LEMMA DeleteOldList ==
    ASSUME ListOK, NEW i, DeleteOldCacheWithNoPin(i)
    PROVE  ListOK'
BY DeleteList, ListKept DEF DeleteOldCacheWithNoPin

\* EvictItems takes the items of the files it removes, and counts them.
LEMMA EvictList ==
    ASSUME ListOK, NEW toFree, EvictItems(toFree)
    PROVE  ListOK'
<1> DEFINE N == Len(cacheItems)
           L == CHOOSE L : Picks(cacheItems, disk, toFree, L)
           v == L[N]
           names == {cacheItems[n].inode : n \in v.gone}
<1>1. cacheItems \in Seq(ItemType) /\ OneItem(cacheItems)
  BY DEF ListOK
<1>2. Picks(cacheItems, disk, toFree, L)
  BY <1>1, PicksExists
<1>3. Victims(toFree) = v
  BY DEF Victims, Picks
<1>4. cacheItems' = Without(names) /\ usedCap' = Wrap(usedCap - v.freed)
  BY <1>3 DEF EvictItems
<1> HIDE DEF L
<1>5. PICK K : Keeps(cacheItems, names, K) /\ Without(names) = K[N]
  BY WithoutIs
<1>6. /\ K[N] \in Seq(ItemType) /\ OneItem(K[N]) /\ v.freed \in Nat
      /\ Sizes(K[N]) = Sizes(cacheItems) - v.freed
  BY <1>1, <1>2, <1>5, SumEvicted
<1>7. cacheItems' = K[N]
  BY <1>4, <1>5
<1> HIDE DEF N, v
<1> QED BY <1>4, <1>6, <1>7, ListLess

-----------------------------------------------------------------------------
(* The steps.                                                              *)

\* PreAllocSpace evicts or leaves the list alone.
LEMMA AllocList ==
    ASSUME ListOK, NEW u, NEW n, NEW yes, NEW no, PreAllocSpace(u, n, yes, no)
    PROVE  ListOK'
<1>1. \/ cacheItems' = cacheItems /\ usedCap' = usedCap
      \/ CleanupForEvict(n)
  BY DEF PreAllocSpace
<1>2. CASE CleanupForEvict(n)
  BY <1>2, EvictList DEF CleanupForEvict
<1> QED BY <1>1, <1>2, ListKept

\* Where a user's size and inode come from.
LEMMA UserFacts ==
    ASSUME FilesOK, ControlOK, NEW u \in Users
    PROVE  I(u) \in Inodes /\ size[u] \in Nat
BY DEF FilesOK, ControlOK, I, Requests

\* The list while a file is opened.
LEMMA ListOpening ==
    ASSUME FilesOK, ControlOK, ListOK, NEW u \in Users, Opening(u)
    PROVE  ListOK'
<1>0. I(u) \in Inodes /\ size[u] \in Nat
  BY UserFacts
<1>1. CASE Begin(u)
  BY <1>1, DeleteOldList, ListKept DEF Begin
<1>2. CASE OpenFind(u)
  BY <1>2, FindList DEF OpenFind
<1>3. CASE OpenMissing(u) \/ Make(u)
  BY <1>3, ListKept DEF OpenMissing, Make, cache
<1>4. CASE OpenHit(u)
  <2>1. usedCap' = usedCap /\ (Unpin(I(u)) \/ cacheItems' = cacheItems)
    BY <1>4 DEF OpenHit
  <2> QED BY <2>1, UnpinList, ListKept
<1>5. CASE SmallHit(u)
  BY <1>5, UnpinList DEF SmallHit
<1>6. CASE InsertNew(u)
  BY <1>0, <1>6, InsertList DEF InsertNew
<1> QED BY <1>1, <1>2, <1>3, <1>4, <1>5, <1>6 DEF Opening

\* The list while a file is loaded.
LEMMA ListLoading ==
    ASSUME FilesOK, ControlOK, ListOK, NEW u \in Users, Loading(u)
    PROVE  ListOK'
<1>0. I(u) \in Inodes
  BY UserFacts
<1>1. CASE InnerGetFileLock(u) \/ WaitGetFileLock(u) \/ LoadNoSpace(u) \/ LoadOpen(u)
  BY <1>1, ListKept DEF InnerGetFileLock, WaitGetFileLock, LoadNoSpace, LoadOpen, cache
<1>2. CASE LoadFind(u)
  BY <1>2, FindList DEF LoadFind
<1>3. CASE LoadAlloc(u) \/ SmallAlloc(u)
  BY <1>3, AllocList DEF LoadAlloc, SmallAlloc
<1>4. CASE LoadFetch(u) \/ LoadFree(u) \/ FetchSmall(u)
  BY <1>4, ListKept DEF LoadFetch, LoadFree, FetchSmall, cache
<1>5. CASE LoadInsert(u)
  BY <1>0, <1>5, InsertList DEF LoadInsert
<1>6. CASE SmallLock(u) \/ SmallFind(u) \/ SmallOpen(u)
  BY <1>6, ListKept DEF SmallLock, SmallFind, SmallOpen, cache
<1> QED BY <1>1, <1>2, <1>3, <1>4, <1>5, <1>6 DEF Loading

\* The list while a file is read, written, flushed, closed and deleted.
LEMMA ListUsing ==
    ASSUME FilesOK, ControlOK, ListOK, NEW u \in Users, Using(u)
    PROVE  ListOK'
<1>0. I(u) \in Inodes /\ size[u] \in Nat
  BY UserFacts
<1>1. CASE ReadFileLR(u) \/ Pwrite(u) \/ WriteFree(u) \/ WriteFail(u)
  BY <1>1, ListKept DEF ReadFileLR, Pwrite, WriteFree, WriteFail, cache
<1>2. CASE WriteAlloc(u)
  BY <1>2, AllocList DEF WriteAlloc
<1>3. CASE PersistToFileAdd(u)
  <2>1. CASE InCache(I(u))
    BY <1>3, <2>1, AddList DEF PersistToFileAdd
  <2>2. CASE ~ InCache(I(u))
    BY <1>3, <2>2, ListKept DEF PersistToFileAdd
  <2> QED BY <2>1, <2>2
<1>4. CASE WriteLocalFileForBrpcUpdate(u)
  <2>1. CASE InCache(I(u))
    <3>1. size[u] + 1 \in Nat /\ Update(I(u), size[u] + 1)
      BY <1>0, <1>4, <2>1 DEF WriteLocalFileForBrpcUpdate
    <3> QED BY <2>1, <3>1, UpdateList
  <2>2. CASE ~ InCache(I(u))
    BY <1>4, <2>2, ListKept DEF WriteLocalFileForBrpcUpdate
  <2> QED BY <2>1, <2>2
<1>5. CASE FlushSize(u)
  <2>1. \/ InsertAndUpdate(I(u), size[u], FALSE)
        \/ cacheItems' = cacheItems /\ usedCap' = usedCap
    BY <1>5 DEF FlushSize
  <2> QED BY <1>0, <2>1, InsertList, ListKept
<1>6. CASE FlushToStorage(u) \/ DeleteObject(u)
  BY <1>6, ListKept DEF FlushToStorage, DeleteObject, cache
<1>7. CASE CloseFile(u)
  BY <1>7, UnpinList DEF CloseFile
<1>8. CASE DeleteFiles(u)
  BY <1>8, DeleteList DEF DeleteFiles
<1> QED BY <1>1, <1>2, <1>3, <1>4, <1>5, <1>6, <1>7, <1>8 DEF Using

\* The thread pool and the background cleanup.
LEMMA ListPool ==
    ASSUME FilesOK, ControlOK, ListOK, PoolStep \/ CheckFreeSpace \/ UNCHANGED vars
    PROVE  ListOK'
<1>1. ASSUME NEW t \in tasks, TaskFetch(t) \/ TaskInsert(t) \/ TaskFree(t) PROVE ListOK'
  <2>1. t.inode \in Inodes
    BY DEF ControlOK, TaskType
  <2>2. CASE TaskFetch(t)
    BY <2>2, ListKept DEF TaskFetch, cache
  <2>3. CASE TaskInsert(t)
    BY <2>1, <2>3, InsertList DEF TaskInsert
  <2>4. CASE TaskFree(t)
    BY <2>4, ListKept DEF TaskFree
  <2> QED BY <1>1, <2>2, <2>3, <2>4
<1>2. CASE CheckFreeSpace
  BY <1>2, EvictList DEF CheckFreeSpace
<1>3. CASE UNCHANGED vars
  BY <1>3, ListKept DEF vars, cache
<1> QED BY <1>1, <1>2, <1>3 DEF PoolStep

\* At first the files that are in the cache have an item each, of one block.
LEMMA ListInit ==
    ASSUME Init
    PROVE  ListOK /\ \A m \in DOMAIN cacheItems : cacheItems[m].inode \in Cached
<1> DEFINE item(i) == [inode |-> i, size |-> 1, refs |-> 0]
           Z == {item(i) : i \in Cached}
           f == [i \in Cached |-> item(i)]
           n == Cardinality(Cached)
<1>1. /\ IsFiniteSet(Cached) /\ n <= TotalCap /\ TotalCap \in Nat /\ Word \in Nat
      /\ Word > 2 * TotalCap /\ Cached \subseteq Inodes
  BY StoreAssumptions
<1>2. Z \subseteq ItemType /\ \A x \in Z : x.size = 1
  BY <1>1 DEF ItemType
<1>3. ExistsBijection(Cached, Z)
  <2>1. f \in [Cached -> Z]
    OBVIOUS
  <2>2. \A a, b \in Cached : f[a] = f[b] => a = b
    <3>1. \A a \in Cached : f[a].inode = a
      OBVIOUS
    <3> QED BY <3>1
  <2>3. \A z \in Z : \E i \in Cached : f[i] = z
    OBVIOUS
  <2>4. f \in Bijection(Cached, Z)
    BY <2>1, <2>2, <2>3 DEF Bijection, Injection, Surjection, IsInjective
  <2> QED BY <2>4 DEF ExistsBijection
<1>4. \A a, b \in Z : a.inode = b.inode => a = b
  OBVIOUS
<1>5. cacheItems = SetToSeq(Z) /\ usedCap = n
  BY DEF Init
<1> HIDE DEF Z, f
<1>6. IsFiniteSet(Z) /\ Cardinality(Z) = n
  BY <1>1, <1>3, FS_Bijection
<1>7. n \in Nat
  BY <1>1, FS_CardinalityType
<1>8. ExistsBijection(1 .. n, Z)
  BY <1>6, FS_CardinalityType
<1>9. PICK g : g \in [1 .. n -> Z] /\ IsInjective(g)
  BY <1>8 DEF ExistsBijection, Bijection, Injection
<1>10. cacheItems \in [1 .. n -> Z] /\ IsInjective(cacheItems)
  BY <1>5, <1>6, <1>9 DEF SetToSeq
<1>11. cacheItems \in Seq(ItemType) /\ Len(cacheItems) = n /\ DOMAIN cacheItems = 1 .. n
  <2>1. cacheItems \in [1 .. n -> ItemType]
    BY <1>2, <1>10
  <2> QED BY <2>1, <1>7
<1>12. OneItem(cacheItems)
  <2> SUFFICES ASSUME NEW a \in 1 .. n, NEW b \in 1 .. n, cacheItems[a].inode = cacheItems[b].inode
               PROVE  a = b
    BY <1>11 DEF OneItem
  <2>1. cacheItems[a] \in Z /\ cacheItems[b] \in Z
    BY <1>10
  <2>2. cacheItems[a] = cacheItems[b]
    BY <2>1, <1>4
  <2> QED BY <2>2, <1>10, <1>11 DEF IsInjective
<1>13. Sizes(cacheItems) = n
  <2>1. PICK S \in [0 .. n -> Nat] :
              /\ S[0] = 0 /\ \A m \in 1 .. n : S[m] = S[m - 1] + cacheItems[m].size
              /\ Sizes(cacheItems) = S[n]
    BY <1>11, SumIs
  <2>2. \A m \in 1 .. n : cacheItems[m].size = 1
    BY <1>2, <1>10
  <2> DEFINE T == {m \in 0 .. n : S[m] = m}
  <2>3. 0 \in T
    BY <2>1, <1>7
  <2>4. ASSUME NEW m \in 1 .. n, m - 1 \in T PROVE m \in T
    <3>1. S[m] = S[m - 1] + 1 /\ S[m - 1] = m - 1 /\ m \in 0 .. n
      BY <2>1, <2>2, <2>4, <1>7
    <3> QED BY <3>1
  <2> HIDE DEF T
  <2>5. 0 .. n \subseteq T
    BY <2>3, <2>4, <1>7, UpTo
  <2>6. n \in T
    BY <2>5, <1>7
  <2> QED BY <2>1, <2>6 DEF T
<1>14. Wrap(n) = n
  BY <1>1, <1>7 DEF Wrap
<1>15. \A m \in DOMAIN cacheItems : cacheItems[m].inode \in Cached
  <2>1. \A x \in Z : x.inode \in Cached
    BY DEF Z
  <2> QED BY <2>1, <1>10, <1>11
<1> QED BY <1>5, <1>11, <1>12, <1>13, <1>14, <1>15 DEF ListOK

(* The inductive invariant of the disk cache's list: with that of the      *)
(* store, one item for a file and the counter as the sum of the items      *)
(* (InsertAndUpdate, Add, Update, Delete, EvictItems of disk_cache.cpp).   *)
THEOREM SpaceInvariance == Spec => []SpaceInv
<1>1. Init => SpaceInv
  BY StoreInit, ListInit DEF SpaceInv
<1>2. StoreInv /\ ListOK /\ [Next]_vars => ListOK'
  <2> SUFFICES ASSUME StoreInv, ListOK, [Next]_vars PROVE ListOK'
    OBVIOUS
  <2>1. FilesOK /\ ControlOK
    BY DEF StoreInv, TypeOK
  <2>2. ASSUME NEW u \in Users, UserStep(u) PROVE ListOK'
    BY <2>1, <2>2, ListOpening, ListLoading, ListUsing DEF UserStep
  <2> QED BY <2>1, <2>2, ListPool DEF Next
<1>3. Init /\ [][Next]_vars => []StoreInv
  BY StoreInvariance DEF Spec
<1>4. Init => ListOK
  BY ListInit
<1> QED BY <1>2, <1>3, <1>4, PTL DEF Spec, SpaceInv

(* Whatever the order of loads, writes, flushes, evictions and deletions,  *)
(* and whatever fails, the disk cache's counter is the sum of the sizes of *)
(* its items, in the counter's width, and what is reserved is reserved by  *)
(* somebody (disk_cache.cpp).                                              *)
THEOREM SpaceHolds == Spec => []SpaceAccounted
<1>1. SpaceInv => SpaceAccounted
  BY DEF SpaceInv, StoreInv, ListOK, SpaceAccounted
<1> QED BY <1>1, SpaceInvariance, PTL
-----------------------------------------------------------------------------
(* The first file of a path is not read in part.                           *)

Kept(i) == Reloaded(i) \/ Made(i) \/ KeptWhole(i)
Good(i) == KeptWhole(i) /\ ~ Made(i) /\ ~ Reloaded(i)

\* A file's item stays the file's.
LEMMA SlotsKept ==
    ASSUME ListOK, NEW i, NEW j, InCache(j), NEW new, new.inode = j,
           cacheItems' = SetItem(j, new), InCache(i)'
    PROVE  InCache(i)
<1>1. PICK n \in DOMAIN cacheItems' : cacheItems'[n].inode = i
  BY DEF InCache, Slot
<1>2. /\ n \in DOMAIN cacheItems
      /\ cacheItems'[n] = IF cacheItems[n].inode = j THEN new ELSE cacheItems[n]
  BY <1>1 DEF SetItem, Slot
<1>3. cacheItems[n].inode = i
  BY <1>1, <1>2
<1> QED BY <1>2, <1>3 DEF InCache, Slot

\* Find, Unpin, Add and Update enter no file.
LEMMA PinsKept ==
    ASSUME ListOK, NEW i, NEW j, InCache(i)',
           \/ \E b : Find(j, b)
           \/ Unpin(j)
           \/ InCache(j) /\ \E n : AddTo(j, n) \/ Update(j, n)
           \/ cacheItems' = cacheItems
    PROVE  InCache(i)
<1>0. cacheItems' = cacheItems => InCache(i)
  BY DEF InCache, Slot
<1>1. ASSUME InCache(j), NEW r, cacheItems' = SetItem(j, [Item(j) EXCEPT !.refs = r])
             \/ cacheItems' = SetItem(j, [Item(j) EXCEPT !.size = r])
      PROVE  InCache(i)
  <2>1. Item(j) \in ItemType /\ Item(j).inode = j
    BY <1>1, SlotIs
  <2>2. [Item(j) EXCEPT !.refs = r].inode = j /\ [Item(j) EXCEPT !.size = r].inode = j
    BY <2>1 DEF ItemType
  <2> QED BY <1>1, <2>2, SlotsKept
<1>2. CASE \E b : Find(j, b)
  BY <1>0, <1>1, <1>2 DEF Find, Pin
<1>3. CASE Unpin(j)
  BY <1>0, <1>1, <1>3 DEF Unpin
<1>4. CASE InCache(j) /\ \E n : AddTo(j, n) \/ Update(j, n)
  BY <1>0, <1>1, <1>4 DEF AddTo, Update
<1> QED BY <1>0, <1>2, <1>3, <1>4

\* InsertAndUpdate enters one file.
LEMMA InsertEnters ==
    ASSUME ListOK, NEW i, NEW j, NEW n, NEW b, InsertAndUpdate(j, n, b), InCache(i)'
    PROVE  InCache(i) \/ i = j
<1>1. CASE InCache(j)
  <2>1. Item(j) \in ItemType /\ Item(j).inode = j
    BY <1>1, SlotIs
  <2>2. [Item(j) EXCEPT !.size = n].inode = j
    BY <2>1 DEF ItemType
  <2>3. cacheItems' = SetItem(j, [Item(j) EXCEPT !.size = n])
    BY <1>1 DEF InsertAndUpdate
  <2> QED BY <1>1, <2>2, <2>3, SlotsKept
<1>2. CASE ~ InCache(j)
  <2> DEFINE x == [inode |-> j, size |-> n, refs |-> IF b THEN 1 ELSE 0]
  <2>1. cacheItems' = Append(cacheItems, x)
    BY <1>2 DEF InsertAndUpdate
  <2>2. x.inode = j
    OBVIOUS
  <2> HIDE DEF x
  <2>3. PICK m \in DOMAIN cacheItems' : cacheItems'[m].inode = i
    BY DEF InCache, Slot
  <2>4. cacheItems \in Seq(ItemType) /\ Len(cacheItems) \in Nat /\ DOMAIN cacheItems = 1 .. Len(cacheItems)
    BY ItemFacts DEF ListOK
  <2>5. DOMAIN cacheItems' = 1 .. Len(cacheItems) + 1
        /\ cacheItems'[m] = IF m = Len(cacheItems) + 1 THEN x ELSE cacheItems[m]
    BY <2>1, <2>3, <2>4
  <2>6. CASE m = Len(cacheItems) + 1
    BY <2>2, <2>3, <2>5, <2>6
  <2>7. CASE m # Len(cacheItems) + 1
    <3>1. m \in DOMAIN cacheItems /\ cacheItems[m].inode = i
      BY <2>3, <2>4, <2>5, <2>7
    <3> QED BY <3>1 DEF InCache, Slot
  <2> QED BY <2>6, <2>7
<1> QED BY <1>1, <1>2

\* What is left of the list was there.
LEMMA WithoutKept ==
    ASSUME ListOK, NEW i, NEW names, cacheItems' = Without(names), InCache(i)'
    PROVE  InCache(i)
<1>1. PICK K : Keeps(cacheItems, names, K) /\ Without(names) = K[Len(cacheItems)]
  BY WithoutIs
<1> DEFINE s == K[Len(cacheItems)]
<1>2. /\ s \in Seq(ItemType) /\ \A m \in 1 .. Len(s) : \E j \in 1 .. Len(cacheItems) : s[m] = cacheItems[j]
  BY <1>1, OneKept DEF ListOK
<1>3. cacheItems' = s
  BY <1>1
<1> HIDE DEF s
<1>4. PICK m \in DOMAIN s : s[m].inode = i
  BY <1>3 DEF InCache, Slot
<1>5. PICK j \in 1 .. Len(cacheItems) : s[m] = cacheItems[j]
  BY <1>2, <1>4
<1>6. j \in DOMAIN cacheItems /\ cacheItems[j].inode = i
  BY <1>4, <1>5 DEF ListOK
<1> QED BY <1>6 DEF InCache, Slot

\* Files and items that go or stay as they are.
Dropped(i) == (disk'[i] = disk[i] \/ disk'[i] = NoFile) /\ (InCache(i)' => InCache(i))

\* A removal, an eviction and a wait for space.
LEMMA DropsOnly ==
    ASSUME StoreInv, ListOK, NEW i \in Inodes, NEW j \in Inodes,
           \/ Delete(j)
           \/ DeleteOldCacheWithNoPin(j)
           \/ \E n : EvictItems(n)
           \/ \E u, n, yes, no : PreAllocSpace(u, n, yes, no)
           \/ UNCHANGED <<disk, cacheItems>>
    PROVE  Dropped(i)
<1>0. disk' = disk /\ cacheItems' = cacheItems => Dropped(i)
  BY DEF Dropped, InCache, Slot
<1>1. disk \in [Inodes -> [gen: Nat, data: Contents, blocks: Nat]]
  BY FileTypes DEF FilesOK
<1>2. ASSUME Delete(j) PROVE Dropped(i)
  <2>1. CASE disk' = [disk EXCEPT ![j] = NoFile] /\ cacheItems' = Without({j})
    BY <1>1, <2>1, WithoutKept DEF Dropped
  <2> QED BY <1>0, <1>2, <2>1 DEF Delete
<1>3. ASSUME NEW n, EvictItems(n) PROVE Dropped(i)
  <2>1. PICK names : cacheItems' = Without(names)
                     /\ disk' = [k \in Inodes |-> IF k \in names THEN NoFile ELSE disk[k]]
    BY <1>3 DEF EvictItems
  <2> QED BY <1>1, <2>1, WithoutKept DEF Dropped
<1>4. CASE DeleteOldCacheWithNoPin(j)
  BY <1>0, <1>2, <1>4 DEF DeleteOldCacheWithNoPin
<1>5. CASE \E u, n, yes, no : PreAllocSpace(u, n, yes, no)
  BY <1>0, <1>3, <1>5 DEF PreAllocSpace, CleanupForEvict
<1> QED BY <1>0, <1>2, <1>3, <1>4, <1>5

\* The other users and their files, in a step of u.
Alone(u) ==
    /\ job' = job
    /\ \A v \in Users \ {u} : pc'[v] = pc[v] /\ fd'[v] = fd[v] /\ ret'[v] = ret[v] /\ answer'[v] = answer[v]

\* What a whole file gives others does not change while it is whole.
LEMMA OthersKept ==
    ASSUME NEW u, NEW v \in Users \ {u}, Alone(u), UserKept(v), NEW i, I(v) = i,
           gens[i] = FirstGen(i) => gens'[i] = FirstGen(i), Whole(i) => Whole(i)'
    PROVE  UserKept(v)'
<1>1. I(v)' = i /\ Kind(v)' = Kind(v)
  BY DEF Alone, I, Kind
<1>2. Shows(v)' = Shows(v)
  BY DEF Alone, Shows
<1> QED BY <1>1, <1>2 DEF UserKept, Alone, FirstGen

\* Tasks that stay keep what they know of the file.
LEMMA TasksKept ==
    ASSUME NEW t, TaskKept(t),
           gens[t.inode] = FirstGen(t.inode) => gens'[t.inode] = FirstGen(t.inode),
           Whole(t.inode) => Whole(t.inode)'
    PROVE  TaskKept(t)'
BY DEF TaskKept, FirstGen

\* The step of a user: the file stays what it has to be, and u and its task know it.
LEMMA UserMoves ==
    ASSUME NEW u \in Users, NEW i \in Inodes, Kept(i), Alone(u), StoreInv,
           gens'[i] \in Nat, gens[i] <= gens'[i],
           Good(i) /\ ~ Reloaded(i)' =>
              /\ FileKept(i)' /\ (Whole(i) => Whole(i)')
              /\ I(u) = i => UserKept(u)'
              /\ \A t \in tasks' : t.inode = i => t \in tasks \/ TaskKept(t)'
    PROVE  Kept(i)'
<1> SUFFICES ASSUME ~ Made(i)', ~ Reloaded(i)' PROVE KeptWhole(i)'
  BY DEF Kept
<1>1. \A v \in Users : I(v)' = I(v) /\ Kind(v)' = Kind(v)
  BY DEF Alone, I, Kind
<1>2. ~ Made(i)
  BY <1>1 DEF Made
<1>3. gens[i] \in Nat /\ FirstGen(i) \in Nat /\ FirstGen(i)' = FirstGen(i)
  BY FileTypes DEF FirstGen
<1>4. ~ Reloaded(i) /\ gens'[i] <= FirstGen(i)
  BY <1>3 DEF Reloaded
<1>5. Good(i)
  BY <1>2, <1>4 DEF Kept, Good
<1>6. gens[i] = FirstGen(i) => gens'[i] = FirstGen(i)
  BY <1>3, <1>4
<1>7. /\ FileKept(i)' /\ (Whole(i) => Whole(i)')
      /\ I(u) = i => UserKept(u)'
      /\ \A t \in tasks' : t.inode = i => t \in tasks \/ TaskKept(t)'
  BY <1>5
<1>8. ASSUME NEW t \in tasks', t.inode = i PROVE TaskKept(t)'
  BY <1>5, <1>6, <1>7, <1>8, TasksKept DEF Good, KeptWhole
<1>9. ASSUME NEW v \in Users, I(v)' = i PROVE UserKept(v)'
  <2>1. I(v) = i
    BY <1>1, <1>9
  <2>2. UserKept(v)
    BY <1>5, <2>1 DEF Good, KeptWhole
  <2> QED BY <1>6, <1>7, <2>1, <2>2, OthersKept
<1> QED BY <1>7, <1>8, <1>9 DEF KeptWhole

\* A file that stays or goes, with an item only if it was shown.
LEMMA DroppedKept ==
    ASSUME NEW i \in Inodes, FileKept(i), disk'[i] = disk[i] \/ disk'[i] = NoFile,
           gens'[i] = gens[i], object'[i] # Partial, InCache(i)' => InCache(i) \/ Whole(i)
    PROVE  FileKept(i)' /\ (Whole(i) => Whole(i)')
<1>1. NoFile.gen = 0 /\ NoFile.data = Empty /\ Empty # Partial
  BY DEF NoFile, Empty, Partial
<1>2. Whole(i) => Whole(i)'
  BY <1>1 DEF Whole, FirstGen
<1> QED BY <1>1, <1>2 DEF FileKept, FirstGen

\* Most steps of a user make no file and start no task.
LEMMA PlainMoves ==
    ASSUME NEW u \in Users, NEW i \in Inodes, Kept(i), Alone(u), StoreInv,
           disk'[i] = disk[i] \/ disk'[i] = NoFile, gens' = gens, tasks' = tasks,
           InCache(i)' => InCache(i) \/ (i = I(u) /\ Shows(u)),
           pc'[u] # "loadfetch", pc'[u] = "insertnew" => Kind(u) = "create",
           Good(i) => /\ object'[i] # Partial
                      /\ i = I(u) => answer'[u] # Partial /\ (Shows(u)' => Shows(u) \/ InCache(i))
    PROVE  Kept(i)'
<1>1. gens[i] \in Nat
  BY FileTypes
<1>2. ASSUME Good(i)
      PROVE  /\ FileKept(i)' /\ (Whole(i) => Whole(i)')
             /\ I(u) = i => UserKept(u)'
  <2>1. FileKept(i) /\ (I(u) = i => UserKept(u))
    BY <1>2 DEF Good, KeptWhole
  <2>2. InCache(i) => Whole(i)
    BY <2>1 DEF FileKept
  <2>3. I(u) = i /\ Shows(u) => Whole(i)
    BY <2>1 DEF UserKept
  <2>4. FileKept(i)' /\ (Whole(i) => Whole(i)')
    BY <1>2, <2>1, <2>2, <2>3, DroppedKept
  <2>5. ASSUME I(u) = i PROVE UserKept(u)'
    <3>1. I(u)' = i /\ Kind(u)' = Kind(u)
      BY <2>5 DEF Alone, I, Kind
    <3>2. Shows(u)' => Whole(i)'
      BY <1>2, <2>2, <2>3, <2>4, <2>5
    <3> QED BY <1>2, <2>5, <3>1, <3>2 DEF UserKept
  <2> QED BY <2>4, <2>5
<1> QED BY <1>1, <1>2, UserMoves

\* What a user may rely on.
LEMMA GoodUser ==
    ASSUME NEW i \in Inodes, Good(i)
    PROVE  /\ object[i] # Partial /\ (InCache(i) => Whole(i))
           /\ \A u \in Users : I(u) = i =>
                answer[u] # Partial /\ (Shows(u) => Whole(i)) /\ Kind(u) # "create" /\ pc[u] # "insertnew"
BY DEF Good, KeptWhole, FileKept, UserKept, Made

\* The functions over the users.
LEMMA UserFunctions ==
    ASSUME StoreInv
    PROVE  DOMAIN pc = Users /\ DOMAIN fd = Users /\ DOMAIN ret = Users /\ DOMAIN answer = Users
BY FileTypes DEF FilesOK

\* Opening: a hit has found the item, a miss shows nothing.
LEMMA OpeningMoves ==
    ASSUME StoreInv, ListOK, NEW i \in Inodes, Kept(i), NEW u \in Users, Opening(u), ~ Make(u)
    PROVE  Kept(i)'
<1> USE UserFunctions
<1>0. I(u) \in Inodes
  BY FileTypes
<1>1. CASE Begin(u)
  <2>1. /\ Alone(u) /\ gens' = gens /\ tasks' = tasks /\ object' = object
        /\ answer' = answer /\ fd' = fd /\ pc'[u] \in {"delete", "find"}
    BY <1>1 DEF Begin, Alone, Goto
  <2>2. Dropped(i)
    BY <1>0, <1>1, DropsOnly DEF Begin
  <2>3. Shows(u)' => Shows(u)
    BY <1>1, <2>1 DEF Shows, Begin
  <2> QED BY <2>1, <2>2, <2>3, GoodUser, PlainMoves DEF Dropped
<1>2. CASE OpenFind(u)
  <2>1. /\ Alone(u) /\ gens' = gens /\ tasks' = tasks /\ object' = object /\ disk' = disk
        /\ answer' = answer /\ fd' = fd /\ ret' = ret
        /\ pc'[u] = IF InCache(I(u)) THEN "hit" ELSE MissGoesTo(u)
    BY <1>2 DEF OpenFind, Alone, Goto, user
  <2>2. InCache(i)' => InCache(i)
    BY <1>2, PinsKept DEF OpenFind
  <2>3. MissGoesTo(u) \in {"make", "missing", "fetchsmall", "load"}
        /\ (MissGoesTo(u) = "make" => Kind(u) = "create")
    BY DEF MissGoesTo
  <2>4. pc[u] = "find"
    BY <1>2 DEF OpenFind
  <2>5. Kind(u) # "create" /\ Shows(u)' => Shows(u) \/ InCache(I(u))
    BY <2>1, <2>3, <2>4 DEF Shows
  <2> QED BY <2>1, <2>2, <2>3, <2>5, GoodUser, PlainMoves
<1>3. CASE OpenMissing(u)
  <2>1. /\ Alone(u) /\ gens' = gens /\ tasks' = tasks /\ object' = object /\ disk' = disk
        /\ answer' = answer /\ fd' = fd /\ pc'[u] = "done" /\ cacheItems' = cacheItems /\ pc[u] = "missing"
    BY <1>3 DEF OpenMissing, Alone, Goto, End, user, cache
  <2>2. InCache(i)' => InCache(i)
    BY <2>1, PinsKept
  <2>3. Shows(u)' => Shows(u)
    BY <2>1 DEF Shows
  <2> QED BY <2>1, <2>2, <2>3, GoodUser, PlainMoves
<1>4. CASE OpenHit(u)
  <2>1. CASE disk[I(u)].gen = 0 /\ Kind(u) = "create" /\ I(u) # i
    <3>1. /\ Alone(u) /\ tasks' = tasks /\ object' = object /\ disk'[i] = disk[i] /\ gens'[i] = gens[i]
          /\ cacheItems' = cacheItems
      BY <1>4, <2>1, FileTypes DEF OpenHit, Alone, Goto, user, FilesOK
    <3>2. InCache(i)' => InCache(i)
      BY <3>1, PinsKept
    <3>3. Good(i) => FileKept(i)' /\ (Whole(i) => Whole(i)')
      BY <3>1, <3>2, GoodUser, DroppedKept DEF Good, KeptWhole
    <3>4. gens[i] \in Nat /\ gens[i] <= gens'[i]
      BY <3>1, FileTypes
    <3> QED BY <2>1, <3>1, <3>3, <3>4, UserMoves
  <2>2. CASE Kind(u) = "create" /\ I(u) = i
    <3>1. Made(i)' 
      BY <1>4, <2>2 DEF OpenHit, Made, I, Kind
    <3> QED BY <3>1 DEF Kept
  <2>3. CASE disk[I(u)].gen # 0 \/ Kind(u) # "create"
    <3>1. /\ Alone(u) /\ tasks' = tasks /\ object' = object /\ disk' = disk /\ answer' = answer
          /\ pc'[u] \in {"done", "io"} /\ pc[u] = "hit"
      BY <1>4, <2>3 DEF OpenHit, Alone, Goto, End, user
    <3>2. gens' = gens
      BY <1>4, <2>3, FileTypes DEF OpenHit, FilesOK
    <3>3. InCache(i)' => InCache(i)
      BY <1>4, PinsKept DEF OpenHit
    <3>4. Shows(u)
      BY <3>1 DEF Shows
    <3> QED BY <3>1, <3>2, <3>3, <3>4, GoodUser, PlainMoves
  <2> QED BY <2>1, <2>2, <2>3
<1>5. CASE SmallHit(u)
  <2>1. /\ Alone(u) /\ gens' = gens /\ tasks' = tasks /\ object' = object /\ disk' = disk
        /\ pc'[u] = "done" /\ pc[u] = "hit"
        /\ answer'[u] = answer[u] \/ answer'[u] = disk[I(u)].data
    BY <1>5 DEF SmallHit, Alone, Goto, End, user
  <2>2. InCache(i)' => InCache(i)
    BY <1>5, PinsKept DEF SmallHit
  <2>3. Shows(u)
    BY <2>1 DEF Shows
  <2>4. Good(i) /\ I(u) = i => answer'[u] # Partial
    BY <2>1, <2>3, GoodUser DEF Whole
  <2> QED BY <2>1, <2>2, <2>3, <2>4, GoodUser, PlainMoves
<1>6. CASE InsertNew(u)
  <2>1. /\ Alone(u) /\ gens' = gens /\ tasks' = tasks /\ object' = object /\ disk' = disk
        /\ pc[u] = "insertnew" /\ pc'[u] = "io" /\ job' = job
    BY <1>6 DEF InsertNew, Alone, Goto, user
  <2>2. InCache(i)' => InCache(i) \/ i = I(u)
    BY <1>6, InsertEnters DEF InsertNew
  <2>3. CASE I(u) = i
    <3>1. ~ Good(i)
      BY <2>1, <2>3, GoodUser
    <3>2. gens[i] \in Nat /\ gens[i] <= gens'[i]
      BY <2>1, FileTypes
    <3> QED BY <2>1, <3>1, <3>2, UserMoves
  <2>4. CASE I(u) # i
    BY <2>1, <2>2, <2>4, GoodUser, PlainMoves
  <2> QED BY <2>3, <2>4
<1> QED BY <1>1, <1>2, <1>3, <1>4, <1>5, <1>6 DEF Opening

\* Loading, but for the steps that open and fill the file.
LEMMA LoadingMoves ==
    ASSUME StoreInv, ListOK, NEW i \in Inodes, Kept(i), NEW u \in Users, Loading(u),
           ~ LoadOpen(u), ~ LoadFetch(u), ~ SmallOpen(u)
    PROVE  Kept(i)'
<1> USE UserFunctions
<1>0. I(u) \in Inodes
  BY FileTypes
<1>1. CASE InnerGetFileLock(u) \/ WaitGetFileLock(u)
  <2>1. /\ Alone(u) /\ gens' = gens /\ tasks' = tasks /\ object' = object /\ disk' = disk
        /\ answer' = answer /\ fd' = fd /\ cacheItems' = cacheItems /\ pc[u] \in {"load", "wait"}
        /\ pc'[u] \in {"loadfind", "wait", "io", "done"}
    BY <1>1 DEF InnerGetFileLock, WaitGetFileLock, AfterLoad, Alone, Goto, End, user, cache
  <2>2. InCache(i)' => InCache(i)
    BY <2>1, PinsKept
  <2>3. Shows(u)' => Shows(u)
    BY <2>1 DEF Shows
  <2> QED BY <2>1, <2>2, <2>3, GoodUser, PlainMoves
<1>2. CASE LoadFind(u)
  <2>1. /\ Alone(u) /\ gens' = gens /\ tasks' = tasks /\ object' = object /\ disk' = disk
        /\ answer' = answer /\ fd' = fd /\ pc[u] = "loadfind"
        /\ pc'[u] \in {"loadalloc", "make", "io", "done"} /\ (pc'[u] = "make" => InCache(I(u)))
    BY <1>2 DEF LoadFind, AfterLoad, Alone, Goto, End
  <2>2. InCache(i)' => InCache(i)
    BY <1>2, PinsKept DEF LoadFind
  <2>3. Shows(u)' => Shows(u) \/ InCache(I(u))
    BY <2>1 DEF Shows
  <2> QED BY <2>1, <2>2, <2>3, GoodUser, PlainMoves
<1>3. CASE LoadAlloc(u) \/ SmallAlloc(u)
  <2>1. /\ Alone(u) /\ gens' = gens /\ tasks' = tasks /\ object' = object
        /\ answer' = answer /\ fd' = fd /\ pc[u] \in {"loadalloc", "smallalloc"}
        /\ pc'[u] \in {"loadalloc", "smallalloc", "loadopen", "smallopen", "nospace"}
    BY <1>3 DEF LoadAlloc, SmallAlloc, PreAllocSpace, Alone
  <2>2. Dropped(i)
    BY <1>0, <1>3, DropsOnly DEF LoadAlloc, SmallAlloc
  <2>3. Shows(u)' => Shows(u)
    BY <2>1 DEF Shows
  <2> QED BY <2>1, <2>2, <2>3, GoodUser, PlainMoves DEF Dropped
<1>4. CASE LoadNoSpace(u) \/ SmallLock(u) \/ SmallFind(u)
  <2>1. /\ Alone(u) /\ gens' = gens /\ tasks' = tasks /\ object' = object /\ disk' = disk
        /\ answer' = answer /\ fd' = fd /\ cacheItems' = cacheItems
        /\ pc[u] \in {"nospace", "smalllock", "smallfind"}
        /\ pc'[u] \in {"done", "smallfind", "smallalloc"}
    BY <1>4 DEF LoadNoSpace, SmallLock, SmallFind, Alone, Goto, End, user, cache
  <2>2. InCache(i)' => InCache(i)
    BY <2>1, PinsKept
  <2>3. Shows(u)' => Shows(u)
    BY <2>1 DEF Shows
  <2> QED BY <2>1, <2>2, <2>3, GoodUser, PlainMoves
<1>5. CASE LoadInsert(u)
  <2>1. /\ Alone(u) /\ gens' = gens /\ tasks' = tasks /\ object' = object /\ disk' = disk
        /\ answer' = answer /\ pc[u] = "loadinsert" /\ pc'[u] = "loadfree"
    BY <1>5 DEF LoadInsert, Alone, Goto, user
  <2>2. InCache(i)' => InCache(i) \/ i = I(u)
    BY <1>5, InsertEnters DEF LoadInsert
  <2>3. Shows(u)
    BY <2>1 DEF Shows
  <2> QED BY <2>1, <2>2, <2>3, GoodUser, PlainMoves
<1>6. CASE LoadFree(u)
  <2>1. /\ Alone(u) /\ gens' = gens /\ tasks' = tasks /\ object' = object /\ disk' = disk
        /\ answer' = answer /\ cacheItems' = cacheItems /\ fd'[u] = 0 /\ pc[u] = "loadfree"
        /\ pc'[u] \in {"done", "make", "io"} /\ (pc'[u] = "make" => ret[u] # "EIO")
    BY <1>6 DEF LoadFree, AfterLoad, Alone, Goto, End
  <2>2. InCache(i)' => InCache(i)
    BY <2>1, PinsKept
  <2>3. Shows(u)' => Shows(u)
    BY <2>1 DEF Shows
  <2> QED BY <2>1, <2>2, <2>3, GoodUser, PlainMoves
<1>7. CASE FetchSmall(u)
  <2>1. /\ Alone(u) /\ gens' = gens /\ tasks' = tasks /\ object' = object /\ disk' = disk
        /\ cacheItems' = cacheItems /\ fd' = fd /\ pc[u] = "fetchsmall"
        /\ pc'[u] \in {"done", "smalllock"}
        /\ answer'[u] = answer[u] \/ answer'[u] = object[I(u)]
    BY <1>7 DEF FetchSmall, Alone, Goto, End, user, cache
  <2>2. InCache(i)' => InCache(i)
    BY <2>1, PinsKept
  <2>3. Shows(u)' => Shows(u)
    BY <2>1 DEF Shows
  <2> QED BY <2>1, <2>2, <2>3, GoodUser, PlainMoves
<1> QED BY <1>1, <1>2, <1>3, <1>4, <1>5, <1>6, <1>7 DEF Loading

\* Using: what is read is an open file's or the storage's, what is stored is an open
\* file's.
LEMMA UsingMoves ==
    ASSUME StoreInv, ListOK, NEW i \in Inodes, Kept(i), NEW u \in Users, Using(u), ~ Pwrite(u)
    PROVE  Kept(i)'
<1> USE UserFunctions
<1>0. I(u) \in Inodes
  BY FileTypes
<1>1. CASE ReadFileLR(u)
  <2>1. /\ Alone(u) /\ gens' = gens /\ tasks' = tasks /\ object' = object /\ disk' = disk
        /\ cacheItems' = cacheItems /\ fd' = fd /\ pc[u] = "io" /\ pc'[u] = "flush"
        /\ \/ answer'[u] = answer[u] \/ answer'[u] = object[I(u)]
           \/ fd[u] # 0 /\ answer'[u] = disk[I(u)].data
    BY <1>1 DEF ReadFileLR, Alone, Goto, user, cache
  <2>2. InCache(i)' => InCache(i)
    BY <2>1, PinsKept
  <2>3. (Shows(u)' => Shows(u)) /\ (fd[u] # 0 => Shows(u))
    BY <2>1 DEF Shows
  <2>4. Good(i) /\ I(u) = i => answer'[u] # Partial
    BY <2>1, <2>3, GoodUser DEF Whole
  <2> QED BY <2>1, <2>2, <2>3, <2>4, GoodUser, PlainMoves
<1>2. CASE WriteAlloc(u)
  <2>1. /\ Alone(u) /\ gens' = gens /\ tasks' = tasks /\ object' = object
        /\ answer' = answer /\ fd' = fd /\ pc[u] = "io" /\ pc'[u] \in {"io", "pwrite", "writefail"}
    BY <1>2 DEF WriteAlloc, PreAllocSpace, Alone
  <2>2. Dropped(i)
    BY <1>0, <1>2, DropsOnly DEF WriteAlloc
  <2>3. Shows(u)' => Shows(u)
    BY <2>1 DEF Shows
  <2> QED BY <2>1, <2>2, <2>3, GoodUser, PlainMoves DEF Dropped
<1>3. CASE PersistToFileAdd(u) \/ WriteLocalFileForBrpcUpdate(u)
  <2>1. /\ Alone(u) /\ gens' = gens /\ tasks' = tasks /\ object' = object /\ disk' = disk
        /\ answer' = answer /\ fd' = fd /\ pc[u] = "add" /\ pc'[u] = "writefree"
    BY <1>3 DEF PersistToFileAdd, WriteLocalFileForBrpcUpdate, Alone, Goto
  <2>2. InCache(i)' => InCache(i)
    BY <1>3, PinsKept DEF PersistToFileAdd, WriteLocalFileForBrpcUpdate
  <2>3. Shows(u)' => Shows(u)
    BY <2>1 DEF Shows
  <2> QED BY <2>1, <2>2, <2>3, GoodUser, PlainMoves
<1>4. CASE WriteFree(u) \/ WriteFail(u)
  <2>1. /\ Alone(u) /\ gens' = gens /\ tasks' = tasks /\ object' = object /\ disk' = disk
        /\ answer' = answer /\ fd' = fd /\ cacheItems' = cacheItems
        /\ pc[u] \in {"writefree", "writefail"} /\ pc'[u] = "flush"
    BY <1>4 DEF WriteFree, WriteFail, Alone, Goto, user, cache
  <2>2. InCache(i)' => InCache(i)
    BY <2>1, PinsKept
  <2>3. Shows(u)' => Shows(u)
    BY <2>1 DEF Shows
  <2> QED BY <2>1, <2>2, <2>3, GoodUser, PlainMoves
<1>5. CASE FlushSize(u)
  <2>1. /\ Alone(u) /\ gens' = gens /\ tasks' = tasks /\ object' = object /\ disk' = disk
        /\ answer' = answer /\ fd' = fd /\ pc[u] = "flush"
        /\ \/ fd[u] = 0 /\ pc'[u] = "done" /\ cacheItems' = cacheItems
           \/ fd[u] # 0 /\ pc'[u] \in {"put", "close"} /\ InsertAndUpdate(I(u), size[u], FALSE)
    BY <1>5 DEF FlushSize, Alone, Goto, End, user
  <2>2. InCache(i)' => InCache(i) \/ (i = I(u) /\ fd[u] # 0)
    BY <2>1, PinsKept, InsertEnters
  <2>3. (Shows(u)' => Shows(u)) /\ (fd[u] # 0 => Shows(u))
    BY <2>1 DEF Shows
  <2> QED BY <2>1, <2>2, <2>3, GoodUser, PlainMoves
<1>6. CASE FlushToStorage(u)
  <2>1. /\ Alone(u) /\ gens' = gens /\ tasks' = tasks /\ disk' = disk /\ cacheItems' = cacheItems
        /\ answer' = answer /\ fd' = fd /\ pc[u] = "put" /\ pc'[u] = "close"
        /\ object' = object \/ object' = [object EXCEPT ![I(u)] = disk[I(u)].data]
    BY <1>6 DEF FlushToStorage, Alone, Goto, user, cache
  <2>2. InCache(i)' => InCache(i)
    BY <2>1, PinsKept
  <2>3. Shows(u)
    BY <2>1 DEF Shows
  <2>4. ASSUME Good(i) PROVE object'[i] # Partial
    <3>1. object'[i] = object[i] \/ (i = I(u) /\ object'[i] = disk[i].data)
      BY <2>1, FileTypes DEF FilesOK
    <3> QED BY <2>3, <2>4, <3>1, GoodUser DEF Whole
  <2> QED BY <2>1, <2>2, <2>3, <2>4, GoodUser, PlainMoves
<1>7. CASE CloseFile(u)
  <2>1. /\ Alone(u) /\ gens' = gens /\ tasks' = tasks /\ object' = object /\ disk' = disk
        /\ answer' = answer /\ fd'[u] = 0 /\ pc'[u] = "done"
    BY <1>7 DEF CloseFile, Alone, Goto, End
  <2>2. InCache(i)' => InCache(i)
    BY <1>7, PinsKept DEF CloseFile
  <2>3. ~ Shows(u)'
    BY <2>1 DEF Shows
  <2> QED BY <2>1, <2>2, <2>3, GoodUser, PlainMoves
<1>8. CASE DeleteFiles(u)
  <2>1. /\ Alone(u) /\ gens' = gens /\ tasks' = tasks /\ object' = object
        /\ answer' = answer /\ fd' = fd /\ pc[u] = "delete" /\ pc'[u] \in {"done", "delobject"}
    BY <1>8 DEF DeleteFiles, Alone, Goto, End, user
  <2>2. Dropped(i)
    BY <1>0, <1>8, DropsOnly DEF DeleteFiles
  <2>3. Shows(u)' => Shows(u)
    BY <2>1 DEF Shows
  <2> QED BY <2>1, <2>2, <2>3, GoodUser, PlainMoves DEF Dropped
<1>9. CASE DeleteObject(u)
  <2>1. /\ Alone(u) /\ gens' = gens /\ tasks' = tasks /\ disk' = disk /\ cacheItems' = cacheItems
        /\ answer' = answer /\ fd' = fd /\ pc[u] = "delobject" /\ pc'[u] = "done"
        /\ object' = object \/ object' = [object EXCEPT ![I(u)] = Empty]
    BY <1>9 DEF DeleteObject, Alone, Goto, End, user, cache
  <2>2. InCache(i)' => InCache(i)
    BY <2>1, PinsKept
  <2>3. Shows(u)' => Shows(u)
    BY <2>1 DEF Shows
  <2>4. object'[i] = object[i] \/ object'[i] # Partial
    BY <2>1, FileTypes DEF FilesOK, Empty, Partial
  <2> QED BY <2>1, <2>2, <2>3, <2>4, GoodUser, PlainMoves
<1> QED BY <1>1, <1>2, <1>3, <1>4, <1>5, <1>6, <1>7, <1>8, <1>9 DEF Using

\* Opening with O_CREAT: the first file is made once, and before any item of it.
LEMMA OpenKept ==
    ASSUME StoreInv, NEW i \in Inodes, NEW j \in Inodes, NEW d \in Contents, OpenCreate(j, d),
           cacheItems' = cacheItems, object' = object
    PROVE  /\ gens'[i] \in Nat /\ gens[i] <= gens'[i]
           /\ Good(i) /\ ~ Reloaded(i)' =>
                /\ FileKept(i)' /\ (Whole(i) => Whole(i)')
                /\ i = j => Opened(i) = FirstGen(i) /\ gens'[i] = FirstGen(i)
<1>1. /\ disk \in [Inodes -> [gen: Nat, data: Contents, blocks: Nat]] /\ gens \in [Inodes -> Nat]
      /\ gens[i] \in Nat /\ disk[i].gen \in Nat
  BY FileTypes DEF FilesOK
<1>2. gens'[i] \in Nat /\ gens[i] <= gens'[i]
  BY <1>1 DEF OpenCreate
<1>3. InCache(i)' => InCache(i)
  BY DEF InCache, Slot
<1>4. ASSUME Good(i), ~ Reloaded(i)'
      PROVE  /\ FileKept(i)' /\ (Whole(i) => Whole(i)')
             /\ i = j => Opened(i) = FirstGen(i) /\ gens'[i] = FirstGen(i)
  <2>1. FileKept(i)
    BY <1>4 DEF Good, KeptWhole
  <2>2. CASE i # j \/ disk[j].gen # 0
    <3>1. disk'[i] = disk[i] /\ gens'[i] = gens[i]
      BY <1>1, <2>2 DEF OpenCreate
    <3>2. FileKept(i)' /\ (Whole(i) => Whole(i)')
      BY <1>3, <2>1, <3>1, DroppedKept DEF FileKept
    <3>3. i = j => Opened(i) = FirstGen(i) /\ gens'[i] = FirstGen(i)
      BY <2>1, <2>2, <3>1 DEF FileKept, Opened
    <3> QED BY <3>2, <3>3
  <2>3. CASE i = j /\ disk[j].gen = 0
    <3>1. gens'[i] = gens[i] + 1 /\ disk'[i] = [gen |-> gens[i] + 1, data |-> d, blocks |-> 0]
          /\ Opened(i) = gens[i] + 1
      BY <1>1, <2>3 DEF OpenCreate, Opened
    <3>2. gens[i] = 1 /\ FirstGen(i) = 2 /\ i \notin Cached
      <4>1. gens[i] \in 1 .. FirstGen(i)
        BY <2>1 DEF FileKept
      <4>2. FirstGen(i) = IF i \in Cached THEN 1 ELSE 2
        BY DEF FirstGen
      <4>3. ~ (gens[i] + 1 > FirstGen(i))
        BY <1>4, <3>1 DEF Reloaded, FirstGen
      <4> QED BY <4>1, <4>2, <4>3, <1>1
    <3>3. ~ Whole(i) /\ ~ InCache(i)
      BY <2>1, <3>2 DEF Whole, FileKept
    <3>4. FileKept(i)'
      BY <1>3, <2>1, <3>1, <3>2, <3>3 DEF FileKept, FirstGen
    <3> QED BY <3>1, <3>2, <3>3, <3>4
  <2> QED BY <2>2, <2>3
<1> QED BY <1>2, <1>4

\* A write of whole contents leaves a whole file whole, and makes the first file so.
LEMMA WriteKept ==
    ASSUME StoreInv, NEW i \in Inodes, NEW j \in Inodes, NEW g, NEW d \in Contents, NEW n \in Nat,
           WriteGen(j, g, d, n), gens' = gens, cacheItems' = cacheItems, object' = object, Good(i),
           i = j => d # Partial
    PROVE  /\ FileKept(i)' /\ (Whole(i) => Whole(i)')
           /\ i = j /\ g = FirstGen(i) /\ gens[i] = FirstGen(i) => Whole(i)'
<1>1. disk \in [Inodes -> [gen: Nat, data: Contents, blocks: Nat]] /\ disk[i].gen \in Nat
  BY FileTypes DEF FilesOK
<1>2. FileKept(i)
  BY DEF Good, KeptWhole
<1>3. InCache(i)' => InCache(i)
  BY DEF InCache, Slot
<1>4. CASE i # j \/ disk[j].gen # g
  <2>1. disk'[i] = disk[i]
    BY <1>1, <1>4 DEF WriteGen
  <2>2. FileKept(i)' /\ (Whole(i) => Whole(i)')
    BY <1>2, <1>3, <2>1, DroppedKept DEF FileKept
  <2>3. ASSUME i = j, g = FirstGen(i), gens[i] = FirstGen(i) PROVE Whole(i)'
    <3>1. disk[i].data # Partial
      BY <1>2, <1>4, <2>3 DEF FileKept
    <3> QED BY <2>1, <2>3, <3>1 DEF Whole, FirstGen
  <2> QED BY <2>2, <2>3
<1>5. CASE i = j /\ disk[j].gen = g
  <2>1. disk'[i].data = d /\ disk'[i].gen = disk[i].gen
    BY <1>1, <1>5 DEF WriteGen
  <2>2. CASE disk[i].gen = 0
    <3>1. /\ d # Partial /\ (Whole(i) <=> gens[i] = FirstGen(i)) 
          /\ (Whole(i)' <=> gens[i] = FirstGen(i))
      BY <1>2, <1>5, <2>1, <2>2 DEF FileKept, Whole, FirstGen
    <3> QED BY <1>2, <1>3, <1>5, <2>1, <2>2, <3>1 DEF FileKept, FirstGen
  <2>3. CASE disk[i].gen # 0
    <3>1. Whole(i)'
      BY <1>2, <1>5, <2>1, <2>3 DEF FileKept, Whole, FirstGen
    <3> QED BY <1>2, <1>3, <2>1, <2>3, <3>1 DEF FileKept, FirstGen
  <2> QED BY <2>2, <2>3
<1> QED BY <1>4, <1>5

\* A task has the file that its user has opened.
LEMMA TaskIs ==
    ASSUME NEW u, NEW d, NEW b, NEW t, t = Task(u, d, b)
    PROVE  t.inode = I(u) /\ t.gen = Opened(I(u)) /\ t.data = d /\ t.locked = b /\ t.at = "fetch"
BY DEF Task

\* The steps that open, fill and write the file.
LEMMA FileMoves ==
    ASSUME StoreInv, ListOK, NEW i \in Inodes, Kept(i), NEW u \in Users,
           Make(u) \/ LoadOpen(u) \/ SmallOpen(u) \/ LoadFetch(u) \/ Pwrite(u)
    PROVE  Kept(i)'
<1> USE UserFunctions
<1>0. /\ I(u) \in Inodes /\ gens[i] \in Nat /\ {Empty, Partial} \subseteq Contents /\ Users \subseteq Contents
      /\ object[I(u)] \in Contents /\ size[u] \in Nat
  BY FileTypes
<1>1. CASE Make(u)
  <2>1. /\ Alone(u) /\ tasks' = tasks /\ object' = object /\ cacheItems' = cacheItems /\ answer' = answer
        /\ OpenCreate(I(u), Empty) /\ pc[u] = "make"
        /\ pc'[u] = (IF Kind(u) = "create" THEN "insertnew" ELSE "io")
    BY <1>1 DEF Make, Alone, Goto, cache
  <2>2. Shows(u) /\ I(u)' = I(u)
    BY <2>1 DEF Shows, Alone, I
  <2>3. ASSUME Good(i), ~ Reloaded(i)', I(u) = i PROVE UserKept(u)'
    <3>1. Whole(i)' /\ answer[u] # Partial /\ Kind(u) # "create"
      BY <1>0, <2>1, <2>2, <2>3, OpenKept, GoodUser
    <3> QED BY <2>1, <2>2, <2>3, <3>1 DEF UserKept
  <2>4. gens'[i] \in Nat /\ gens[i] <= gens'[i]
        /\ (Good(i) /\ ~ Reloaded(i)' => FileKept(i)' /\ (Whole(i) => Whole(i)'))
    BY <1>0, <2>1, OpenKept
  <2> QED BY <2>1, <2>3, <2>4, UserMoves
<1>2. CASE LoadOpen(u)
  <2>1. /\ Alone(u) /\ object' = object /\ cacheItems' = cacheItems /\ answer' = answer
        /\ OpenCreate(I(u), Partial) /\ pc[u] = "loadopen"
        /\ \/ tasks' = tasks /\ pc'[u] = "loadfetch" /\ fd'[u] = Opened(I(u))
           \/ tasks' = tasks \cup {Task(u, Partial, FALSE)} /\ pc'[u] \in {"io", "done"} /\ fd' = fd
    BY <1>2 DEF LoadOpen, AfterLoad, IsSync, Alone, Goto, End, cache
  <2>2. I(u)' = I(u)
    BY <2>1 DEF Alone, I
  <2>3. gens'[i] \in Nat /\ gens[i] <= gens'[i]
        /\ (Good(i) /\ ~ Reloaded(i)' =>
               /\ FileKept(i)' /\ (Whole(i) => Whole(i)')
               /\ I(u) = i => Opened(i) = FirstGen(i) /\ gens'[i] = FirstGen(i))
    BY <1>0, <2>1, OpenKept
  <2>4. ASSUME Good(i), ~ Reloaded(i)', I(u) = i PROVE UserKept(u)'
    <3>1. (Shows(u)' => Shows(u)) /\ (pc'[u] = "loadfetch" => ~ Shows(u)')
      BY <2>1 DEF Shows
    <3>2. answer[u] # Partial /\ (Shows(u) => Whole(i))
      BY <2>4, GoodUser
    <3> QED BY <2>1, <2>2, <2>3, <2>4, <3>1, <3>2 DEF UserKept, FirstGen
  <2>5. ASSUME Good(i), ~ Reloaded(i)', NEW t \in tasks', t.inode = i, t \notin tasks PROVE TaskKept(t)'
    <3>1. t = Task(u, Partial, FALSE)
      BY <2>1, <2>5
    <3>2. t.inode = I(u) /\ t.gen = Opened(I(u)) /\ t.locked = FALSE /\ t.at = "fetch"
      BY <3>1, TaskIs DEF Task
    <3> QED BY <2>3, <2>5, <3>2 DEF TaskKept, FirstGen
  <2> QED BY <2>1, <2>3, <2>4, <2>5, UserMoves
<1>3. CASE SmallOpen(u)
  <2>1. /\ Alone(u) /\ object' = object /\ cacheItems' = cacheItems /\ answer' = answer /\ fd' = fd
        /\ OpenCreate(I(u), Partial) /\ pc[u] = "smallopen" /\ pc'[u] = "done"
        /\ tasks' = tasks \cup {Task(u, answer[u], TRUE)}
    BY <1>3 DEF SmallOpen, Alone, Goto, End, cache, user
  <2>2. I(u)' = I(u)
    BY <2>1 DEF Alone, I
  <2>3. gens'[i] \in Nat /\ gens[i] <= gens'[i]
        /\ (Good(i) /\ ~ Reloaded(i)' =>
               /\ FileKept(i)' /\ (Whole(i) => Whole(i)')
               /\ I(u) = i => Opened(i) = FirstGen(i) /\ gens'[i] = FirstGen(i))
    BY <1>0, <2>1, OpenKept
  <2>4. ASSUME Good(i), ~ Reloaded(i)', I(u) = i PROVE UserKept(u)'
    <3>1. Shows(u)' => Shows(u)
      BY <2>1 DEF Shows
    <3>2. answer[u] # Partial /\ (Shows(u) => Whole(i))
      BY <2>4, GoodUser
    <3> QED BY <2>1, <2>2, <2>3, <2>4, <3>1, <3>2 DEF UserKept
  <2>5. ASSUME Good(i), ~ Reloaded(i)', NEW t \in tasks', t.inode = i, t \notin tasks PROVE TaskKept(t)'
    <3>1. t = Task(u, answer[u], TRUE)
      BY <2>1, <2>5
    <3>2. t.inode = I(u) /\ t.gen = Opened(I(u)) /\ t.data = answer[u] /\ t.at = "fetch"
      BY <3>1, TaskIs DEF Task
    <3>3. answer[u] # Partial
      BY <2>5, <3>2, GoodUser
    <3> QED BY <2>3, <2>5, <3>2, <3>3 DEF TaskKept, FirstGen
  <2> QED BY <2>1, <2>3, <2>4, <2>5, UserMoves
<1>4. CASE LoadFetch(u)
  <2>1. CASE Fetched(I(u), fd[u]) /\ Goto(u, "loadinsert")
    <3>1. /\ Alone(u) /\ object' = object /\ cacheItems' = cacheItems /\ tasks' = tasks /\ gens' = gens
          /\ WriteGen(I(u), fd[u], object[I(u)], 1) /\ pc[u] = "loadfetch" /\ pc'[u] = "loadinsert"
          /\ answer'[u] = object[I(u)]
      BY <1>4, <2>1 DEF LoadFetch, Fetched, Alone, Goto, cache, user
    <3>2. ASSUME Good(i)
          PROVE  /\ FileKept(i)' /\ (Whole(i) => Whole(i)')
                 /\ I(u) = i => UserKept(u)'
      <4>1. object[i] # Partial
        BY <3>2, GoodUser
      <4>2. /\ FileKept(i)' /\ (Whole(i) => Whole(i)')
            /\ i = I(u) /\ fd[u] = FirstGen(i) /\ gens[i] = FirstGen(i) => Whole(i)'
        BY <1>0, <3>1, <3>2, <4>1, WriteKept
      <4>3. ASSUME I(u) = i PROVE UserKept(u)'
        <5>1. UserKept(u) /\ I(u)' = i
          BY <3>1, <3>2, <4>3 DEF Good, KeptWhole, Alone, I
        <5>2. Whole(i)'
          BY <3>1, <4>2, <4>3, <5>1 DEF UserKept
        <5> QED BY <3>1, <4>1, <4>3, <5>1, <5>2 DEF UserKept
      <4> QED BY <4>2, <4>3
    <3> QED BY <1>0, <3>1, <3>2, UserMoves
  <2>2. CASE NotFetched(I(u)) /\ Goto(u, "loadfree") /\ ret' = [ret EXCEPT ![u] = "EIO"]
    <3>1. /\ Alone(u) /\ object' = object /\ cacheItems' = cacheItems /\ tasks' = tasks /\ gens' = gens
          /\ pc'[u] = "loadfree" /\ ret'[u] = "EIO" /\ answer'[u] = answer[u]
      BY <1>4, <2>2 DEF LoadFetch, Alone, Goto, cache, user
    <3>2. disk'[i] = disk[i] \/ disk'[i] = NoFile
      BY <2>2, FileTypes DEF NotFetched, FilesOK
    <3>3. InCache(i)' => InCache(i)
      BY <3>1, PinsKept
    <3>4. ~ Shows(u)'
      BY <3>1 DEF Shows
    <3> QED BY <3>1, <3>2, <3>3, <3>4, GoodUser, PlainMoves
  <2> QED BY <1>4, <2>1, <2>2 DEF LoadFetch
<1>5. CASE Pwrite(u)
  <2>1. /\ Alone(u) /\ object' = object /\ cacheItems' = cacheItems /\ tasks' = tasks /\ gens' = gens
        /\ WriteGen(I(u), fd[u], u, size[u] + 1) /\ pc[u] = "pwrite" /\ pc'[u] = "add"
        /\ answer' = answer /\ fd' = fd
    BY <1>5 DEF Pwrite, Alone, Goto, cache, user
  <2>2. u # Partial /\ u \in Contents /\ size[u] + 1 \in Nat
    BY <1>0, StoreAssumptions
  <2>3. ASSUME Good(i)
        PROVE  /\ FileKept(i)' /\ (Whole(i) => Whole(i)')
               /\ I(u) = i => UserKept(u)'
    <3>1. FileKept(i)' /\ (Whole(i) => Whole(i)')
      BY <1>0, <2>1, <2>2, <2>3, WriteKept
    <3>2. ASSUME I(u) = i PROVE UserKept(u)'
      <4>1. (Shows(u)' => Shows(u)) /\ I(u)' = i
        BY <2>1, <3>2 DEF Shows, Alone, I
      <4>2. answer[u] # Partial /\ (Shows(u) => Whole(i))
        BY <2>3, <3>2, GoodUser
      <4> QED BY <2>1, <3>1, <4>1, <4>2 DEF UserKept
    <3> QED BY <3>1, <3>2
  <2> QED BY <1>0, <2>1, <2>3, UserMoves
<1> QED BY <1>1, <1>2, <1>3, <1>4, <1>5

\* A step of no user keeps a whole file whole, with the tasks that are new.
LEMMA NobodyMoves ==
    ASSUME NEW i \in Inodes, Kept(i), Alone(Nobody), gens' = gens, object' = object,
           Good(i) => /\ FileKept(i)' /\ (Whole(i) => Whole(i)')
                      /\ \A t \in tasks' : t.inode = i => t \in tasks \/ TaskKept(t)'
    PROVE  Kept(i)'
<1>1. \A v \in Users : I(v)' = I(v) /\ Kind(v)' = Kind(v)
  BY DEF Alone, I, Kind
<1> SUFFICES ASSUME Good(i) PROVE KeptWhole(i)'
  <2>1. (Made(i)' <=> Made(i)) /\ (Reloaded(i)' <=> Reloaded(i))
    BY <1>1 DEF Made, Reloaded, FirstGen
  <2> QED BY <2>1 DEF Kept, Good
<1>2. ASSUME NEW t \in tasks', t.inode = i PROVE TaskKept(t)'
  BY <1>2, TasksKept DEF Good, KeptWhole
<1>3. ASSUME NEW v \in Users, I(v)' = i PROVE UserKept(v)'
  <2>1. I(v) = i /\ UserKept(v)
    BY <1>1, <1>3 DEF Good, KeptWhole
  <2>2. v \in Users \ {Nobody}
    BY StoreAssumptions
  <2> QED BY <2>1, <2>2, OthersKept
<1> QED BY <1>2, <1>3 DEF KeptWhole

\* The thread pool fills a file before it enters it.
LEMMA PoolMoves ==
    ASSUME StoreInv, ListOK, NEW i \in Inodes, Kept(i), NEW t \in tasks,
           TaskFetch(t) \/ TaskInsert(t) \/ TaskFree(t)
    PROVE  Kept(i)'
<1>0. /\ t.inode \in Inodes /\ gens[i] \in Nat /\ object[t.inode] \in Contents /\ t.data \in Contents
      /\ t.locked \in BOOLEAN
  BY FileTypes DEF TaskType
<1>1. \A u : Alone(u)
  BY DEF TaskFetch, TaskInsert, TaskFree, Alone, user
<1>2. gens' = gens /\ object' = object /\ job' = job
  BY DEF TaskFetch, TaskInsert, TaskFree, user
<1> SUFFICES ASSUME Good(i)
             PROVE  /\ FileKept(i)' /\ (Whole(i) => Whole(i)')
                    /\ \A s \in tasks' : s.inode = i => s \in tasks \/ TaskKept(s)'
  BY <1>1, <1>2, NobodyMoves
<1>3. /\ FileKept(i) /\ (t.inode = i => TaskKept(t))
  BY DEF Good, KeptWhole
<1> DEFINE r(to) == [t EXCEPT !.at = to]
<1>4. \A to : r(to).inode = t.inode /\ r(to).gen = t.gen /\ r(to).locked = t.locked
              /\ r(to).data = t.data /\ r(to).at = to
  BY FileTypes DEF TaskType
<1> HIDE DEF r
<1>5. CASE TaskFetch(t)
  <2>1. CASE ~ t.locked /\ NotFetched(t.inode) /\ Move(t, "free")
    <3>1. disk'[i] = disk[i] \/ disk'[i] = NoFile
      BY <2>1, FileTypes DEF NotFetched, FilesOK
    <3>2. InCache(i)' => InCache(i)
      BY <1>5, PinsKept DEF TaskFetch, cache
    <3>3. FileKept(i)' /\ (Whole(i) => Whole(i)')
      BY <1>2, <1>3, <3>1, <3>2, GoodUser, DroppedKept
    <3>4. ASSUME NEW s \in tasks', s.inode = i, s \notin tasks PROVE TaskKept(s)'
      <4>1. s = r("free")
        BY <2>1, <3>4 DEF Move, r
      <4> QED BY <1>2, <1>3, <1>4, <3>4, <4>1 DEF TaskKept, FirstGen
    <3> QED BY <3>3, <3>4
  <2>2. CASE Move(t, "insert") /\ \E d \in Contents : WriteGen(t.inode, t.gen, d, 1) /\ (t.inode = i => d # Partial)
    <3>1. cacheItems' = cacheItems
      BY <1>5 DEF TaskFetch, cache
    <3>2. /\ FileKept(i)' /\ (Whole(i) => Whole(i)')
          /\ i = t.inode /\ t.gen = FirstGen(i) /\ gens[i] = FirstGen(i) => Whole(i)'
      BY <1>0, <1>2, <2>2, <3>1, WriteKept
    <3>3. ASSUME NEW s \in tasks', s.inode = i, s \notin tasks PROVE TaskKept(s)'
      <4>1. s = r("insert")
        BY <2>2, <3>3 DEF Move, r
      <4> QED BY <1>2, <1>3, <1>4, <3>2, <3>3, <4>1 DEF TaskKept, FirstGen
    <3> QED BY <3>2, <3>3
  <2>3. t.inode = i => object[i] # Partial /\ (t.locked => t.data # Partial)
    BY <1>3, GoodUser DEF TaskKept
  <2> QED BY <1>0, <1>5, <2>1, <2>2, <2>3 DEF TaskFetch, Fetched
<1>6. CASE TaskInsert(t)
  <2>1. disk' = disk /\ Move(t, "free") /\ t.at = "insert"
    BY <1>6 DEF TaskInsert
  <2>2. InCache(i)' => InCache(i) \/ i = t.inode
    BY <1>6, InsertEnters DEF TaskInsert
  <2>3. i = t.inode => Whole(i)
    BY <1>3, <2>1 DEF TaskKept
  <2>4. FileKept(i)' /\ (Whole(i) => Whole(i)')
    BY <1>2, <1>3, <2>1, <2>2, <2>3, GoodUser, DroppedKept
  <2>5. ASSUME NEW s \in tasks', s.inode = i, s \notin tasks PROVE TaskKept(s)'
    <3>1. s = r("free")
      BY <2>1, <2>5 DEF Move, r
    <3> QED BY <1>2, <1>3, <1>4, <2>5, <3>1 DEF TaskKept, FirstGen
  <2> QED BY <2>4, <2>5
<1>7. CASE TaskFree(t)
  <2>1. disk' = disk /\ cacheItems' = cacheItems /\ tasks' = tasks \ {t}
    BY <1>7 DEF TaskFree
  <2>2. InCache(i)' => InCache(i)
    BY <2>1, PinsKept
  <2> QED BY <1>2, <1>3, <2>1, <2>2, GoodUser, DroppedKept
<1> QED BY <1>5, <1>6, <1>7

\* The cleanup removes files that have their items, and their items.
LEMMA CleanupMoves ==
    ASSUME StoreInv, ListOK, NEW i \in Inodes, Kept(i), CheckFreeSpace \/ UNCHANGED vars
    PROVE  Kept(i)'
<1>1. /\ Alone(Nobody) /\ gens' = gens /\ object' = object /\ tasks' = tasks
  BY DEF CheckFreeSpace, Alone, user, vars
<1>2. Dropped(i)
  <2>1. CASE CheckFreeSpace
    BY <2>1, DropsOnly DEF CheckFreeSpace
  <2>2. CASE UNCHANGED vars
    BY <2>2, DropsOnly DEF vars, cache
  <2> QED BY <2>1, <2>2
<1>3. ASSUME Good(i) PROVE FileKept(i)' /\ (Whole(i) => Whole(i)')
  <2>1. FileKept(i) /\ object'[i] # Partial /\ gens'[i] = gens[i]
    BY <1>1, <1>3, GoodUser DEF Good, KeptWhole
  <2> QED BY <1>2, <2>1, DroppedKept DEF Dropped
<1> QED BY <1>1, <1>3, NobodyMoves

\* At first the files of the cache are whole, and nobody has opened one.
LEMMA WholeInit ==
    ASSUME Init, NEW i \in Inodes
    PROVE  KeptWhole(i)
<1>1. Empty # Partial /\ Old # Partial /\ NoFile.gen = 0 /\ NoFile.data = Empty
  BY DEF Empty, Partial, Old, NoFile
<1>2. InCache(i) => i \in Cached
  BY ListInit DEF InCache, Slot
<1>3. FileKept(i)
  <2>1. /\ gens[i] = 1 /\ object[i] \in {Old, Empty}
        /\ i \in Cached => disk[i].gen = 1 /\ disk[i].data = Old
        /\ i \notin Cached => disk[i] = NoFile
    BY DEF Init
  <2> QED BY <1>1, <1>2, <2>1 DEF FileKept, Whole, FirstGen
<1>4. ASSUME NEW u \in Users PROVE UserKept(u)
  <2>1. answer[u] = Empty /\ pc[u] = "start" /\ fd[u] = 0
    BY DEF Init
  <2> QED BY <1>1, <2>1 DEF UserKept, Shows
<1>5. tasks = {}
  BY DEF Init
<1> QED BY <1>3, <1>4, <1>5 DEF KeptWhole

(* The inductive invariant of the first cache file of a path: from the     *)
(* moment that a load is about to show its item, the file is whole and     *)
(* stays so, and who has it open, or loads it, has that file               *)
(* (DownLoadFromStorage, ReadSmallFiles, OpenFile of falcon_store.cpp).    *)
THEOREM WholeInvariance == Spec => []WholeInv
<1> DEFINE K == \A i \in Inodes : Kept(i)
<1>1. Init => K
  BY WholeInit DEF Kept
<1>2. SpaceInv /\ K /\ [Next]_vars => K'
  <2> SUFFICES ASSUME StoreInv, ListOK, K, [Next]_vars, NEW i \in Inodes PROVE Kept(i)'
    BY DEF SpaceInv
  <2>1. Kept(i)
    OBVIOUS
  <2> HIDE DEF K
  <2>2. ASSUME NEW u \in Users, UserStep(u) PROVE Kept(i)'
    <3>1. CASE Make(u) \/ LoadOpen(u) \/ SmallOpen(u) \/ LoadFetch(u) \/ Pwrite(u)
      BY <2>1, <3>1, FileMoves
    <3>2. CASE ~ (Make(u) \/ LoadOpen(u) \/ SmallOpen(u) \/ LoadFetch(u) \/ Pwrite(u))
      BY <2>1, <2>2, <3>2, OpeningMoves, LoadingMoves, UsingMoves DEF UserStep
    <3> QED BY <3>1, <3>2
  <2>3. ASSUME PoolStep PROVE Kept(i)'
    BY <2>1, <2>3, PoolMoves DEF PoolStep
  <2> QED BY <2>1, <2>2, <2>3, CleanupMoves DEF Next
<1>3. SpaceInv /\ K => WholeInv
  BY DEF WholeInv, Kept
<1> HIDE DEF K
<1> QED BY <1>1, <1>2, <1>3, SpaceInvariance, PTL DEF Spec

(* Of the first cache file of a path nobody is ever given a part, unless   *)
(* the file is also opened without a load: items are shown after the file  *)
(* is whole, and a file whose lock is held is read from the storage        *)
(* (ReadFileLR, ReadSmallFiles of falcon_store.cpp).                       *)
THEOREM FirstFileHolds == Spec => []FirstFileWhole
<1>1. WholeInv => FirstFileWhole
  <2> SUFFICES ASSUME WholeInv, NEW u \in Users, answer[u] = Partial
               PROVE  Reloaded(I(u)) \/ Made(I(u))
    BY DEF FirstFileWhole
  <2>1. I(u) \in Inodes
    BY FileTypes DEF WholeInv, SpaceInv
  <2> QED BY <2>1 DEF WholeInv, KeptWhole, UserKept
<1> QED BY <1>1, WholeInvariance, PTL
=============================================================================
