----------------------------- MODULE MutexProofs -----------------------------
(***************************************************************************)
(* Proofs about the mutex (Mutex), for every number of tasks, mutexes and  *)
(* levels: exclusion, the end of boosts, and no priority inversion.        *)
(***************************************************************************)
EXTENDS Mutex, TLAPS

\* What of the invariant speaks of mutexes and priorities, and not of the pass.
LockInv == OwnerHolds /\ BoostEnds /\ FreeInv

LEMMA InitIndInv == MutexInit => MutexInv
  BY TaskAssumption, MutexAssumption, LevelAssumption
  DEF MutexInit, MutexInv, MutexTypeOK, OwnerHolds, BoostEnds, FreeInv, WaitInv, PassInv, Prios, None

\* A task that gets a mutex ...
LEMMA AcquireLocks ==
  ASSUME MutexTypeOK, LockInv, NEW t \in Lockers, NEW m \in Mutexes,
         CanLock(t, m), lock_count[m] < MaxDepth, Acquire(t, m), UNCHANGED base_priority
  PROVE  /\ owner' \in [Mutexes -> Lockers \cup {NoTask}]
         /\ lock_count' \in [Mutexes -> 0 .. MaxDepth]
         /\ held' \in [Lockers -> [Mutexes -> 0 .. MaxDepth]]
         /\ LockInv'
  <1> USE TaskAssumption, MutexAssumption, LevelAssumption DEF LockInv
  <1>1. /\ owner' \in [Mutexes -> Lockers \cup {NoTask}]
        /\ lock_count' \in [Mutexes -> 0 .. MaxDepth]
    BY DEF MutexTypeOK, Acquire
  <1>2. held[t][m] = lock_count[m]
    BY DEF OwnerHolds, CanLock, FreeInv, MutexTypeOK
  <1>3. held' \in [Lockers -> [Mutexes -> 0 .. MaxDepth]]
    BY <1>2 DEF MutexTypeOK, Acquire
  <1>4. OwnerHolds'
    BY <1>2 DEF OwnerHolds, Acquire, MutexTypeOK, CanLock, FreeInv
  <1>5. BoostEnds'
    BY DEF BoostEnds, Acquire, MutexTypeOK
  <1>6. FreeInv'
    BY DEF FreeInv, Acquire, MutexTypeOK
  <1> QED
    BY <1>1, <1>3, <1>4, <1>5, <1>6

\* ... one that does not, and passes its priority on ...
LEMMA ContendBoosts ==
  ASSUME MutexTypeOK, LockInv, NEW t \in Lockers, NEW m \in Mutexes,
         ~CanLock(t, m), Contend(t, m), UNCHANGED base_priority
  PROVE  /\ priority' \in [Lockers -> Prios] /\ LockInv'
         /\ owner[m] \in Lockers /\ owner[m] # t
         /\ \A u \in Lockers : priority'[u] <= priority[u]
         /\ priority'[owner[m]] <= base_priority[t]
  <1> USE TaskAssumption, MutexAssumption, LevelAssumption DEF LockInv
  <1>1. owner[m] \in Lockers /\ owner[m] # t /\ held[owner[m]][m] # 0
    BY DEF CanLock, FreeInv, MutexTypeOK, OwnerHolds
  <1>2. priority' \in [Lockers -> Prios] /\ \A u \in Lockers : priority'[u] <= priority[u]
    BY <1>1 DEF Contend, MutexTypeOK, Prios
  <1>3. priority'[owner[m]] <= base_priority[t]
    BY <1>1 DEF Contend, MutexTypeOK, BoostEnds, Prios
  <1>4. OwnerHolds' /\ FreeInv'
    BY DEF Contend, mutex_vars, OwnerHolds, FreeInv
  <1>5. BoostEnds'
    BY <1>1, <1>2 DEF Contend, BoostEnds, MutexTypeOK, Prios, mutex_vars
  <1> QED
    BY <1>1, <1>2, <1>3, <1>4, <1>5

\* ... and one that unlocks.
LEMMA ReleaseUnlocks ==
  ASSUME MutexTypeOK, LockInv, NEW t \in Lockers, NEW m \in Mutexes,
         lock_count[m] # 0, owner[m] = t, Release(t, m), UNCHANGED base_priority
  PROVE  /\ owner' \in [Mutexes -> Lockers \cup {NoTask}]
         /\ lock_count' \in [Mutexes -> 0 .. MaxDepth]
         /\ held' \in [Lockers -> [Mutexes -> 0 .. MaxDepth]]
         /\ priority' \in [Lockers -> Prios]
         /\ LockInv'
         /\ \A u \in Lockers \ {t} : priority'[u] = priority[u]
         /\ \A n \in Mutexes : owner'[n] \in {owner[n], NoTask}
  <1> USE TaskAssumption, MutexAssumption, LevelAssumption DEF LockInv
  <1>1. held[t][m] = lock_count[m]
    BY DEF OwnerHolds
  <1>2. /\ owner' \in [Mutexes -> Lockers \cup {NoTask}]
        /\ lock_count' \in [Mutexes -> 0 .. MaxDepth]
        /\ priority' \in [Lockers -> Prios]
        /\ \A u \in Lockers \ {t} : priority'[u] = priority[u]
        /\ \A n \in Mutexes : owner'[n] \in {owner[n], NoTask}
    <2>1. lock_count[m] - 1 \in 0 .. MaxDepth
      <3>1. lock_count[m] \in 0 .. MaxDepth
        BY DEF MutexTypeOK
      <3> QED
        BY <3>1
    <2>2. lock_count' \in [Mutexes -> 0 .. MaxDepth]
      BY <2>1 DEF MutexTypeOK, Release
    <2>3. priority' \in [Lockers -> Prios] /\ \A u \in Lockers \ {t} : priority'[u] = priority[u]
      BY DEF MutexTypeOK, Release
    <2>4. owner' \in [Mutexes -> Lockers \cup {NoTask}] /\ \A n \in Mutexes : owner'[n] \in {owner[n], NoTask}
      BY DEF MutexTypeOK, Release
    <2> QED
      BY <2>2, <2>3, <2>4
  <1>3. held' \in [Lockers -> [Mutexes -> 0 .. MaxDepth]]
    BY <1>1 DEF MutexTypeOK, Release
  <1>4. OwnerHolds'
    BY <1>1 DEF OwnerHolds, Release, MutexTypeOK
  <1>5. BoostEnds'
    <2>1. CASE lock_count[m] = 1
      BY <2>1 DEF BoostEnds, Release, MutexTypeOK, Prios
    <2>2. CASE lock_count[m] # 1
      BY <2>2, <1>1 DEF BoostEnds, Release, MutexTypeOK, Prios
    <2> QED
      BY <2>1, <2>2
  <1>6. FreeInv'
    BY DEF FreeInv, Release, MutexTypeOK
  <1> QED
    BY <1>2, <1>3, <1>4, <1>5, <1>6
-----------------------------------------------------------------------------
\* Every step preserves the invariant.
LEMMA NextIndInv == MutexInv /\ [MutexNext]_all_mutex_vars => MutexInv'
  <1> SUFFICES ASSUME MutexInv, [MutexNext]_all_mutex_vars PROVE MutexInv'
    OBVIOUS
  <1> USE TaskAssumption, MutexAssumption, LevelAssumption
  <1>0. MutexTypeOK /\ LockInv
    BY DEF MutexInv, LockInv
  <1>1. ASSUME NEW t \in Lockers, Pick(t) PROVE MutexInv'
    BY <1>1 DEF Pick, Choice, MutexInv, MutexTypeOK, OwnerHolds, BoostEnds, FreeInv, WaitInv, PassInv,
                mutex_vars
  <1>2. ASSUME NEW t \in Lockers, Retry(t) PROVE MutexInv'
    <2> DEFINE m == waits_for[t]
    <2>1. m \in Mutexes /\ t \notin polled /\ current = NoTask /\ CanLock(t, m) /\ Acquire(t, m)
      BY <1>2 DEF Retry, Choice, MutexInv, MutexTypeOK
    <2>2. lock_count[m] < MaxDepth
      BY <2>1 DEF CanLock, MutexInv, WaitInv, None
    <2>3. MutexTypeOK' /\ LockInv'
      <3>1. /\ current' \in Lockers \cup {NoTask} /\ polled' \subseteq Lockers /\ asleep' \subseteq Lockers
            /\ waits_for' \in [Lockers -> Mutexes \cup {None}] /\ UNCHANGED base_priority
        BY <1>0, <1>2 DEF Retry, MutexTypeOK
      <3> QED
        BY <1>0, <2>1, <2>2, <3>1, AcquireLocks DEF MutexTypeOK, Acquire
    <2>4. WaitInv' /\ PassInv'
      BY <1>2, <2>1 DEF Retry, Acquire, MutexInv, MutexTypeOK, WaitInv, PassInv, None
    <2> QED
      BY <2>3, <2>4 DEF LockInv, MutexInv
  <1>3. ASSUME NEW t \in Lockers, RetryBusy(t) PROVE MutexInv'
    <2> DEFINE m == waits_for[t]
    <2>1. m \in Mutexes /\ ~CanLock(t, m) /\ Contend(t, m) /\ UNCHANGED base_priority
      BY <1>3 DEF RetryBusy, MutexInv, MutexTypeOK
    <2>2. /\ priority' \in [Lockers -> Prios] /\ LockInv'
          /\ owner[m] \in Lockers /\ owner[m] # t
          /\ \A u \in Lockers : priority'[u] <= priority[u]
          /\ priority'[owner[m]] <= base_priority[t]
      BY <1>0, <2>1, ContendBoosts
    <2>3. MutexTypeOK'
      BY <1>0, <1>3, <2>1, <2>2 DEF RetryBusy, Contend, MutexTypeOK, mutex_vars
    <2>4. WaitInv' /\ PassInv'
      BY <1>3, <2>1, <2>2 DEF RetryBusy, Contend, MutexInv, MutexTypeOK, WaitInv, PassInv, None, mutex_vars, Prios
    <2> QED
      BY <2>2, <2>3, <2>4 DEF LockInv, MutexInv
  <1>4. ASSUME NEW t \in Lockers, Wake(t) PROVE MutexInv'
    BY <1>4 DEF Wake, MutexInv, MutexTypeOK, OwnerHolds, BoostEnds, FreeInv, WaitInv, PassInv, mutex_vars
  <1>5. ASSUME NEW m \in Mutexes, Lock(m) PROVE MutexInv'
    <2>1. current \in Lockers /\ Acquire(current, m) /\ UNCHANGED base_priority
      BY <1>5, <1>0 DEF Lock, MutexTypeOK
    <2>2. MutexTypeOK' /\ LockInv'
      <3>1. lock_count[m] < MaxDepth /\ CanLock(current, m) /\ UNCHANGED <<waits_for, asleep, polled, current>>
        BY <1>5 DEF Lock
      <3>2. LockInv' /\ held' \in [Lockers -> [Mutexes -> 0 .. MaxDepth]]
        BY <1>0, <2>1, <3>1, AcquireLocks
      <3> QED
        BY <1>0, <2>1, <3>1, <3>2, AcquireLocks DEF MutexTypeOK, Acquire
    <2>3. WaitInv' /\ PassInv'
      BY <1>5, <2>1 DEF Lock, Acquire, MutexInv, MutexTypeOK, WaitInv, PassInv, None
    <2> QED
      BY <2>2, <2>3 DEF LockInv, MutexInv
  <1>6. ASSUME NEW m \in Mutexes, LockBusy(m) \/ TryLockBusy(m) PROVE MutexInv'
    <2>1. current \in Lockers /\ ~CanLock(current, m) /\ Contend(current, m) /\ UNCHANGED base_priority
      BY <1>6, <1>0 DEF LockBusy, TryLockBusy, MutexTypeOK
    <2>2. /\ priority' \in [Lockers -> Prios] /\ LockInv'
          /\ owner[m] \in Lockers /\ owner[m] # current
          /\ \A u \in Lockers : priority'[u] <= priority[u]
          /\ priority'[owner[m]] <= base_priority[current]
      BY <1>0, <2>1, ContendBoosts
    <2>3. CASE LockBusy(m)
      <3>1. MutexTypeOK'
        BY <1>0, <2>1, <2>2, <2>3 DEF LockBusy, Contend, MutexTypeOK, mutex_vars
      <3>2. WaitInv'
        BY <2>1, <2>2, <2>3 DEF LockBusy, Contend, MutexInv, MutexTypeOK, WaitInv, None, mutex_vars
      <3>3. ASSUME NEW h \in polled', NEW o \in Lockers, owner[waits_for'[h]] = o, waits_for'[o] = None
            PROVE  priority'[o] <= base_priority[h]
        <4>1. CASE h = current
          BY <2>1, <2>2, <2>3, <3>3, <4>1, <1>0 DEF LockBusy, MutexTypeOK
        <4>2. CASE h # current
          <5>1. /\ h \in polled /\ waits_for'[h] = waits_for[h] /\ o # current
                /\ waits_for'[o] = waits_for[o]
            BY <2>1, <2>3, <3>3, <4>2, <1>0 DEF LockBusy, MutexTypeOK, None
          <5>2. priority[o] <= base_priority[h]
            BY <3>3, <5>1 DEF MutexInv, PassInv
          <5> QED
            BY <1>0, <2>2, <5>1, <5>2 DEF MutexTypeOK, Prios
        <4> QED
          BY <4>1, <4>2
      <3>4. PassInv'
        <4>1. \A h \in polled' : waits_for'[h] # None
          BY <2>1, <2>3, <1>0 DEF LockBusy, MutexTypeOK, MutexInv, PassInv, None
        <4> QED
          BY <2>1, <2>3, <3>3, <4>1 DEF LockBusy, Contend, PassInv, mutex_vars
      <3> QED
        BY <2>2, <3>1, <3>2, <3>4 DEF LockInv, MutexInv
    <2>4. CASE TryLockBusy(m)
      <3>1. MutexTypeOK' /\ WaitInv' /\ PassInv'
        BY <2>1, <2>2, <2>4
        DEF TryLockBusy, Contend, MutexInv, MutexTypeOK, WaitInv, PassInv, None, mutex_vars, Prios
      <3> QED
        BY <2>2, <3>1 DEF LockInv, MutexInv
    <2> QED
      BY <1>6, <2>3, <2>4
  <1>7. ASSUME NEW m \in Mutexes, Unlock(m) PROVE MutexInv'
    <2>1. current \in Lockers /\ owner[m] = current /\ Release(current, m) /\ UNCHANGED base_priority
      BY <1>7, <1>0 DEF Unlock, MutexTypeOK
    <2>2. /\ owner' \in [Mutexes -> Lockers \cup {NoTask}]
          /\ lock_count' \in [Mutexes -> 0 .. MaxDepth]
          /\ held' \in [Lockers -> [Mutexes -> 0 .. MaxDepth]]
          /\ priority' \in [Lockers -> Prios]
          /\ LockInv'
          /\ \A u \in Lockers \ {current} : priority'[u] = priority[u]
          /\ \A n \in Mutexes : owner'[n] \in {owner[n], NoTask}
      BY <1>0, <1>7, <2>1, ReleaseUnlocks DEF Unlock
    <2>3. MutexTypeOK'
      BY <1>0, <1>7, <2>2 DEF Unlock, MutexTypeOK
    <2>4. UNCHANGED <<base_priority, waits_for, polled, current>>
      BY <1>7 DEF Unlock
    <2>5. WaitInv'
      <3> SUFFICES ASSUME NEW u \in Lockers, waits_for[u] # None PROVE owner'[waits_for[u]] # u
        BY <2>4 DEF WaitInv
      <3>1. waits_for[u] \in Mutexes /\ owner[waits_for[u]] # u
        BY <1>0 DEF MutexInv, MutexTypeOK, WaitInv
      <3> QED
        BY <2>2, <3>1
    <2>6. ASSUME NEW h \in polled, NEW o \in Lockers \ {current},
                 owner'[waits_for[h]] = o, waits_for[o] = None
          PROVE  priority'[o] <= base_priority[h]
      <3>1. waits_for[h] \in Mutexes
        BY <1>0 DEF MutexInv, MutexTypeOK, PassInv, None
      <3>2. owner[waits_for[h]] = o
        BY <2>2, <2>6, <3>1
      <3> QED
        BY <2>2, <2>6, <3>2 DEF MutexInv, PassInv
    <2>7. PassInv'
      BY <2>4, <2>6 DEF MutexInv, PassInv
    <2> QED
      BY <2>2, <2>3, <2>5, <2>7 DEF LockInv, MutexInv
  <1>8. CASE PassEnds \/ Yield \/ Sleep \/ UNCHANGED all_mutex_vars
    BY <1>8 DEF PassEnds, Yield, Sleep, all_mutex_vars, mutex_vars, MutexInv, MutexTypeOK, OwnerHolds, BoostEnds,
                FreeInv, WaitInv, PassInv
  <1> QED
    BY <1>1, <1>2, <1>3, <1>4, <1>5, <1>6, <1>7, <1>8 DEF MutexNext

LEMMA Invariance == MutexSpec => []MutexInv
  BY InitIndInv, NextIndInv, PTL DEF MutexSpec

\* syn_mutex_try_lock and syn_mutex_unlock give a mutex to one task at a time, and count
\* how deep it is in.
THEOREM Exclusion == MutexSpec => []OwnerHolds
  <1>1. MutexInv => OwnerHolds
    BY DEF MutexInv
  <1> QED
    BY Invariance, <1>1, PTL

\* syn_mutex_unlock takes an inherited priority back: no boost outlives the last mutex held.
THEOREM BoostsEnd == MutexSpec => []BoostEnds
  <1>1. MutexInv => BoostEnds
    BY DEF MutexInv
  <1> QED
    BY Invariance, <1>1, PTL

\* The inheritance of syn_mutex_try_lock works: the scheduler never runs a task ahead of an
\* owner that could run while a task of a more urgent base priority waits for the mutex.
THEOREM Inheritance == MutexSpec => NoInversion
  <1>1. ASSUME MutexInv, NEW t \in Lockers, NEW h \in Lockers, NEW o \in Lockers,
               Pick(t), h \in Ready, waits_for[h] # None, owner[waits_for[h]] = o,
               o \in Ready, waits_for[o] = None
        PROVE  priority[t] <= base_priority[h]
    <2>1. CASE h \in polled
      <3>1. o \notin polled /\ o # current /\ priority[o] <= base_priority[h]
        BY <1>1, <2>1, TaskAssumption DEF MutexInv, PassInv, Pick, Choice
      <3> QED
        BY <1>1, <3>1 DEF Pick, Choice, MutexInv, MutexTypeOK, Prios
    <2>2. CASE h \notin polled
      BY <1>1, <2>2 DEF Pick, Choice, MutexInv, MutexTypeOK, BoostEnds, Prios
    <2> QED
      BY <2>1, <2>2
  <1>2. MutexInv /\ [MutexNext]_all_mutex_vars =>
          [\A t \in Lockers : Pick(t) =>
             \A h, o \in Ready :
               waits_for[h] # None /\ owner[waits_for[h]] = o /\ waits_for[o] = None
               => priority[t] <= base_priority[h]]_all_mutex_vars
    BY <1>1 DEF Ready
  <1> QED
    BY Invariance, <1>2, PTL DEF MutexSpec, NoInversion
=============================================================================
