-------------------------------- MODULE Mutex --------------------------------
(***************************************************************************)
(* The recursive mutex with priority inheritance (sched/syn_mutex.c), used *)
(* by tasks under the cooperative scheduler.                               *)
(*                                                                         *)
(* Of the scheduler this module keeps what Sched is proved to do: a pass   *)
(* tries the ready tasks by strict priority, goes on to the next when one  *)
(* returns PT_WAITING, and ends when one has done its work.  PT_MUTEX_LOCK *)
(* is PT_WAIT_UNTIL around syn_mutex_try_lock: a task that does not get    *)
(* the mutex tries again whenever it is polled.                            *)
(***************************************************************************)
EXTENDS Integers

CONSTANTS Lockers,      \* the tasks that lock
          NoTask,       \* the NULL pointer
          Mutexes,      \* numbers: tasks lock in increasing order
          Levels,
          MaxDepth      \* bound: recursive locks of one mutex

ASSUME TaskAssumption == NoTask \notin Lockers
ASSUME MutexAssumption == Mutexes \subseteq Nat /\ 0 \notin Mutexes
ASSUME LevelAssumption == Levels \in Nat \ {0} /\ MaxDepth \in Nat \ {0}

None == 0
Prios == 0 .. Levels - 1

VARIABLES owner, lock_count,          \* of each mutex
          priority, base_priority,    \* of each task
          waits_for,                  \* the mutex a task waits for in PT_MUTEX_LOCK
          asleep,                     \* tasks in PT_DELAY_MS
          polled,                     \* tasks that returned PT_WAITING in this pass
          current,                    \* the task running
          held                        \* history: locks each task got and did not release

mutex_vars == <<owner, lock_count>>
all_mutex_vars == <<mutex_vars, priority, base_priority, waits_for, asleep, polled, current, held>>

MutexInit == /\ owner = [m \in Mutexes |-> NoTask]
             /\ lock_count = [m \in Mutexes |-> 0]
             /\ base_priority \in [Lockers -> Prios]
             /\ priority = base_priority
             /\ waits_for = [t \in Lockers |-> None]
             /\ asleep = {} /\ polled = {} /\ current = NoTask
             /\ held = [t \in Lockers |-> [m \in Mutexes |-> 0]]
-----------------------------------------------------------------------------
(* syn_mutex.c *)

\* Cases 1 and 2 of syn_mutex_try_lock: free, or held by the task itself.
CanLock(t, m) == lock_count[m] = 0 \/ owner[m] = t

Acquire(t, m) == /\ owner' = [owner EXCEPT ![m] = t]
                 /\ lock_count' = [lock_count EXCEPT ![m] = @ + 1]
                 /\ held' = [held EXCEPT ![t][m] = @ + 1]
                 /\ UNCHANGED priority

\* Mutant of Contend: no inheritance.
ContendOnly(t, m) == UNCHANGED <<mutex_vars, held, priority>>

\* Case 3: the owner inherits the priority of the task that cannot have it.
\* syn_task_boost_priority takes only a priority no worse than the base.
Contend(t, m) ==
    /\ priority' = IF priority[t] < priority[owner[m]] /\ priority[t] <= base_priority[owner[m]]
                   THEN [priority EXCEPT ![owner[m]] = priority[t]] ELSE priority
    /\ UNCHANGED <<mutex_vars, held>>

\* Mutants of Release: the boost stays; the last but one unlock frees the mutex.
ReleaseKeepsBoost(t, m) ==
    /\ lock_count' = [lock_count EXCEPT ![m] = @ - 1]
    /\ held' = [held EXCEPT ![t][m] = @ - 1]
    /\ owner' = IF lock_count[m] = 1 THEN [owner EXCEPT ![m] = NoTask] ELSE owner
    /\ UNCHANGED priority
ReleaseEarly(t, m) ==
    /\ lock_count' = [lock_count EXCEPT ![m] = 0]
    /\ held' = [held EXCEPT ![t][m] = @ - 1]
    /\ owner' = [owner EXCEPT ![m] = NoTask]
    /\ priority' = [priority EXCEPT ![t] = base_priority[t]]

\* syn_mutex_unlock by the owner: at depth 0 its priority goes back to the base.
Release(t, m) ==
    /\ lock_count' = [lock_count EXCEPT ![m] = @ - 1]
    /\ held' = [held EXCEPT ![t][m] = @ - 1]
    /\ owner' = IF lock_count[m] = 1 THEN [owner EXCEPT ![m] = NoTask] ELSE owner
    /\ priority' = IF lock_count[m] = 1 THEN [priority EXCEPT ![t] = base_priority[t]]
                   ELSE priority
-----------------------------------------------------------------------------
(* Passes of the scheduler. *)

Ready == Lockers \ asleep

\* The most urgent ready task not yet polled in this pass.
Choice(t) == /\ current = NoTask /\ t \in Ready \ polled
             /\ \A u \in Ready \ polled : priority[t] <= priority[u]

\* It was not waiting, and runs.
Pick(t) == /\ Choice(t) /\ waits_for[t] = None
           /\ current' = t
           /\ UNCHANGED <<mutex_vars, priority, base_priority, waits_for, asleep, polled, held>>

\* It waits in PT_MUTEX_LOCK, and gets the mutex now ...
Retry(t) == /\ Choice(t) /\ waits_for[t] # None
            /\ CanLock(t, waits_for[t])
            /\ Acquire(t, waits_for[t])
            /\ waits_for' = [waits_for EXCEPT ![t] = None]
            /\ current' = t
            /\ UNCHANGED <<base_priority, asleep, polled>>

\* ... or does not, and the pass goes on.
RetryBusy(t) == /\ Choice(t) /\ waits_for[t] # None
                /\ ~CanLock(t, waits_for[t])
                /\ Contend(t, waits_for[t])
                /\ polled' = polled \cup {t}
                /\ UNCHANGED <<base_priority, waits_for, asleep, current>>

\* Every ready task has been polled.
PassEnds == /\ current = NoTask /\ polled # {} /\ Ready \subseteq polled
            /\ polled' = {}
            /\ UNCHANGED <<mutex_vars, priority, base_priority, waits_for, asleep, current, held>>
-----------------------------------------------------------------------------
(* The running task. *)

\* Locks are taken in one order, as they must be whatever the mutex does.
InOrder(t, m) == \A n \in Mutexes : held[t][n] > 0 => n <= m

Lock(m) == /\ current # NoTask /\ InOrder(current, m)
           /\ CanLock(current, m) /\ lock_count[m] < MaxDepth
           /\ Acquire(current, m)
           /\ UNCHANGED <<base_priority, waits_for, asleep, polled, current>>

LockBusy(m) == /\ current # NoTask /\ InOrder(current, m)
               /\ ~CanLock(current, m)
               /\ Contend(current, m)
               /\ waits_for' = [waits_for EXCEPT ![current] = m]
               /\ polled' = polled \cup {current}
               /\ current' = NoTask
               /\ UNCHANGED <<base_priority, asleep>>

\* PT_MUTEX_TRYLOCK fails, and the task goes on.  (When it succeeds it is Lock.)
TryLockBusy(m) == /\ current # NoTask
                  /\ ~CanLock(current, m)
                  /\ Contend(current, m)
                  /\ UNCHANGED <<base_priority, waits_for, asleep, polled, current>>

Unlock(m) == /\ current # NoTask
             /\ lock_count[m] # 0 /\ owner[m] = current
             /\ Release(current, m)
             /\ UNCHANGED <<base_priority, waits_for, asleep, polled, current>>

\* PT_YIELD ends the pass.
Yield == /\ current # NoTask
         /\ current' = NoTask /\ polled' = {}
         /\ UNCHANGED <<mutex_vars, priority, base_priority, waits_for, asleep, held>>

\* So does a task that delays itself, whatever it holds.
Sleep == /\ current # NoTask
         /\ asleep' = asleep \cup {current}
         /\ current' = NoTask /\ polled' = {}
         /\ UNCHANGED <<mutex_vars, priority, base_priority, waits_for, held>>

\* The delay has passed; a pass reads the tick once, as it begins.
Wake(t) == /\ t \in asleep /\ current = NoTask /\ polled = {}
           /\ asleep' = asleep \ {t}
           /\ UNCHANGED <<mutex_vars, priority, base_priority, waits_for, polled, current, held>>

MutexNext == \/ \E t \in Lockers : Pick(t) \/ Retry(t) \/ RetryBusy(t) \/ Wake(t)
             \/ \E m \in Mutexes : Lock(m) \/ LockBusy(m) \/ TryLockBusy(m) \/ Unlock(m)
             \/ PassEnds \/ Yield \/ Sleep

MutexSpec == MutexInit /\ [][MutexNext]_all_mutex_vars
-----------------------------------------------------------------------------
(* Properties. *)

MutexTypeOK == /\ owner \in [Mutexes -> Lockers \cup {NoTask}]
               /\ lock_count \in [Mutexes -> 0 .. MaxDepth]
               /\ priority \in [Lockers -> Prios] /\ base_priority \in [Lockers -> Prios]
               /\ waits_for \in [Lockers -> Mutexes \cup {None}]
               /\ asleep \subseteq Lockers /\ polled \subseteq Lockers /\ current \in Lockers \cup {NoTask}
               /\ held \in [Lockers -> [Mutexes -> 0 .. MaxDepth]]

\* One task at a time is between its locks and its unlocks of a mutex, and the
\* mutex knows it and how deep it is in.
OwnerHolds == \A m \in Mutexes : \A t \in Lockers :
    held[t][m] = IF owner[m] = t THEN lock_count[m] ELSE 0

\* A task runs with a priority other than its own only while it holds a mutex.
BoostEnds == \A t \in Lockers :
    /\ priority[t] <= base_priority[t]
    /\ (\A m \in Mutexes : held[t][m] = 0) => priority[t] = base_priority[t]

\* No priority inversion: when the scheduler comes to run a task that waits for
\* nothing, no task of a more urgent base priority is waiting for a mutex whose
\* owner could run; the owner inherited the priority, and was the one to run.
\* (An inherited priority is passed on down a chain of owners a pass later.)
NoInversion == [][\A t \in Lockers : Pick(t) =>
    \A h, o \in Ready : waits_for[h] # None /\ owner[waits_for[h]] = o /\ waits_for[o] = None
                        => priority[t] <= base_priority[h]]_all_mutex_vars
-----------------------------------------------------------------------------
(* The inductive invariant behind them. *)

\* A mutex is free when nobody owns it.
FreeInv == \A m \in Mutexes : lock_count[m] = 0 <=> owner[m] = NoTask

\* Nobody waits for a mutex of its own.
WaitInv == \A t \in Lockers : waits_for[t] # None => owner[waits_for[t]] # t

\* A task that was polled in this pass is still waiting, and, if the owner of its mutex
\* has not run since, it has passed its priority on.
PassInv == /\ current # NoTask => waits_for[current] = None
           /\ \A h \in polled : waits_for[h] # None
           /\ \A h \in polled, o \in Lockers \ {current} :
                  owner[waits_for[h]] = o /\ waits_for[o] = None => priority[o] <= base_priority[h]

MutexInv == MutexTypeOK /\ OwnerHolds /\ BoostEnds /\ FreeInv /\ WaitInv /\ PassInv
=============================================================================
