---------------------------- MODULE SchedProofs ----------------------------
(***************************************************************************)
(* The theorems about Sched, for any number of tasks and levels, any flags,*)
(* any tick width and whatever macros and control functions the tasks use. *)
(***************************************************************************)
EXTENDS SchedWaits, FiniteSetTheorems

USE TasksAssumption, LevelsAssumption
-----------------------------------------------------------------------------
(* The rotation among the tasks of a level and the candidates of a pass. *)

\* Two tasks of a level are at different distances from its rotation index.
LEMMA BestDiffers ==
  ASSUME NEW rr \in Tasks, NEW t \in Tasks, NEW u \in Tasks, Around(rr, t) = Around(rr, u)
  PROVE  t = u
  BY DEF Around, Tasks

\* A step that leaves phase, locals, tasks and candidates alone, and does not
\* move the rotation, keeps CandidateInv and RotationInv.
LEMMA RotationFrame ==
  ASSUME CandidateInv, RotationInv,
         UNCHANGED <<state, delay_until, priority, phase, cursor, best, best_prio, candidates, overtook,
                     rr_per_prio>>
  PROVE  CandidateInv' /\ RotationInv'
  BY DEF CandidateInv, RotationInv, Ready, Running, Busy

\* The candidates of a pass are the tasks that are ready when it starts.
LEMMA CandidatesFresh ==
  ASSUME candidates' = {t \in Tasks : Ready(t)}, UNCHANGED <<state, delay_until>>,
         phase' = "scan", cursor' = 0
  PROVE  CandidateInv'
  BY DEF CandidateInv, Ready, Running, Tasks, NoTask

\* In syn_sched_run ...
LEMMA RotationPass ==
  ASSUME TypeOK, PassInv, CandidateInv, RotationInv, SchedRun \/ Scan \/ Select \/ Clean
  PROVE  CandidateInv' /\ RotationInv'
  <1>a. ASSUME SchedRun PROVE CandidateInv'
    <2>1. /\ candidates' = {t \in Tasks : Ready(t)} /\ UNCHANGED <<state, delay_until>>
          /\ phase' = "scan" /\ cursor' = 0
      BY <1>a, Zenon DEF SchedRun, task_vars
    <2> QED  BY <2>1, CandidatesFresh, Zenon
  <1>b. ASSUME Scan PROVE cursor \in Tasks /\ cursor' = cursor + 1 /\ phase = "scan" /\ phase' = "scan"
    BY <1>b DEF Scan, TypeOK, LocalsOK, Tasks
  <1> USE DEF CandidateInv, RotationInv, Ready, Running, Busy
  <1>0. NoTask \notin Tasks /\ Tasks \subseteq Int /\ NTasks \in Int
    BY DEF NoTask, Tasks
  <1>1. CASE SchedRun
    <2>1. CandidateInv'
      BY <1>a, <1>1, Zenon
    <2>2. RotationInv'
      BY <1>0, <1>1 DEF SchedRun, task_vars, Tasks
    <2> QED  BY <2>1, <2>2, Zenon
  <1>2. CASE Scan
    <2>1. cursor \in Tasks /\ cursor' = cursor + 1 /\ phase = "scan" /\ phase' = "scan"
      BY <1>2, <1>b, Zenon
    <2>2. \A t \in Tasks : Ready(t) => Ready(t)' /\ priority'[t] = priority[t]
      BY <1>2, Zenon DEF Scan, task_vars, TypeOK, TasksOK
    <2>3. Ready(cursor) => Consider(cursor)
      BY <1>2, Zenon DEF Scan
    <2>4. UNCHANGED <<priority, rr_per_prio, candidates, overtook>>
      BY <1>2, Zenon DEF Scan, task_vars, history
    <2>5. \/ UNCHANGED <<best, best_prio>>
          \/ /\ best' = cursor /\ best_prio' = priority[cursor]
             /\ \/ priority[cursor] < best_prio
                \/ priority[cursor] = best_prio /\ Dist(cursor) < Dist(best)
      BY <1>2, Zenon DEF Scan, Consider
    <2>6. /\ best_prio \in Int /\ \A t \in Tasks : priority[t] \in Int
          /\ \A t \in candidates : t \in Tasks
      BY DEF TypeOK, TasksOK, LocalsOK, HistoryOK, Prios
    <2>7. ASSUME NEW p \in Prios, NEW t \in Tasks PROVE Around(rr_per_prio[p], t) \in Int
      BY <2>7 DEF Around, TypeOK, SharedOK, Tasks
    <2>8. CandidateInv'
      <3> SUFFICES ASSUME NEW t \in candidates'
                   PROVE  /\ Ready(t)' /\ (t # Running)'
                          /\ t < cursor' => best_prio' <= priority'[t]
        BY <2>1, Zenon
      <3>1. t \in candidates /\ t \in Tasks /\ Ready(t)  BY <2>4, <2>6, Zenon
      <3>2. Ready(t)' /\ (t # Running)'  BY <1>0, <2>1, <2>2, <3>1, Zenon
      <3>3. CASE t < cursor  BY <2>1, <2>4, <2>5, <2>6, <3>1, <3>2, <3>3
      <3>4. CASE t = cursor  BY <2>1, <2>3, <2>4, <2>6, <3>1, <3>2, <3>4 DEF Consider
      <3>5. ASSUME t < cursor' PROVE t < cursor \/ t = cursor
        <4>1. t \in Int /\ cursor \in Int /\ t < cursor + 1  BY <1>0, <2>1, <3>1, <3>5, Zenon
        <4> QED  BY ONLY <4>1
      <3> QED  BY <3>2, <3>3, <3>4, <3>5, Zenon
    <2>9. RotationInv'
      <3> SUFFICES ASSUME NEW t \in Tasks, overtook[t] # {}
                   PROVE  /\ Ready(t)'
                          /\ t < cursor' =>
                               /\ best' # NoTask /\ best_prio' <= priority[t]
                               /\ best_prio' = priority[t] /\ best' # t =>
                                    Around(rr_per_prio[best_prio'], best') <
                                      Around(rr_per_prio[best_prio'], t)
        BY <1>0, <2>1, <2>4, Zenon
      <3>1. Ready(t) /\ Ready(t)' /\ priority[t] \in Prios
        BY <2>2, Zenon DEF TypeOK, TasksOK
      <3>2. best # NoTask => best \in Tasks /\ best_prio = priority[best] /\ best_prio \in Prios
        BY <2>1, Zenon DEF PassInv, TypeOK, LocalsOK, NoTask
      <3>3. best = NoTask => best_prio = Levels
        BY <2>1, Zenon DEF PassInv
      <3>4. priority[cursor] \in Prios  BY <2>1, Zenon DEF TypeOK, TasksOK
      <3>5. CASE t < cursor
        <4>1. /\ best # NoTask /\ best_prio <= priority[t]
              /\ best_prio = priority[t] /\ best # t =>
                   Around(rr_per_prio[best_prio], best) < Around(rr_per_prio[best_prio], t)
          BY <2>1, <3>5, Zenon
        <4>2. CASE UNCHANGED <<best, best_prio>>
          BY <3>1, <4>1, <4>2, Zenon
        <4>3. CASE best' = cursor /\ best_prio' = priority[cursor] /\ priority[cursor] < best_prio
          BY <1>0, <2>1, <2>6, <3>1, <4>1, <4>3
        <4>4. CASE /\ best' = cursor /\ best_prio' = priority[cursor]
                   /\ priority[cursor] = best_prio /\ Dist(cursor) < Dist(best)
          <5>1. /\ Around(rr_per_prio[best_prio], best) \in Int
                /\ Around(rr_per_prio[best_prio], t) \in Int
                /\ Around(rr_per_prio[best_prio], cursor) \in Int
            BY <2>1, <2>7, <3>2, <4>1
          <5>2. Around(rr_per_prio[best_prio], cursor) < Around(rr_per_prio[best_prio], best)
            BY <3>2, <4>1, <4>4, Zenon DEF Dist
          <5> QED  BY <1>0, <2>1, <3>1, <4>1, <4>4, <5>1, <5>2
        <4> QED  BY <2>5, <4>2, <4>3, <4>4
      <3>6. CASE t = cursor
        <4>1. Consider(t)  BY <2>3, <3>1, <3>6, Zenon
        <4>2. CASE best = NoTask
          BY <1>0, <2>6, <3>1, <3>3, <3>6, <4>1, <4>2 DEF Consider, Prios
        <4>3. CASE best # NoTask
          <5>1. /\ Around(rr_per_prio[best_prio], best) \in Int
                /\ Around(rr_per_prio[best_prio], t) \in Int
            BY <2>7, <3>2, <4>3, Zenon
          <5>2. best < t  BY <2>1, <3>6, <4>3, Zenon DEF PassInv
          <5>3. best # t /\ rr_per_prio[best_prio] \in Tasks
            BY <1>0, <3>2, <4>3, <5>2 DEF TypeOK, SharedOK
          <5>4. Around(rr_per_prio[best_prio], best) # Around(rr_per_prio[best_prio], t)
            BY <3>2, <4>3, <5>3, BestDiffers, Zenon
          <5>5. CASE best' = t /\ best_prio' = priority[t]
            BY <1>0, <2>6, <3>1, <5>5
          <5>6. CASE /\ UNCHANGED <<best, best_prio>> /\ ~(priority[t] < best_prio)
                     /\ ~(priority[t] = best_prio /\ Dist(t) < Dist(best))
            BY <1>0, <2>6, <3>1, <3>2, <4>3, <5>1, <5>4, <5>6 DEF Dist
          <5> QED  BY <4>1, <5>5, <5>6, Zenon DEF Consider
        <4> QED  BY <4>2, <4>3, Zenon
      <3> QED  BY <1>0, <2>1, <3>1, <3>5, <3>6
    <2> QED  BY <2>8, <2>9
  <1>3. CASE Select
    <2>1. cursor = NTasks /\ phase = "scan" /\ phase' = IF best = NoTask THEN "clean" ELSE "enter"
      BY <1>3, Zenon DEF Select
    <2>2. \A t \in Tasks : t < cursor  BY <2>1 DEF Tasks
    <2>3. candidates' \subseteq Tasks /\ candidates \subseteq Tasks
      BY <1>3, Zenon DEF Select, TypeOK, HistoryOK
    <2> QED  BY <1>0, <1>3, <2>1, <2>2, <2>3, Zenon DEF Select, task_vars, local_vars, NoTask
  <1>4. CASE Clean
    <2>1. \A t \in Tasks : state[t] = "READY" => state'[t] = "READY"
      BY <1>4, Zenon DEF Clean, EndPass
    <2> QED  BY <1>0, <1>4, <2>1, Zenon DEF Clean, EndPass
  <1> QED  BY <1>1, <1>2, <1>3, <1>4, Zenon

Past(b) == IF b + 1 >= NTasks THEN 0 ELSE b + 1

\* When the rotation moves past task b, b becomes the furthest task of all ...
LEMMA PastIsLast ==
  ASSUME NEW b \in Tasks, NEW t \in Tasks, t # b
  PROVE  Around(Past(b), t) < Around(Past(b), b)
  BY DEF Around, Past, Tasks

\* ... and the order of the tasks beyond b stays.
LEMMA PastKeepsOrder ==
  ASSUME NEW rr \in Tasks, NEW b \in Tasks, NEW t \in Tasks, NEW x \in Tasks,
         Around(rr, b) < Around(rr, t), Around(rr, t) < Around(rr, x)
  PROVE  Around(Past(b), t) < Around(Past(b), x)
  BY DEF Around, Past, Tasks

\* The rotation is right after a task has run ...
LEMMA RotationExecuted ==
  ASSUME TypeOK, PassInv, CandidateInv, RotationInv, Executed
  PROVE  CandidateInv' /\ RotationInv'
  <1> USE DEF CandidateInv, RotationInv, Ready, Running, Busy
  <1>0. /\ NoTask \notin Tasks /\ phase = "yielded" /\ phase' = "clean"
        /\ UNCHANGED <<state, delay_until, priority, candidates, best, best_prio>>
        /\ best \in Tasks /\ best_prio \in Prios
    BY DEF Executed, Rotate, NoTask, Tasks, PassInv
  <1>1. CandidateInv'
    <2>1. candidates \subseteq Tasks  BY Zenon DEF TypeOK, HistoryOK
    <2> QED  BY <1>0, <2>1, Zenon
  <1>2. RotationInv'
    <2> SUFFICES ASSUME NEW t \in Tasks, overtook'[t] # {}
                 PROVE  /\ Ready(t)
                        /\ \A x \in overtook'[t] : Around(rr_per_prio'[priority[t]], t)
                                                   < Around(rr_per_prio'[priority[t]], x)
      BY <1>0, Zenon
    <2>1. /\ t # best /\ Ready(t)
          /\ overtook'[t] = IF state[best] = "DEFERRED" \/ priority[t] # best_prio
                            THEN overtook[t] ELSE overtook[t] \cup {best}
      BY Zenon DEF Executed, Rotate
    <2>2. CASE state[best] = "DEFERRED" \/ priority[t] # best_prio
      <3>1. rr_per_prio'[priority[t]] = rr_per_prio[priority[t]]
        BY <1>0, <2>2, Zenon DEF Executed, Rotate, TypeOK, TasksOK, SharedOK
      <3> QED  BY <2>1, <2>2, <3>1, Zenon
    <2>3. CASE state[best] # "DEFERRED" /\ priority[t] = best_prio
      <3>1. rr_per_prio'[priority[t]] = Past(best)
        BY <1>0, <2>3, Zenon DEF Executed, Rotate, TypeOK, SharedOK, Past
      <3>2. rr_per_prio[best_prio] \in Tasks /\ overtook[t] \subseteq Tasks
        BY <1>0, Zenon DEF TypeOK, SharedOK, HistoryOK
      <3>3. ASSUME NEW x \in overtook[t] PROVE Around(Past(best), t) < Around(Past(best), x)
        <4>1. /\ Around(rr_per_prio[best_prio], best) < Around(rr_per_prio[best_prio], t)
              /\ Around(rr_per_prio[best_prio], t) < Around(rr_per_prio[best_prio], x)
          BY <1>0, <2>1, <2>3, Zenon
        <4> QED  BY <1>0, <3>2, <4>1, PastKeepsOrder, Zenon
      <3>4. Around(Past(best), t) < Around(Past(best), best)
        BY <1>0, <2>1, PastIsLast, Zenon
      <3> QED  BY <2>1, <2>3, <3>1, <3>3, <3>4
    <2> QED  BY <2>2, <2>3, Zenon
  <1> QED  BY <1>1, <1>2, Zenon

\* ... as after the steps of the running task ...
LEMMA RotationTask ==
  ASSUME TypeOK, PassInv, CandidateInv, RotationInv, Enter \/ Leave
  PROVE  CandidateInv' /\ RotationInv'
  <1> USE DEF CandidateInv, RotationInv, Ready, Running, Busy
  <1> Typed
    BY Zenon DEF Typed
  <1>0. Busy /\ best \in Tasks /\ NoTask \notin Tasks /\ candidates \subseteq Tasks
    <2>1. Busy /\ best \in Tasks  BY RunFrame, Zenon
    <2> QED  BY <2>1 DEF NoTask, Tasks, TypeOK, HistoryOK
  <1>1. /\ UNCHANGED <<priority, rr_per_prio, candidates>>
        /\ \A t \in Tasks \ {best} : state'[t] = state[t] /\ delay_until'[t] = delay_until[t]
    BY RunFrame, RunPass, Zenon
  <1>2. \A t \in Tasks : overtook'[t] = IF t = best THEN {} ELSE overtook[t]
    <2>1. \/ overtook' = [overtook EXCEPT ![best] = {}]
          \/ phase \in {"loop", "body", "check"} /\ overtook' = overtook
      BY RunPass, Zenon
    <2>2. phase # "enter" => overtook[best] = {}  BY <1>0, Zenon
    <2> QED  BY <1>0, <2>1, <2>2, Zenon DEF TypeOK, HistoryOK
  <1>3. \/ phase' \in {"delay", "loop", "body", "check", "yielded"} /\ UNCHANGED <<best, best_prio>>
        \/ phase' = "scan" /\ cursor' = 0
        \/ phase' = "clean"
    <2>1. \/ Waiting
          \/ phase' \in {"delay", "loop", "body", "check", "yielded"} /\ UNCHANGED local_vars
      BY RunPass, Zenon
    <2> QED  BY <2>1, Zenon DEF Waiting, Retry, local_vars
  <1>4. CandidateInv'
    <2> SUFFICES ASSUME NEW t \in candidates
                 PROVE  /\ Ready(t)' /\ (t # Running)'
                        /\ phase' # "enter" /\ ~(phase' = "scan" /\ t < cursor')
      BY <1>1, Zenon
    <2>1. t \in Tasks /\ t # best /\ Ready(t)  BY <1>0, Zenon
    <2>2. Ready(t)'  BY <1>1, <2>1, Zenon
    <2> QED  BY <1>0, <1>3, <2>1, <2>2 DEF Tasks
  <1>5. RotationInv'
    <2> SUFFICES ASSUME NEW t \in Tasks, overtook'[t] # {}
                 PROVE  /\ Ready(t)' /\ (t # Running)'
                        /\ \A x \in overtook'[t] :
                             Around(rr_per_prio[priority[t]], t) < Around(rr_per_prio[priority[t]], x)
                        /\ ~(phase' = "scan" /\ t < cursor')
                        /\ Busy' =>
                             /\ best' # NoTask
                             /\ best_prio' = priority[t] /\ best' # t =>
                                  Around(rr_per_prio[best_prio'], best') <
                                    Around(rr_per_prio[best_prio'], t)
      BY <1>1
    <2>1. t # best /\ overtook[t] # {} /\ overtook'[t] = overtook[t]  BY <1>2, Zenon
    <2>2. /\ Ready(t) /\ best # NoTask
          /\ \A x \in overtook[t] :
               Around(rr_per_prio[priority[t]], t) < Around(rr_per_prio[priority[t]], x)
          /\ best_prio = priority[t] /\ best # t =>
               Around(rr_per_prio[best_prio], best) < Around(rr_per_prio[best_prio], t)
      BY <1>0, <2>1, Zenon
    <2>3. Ready(t)'  BY <1>1, <2>1, <2>2, Zenon
    <2>4. (t # Running)' /\ ~(phase' = "scan" /\ t < cursor')  BY <1>0, <1>3, <2>1 DEF Tasks
    <2>5. Busy' => UNCHANGED <<best, best_prio>>  BY <1>3, Zenon
    <2> QED  BY <2>1, <2>2, <2>3, <2>4, <2>5, Zenon
  <1> QED  BY <1>4, <1>5, Zenon

\* ... and of everything else.
LEMMA RotationOutside ==
  ASSUME TypeOK, PassInv, CandidateInv, RotationInv, Control \/ Interrupt \/ UNCHANGED vars
  PROVE  CandidateInv' /\ RotationInv'
  <1>0. NoTask \notin Tasks /\ candidates \subseteq Tasks /\ (Busy => best \in Tasks)
    BY DEF NoTask, Tasks, TypeOK, HistoryOK, PassInv
  <1>1. CASE Control
    <2>1. phase \in {"idle", "body"} /\ TasksOK'  BY <1>1, ControlTypes, Zenon DEF TypeOK
    <2>2. /\ UNCHANGED <<rr_per_prio, phase, best, best_prio, cursor>>
          /\ candidates' = {t \in candidates : Ready(t)'}
          /\ overtook' = [t \in Tasks |->
                            IF Ready(t)' /\ priority'[t] = priority[t] THEN overtook[t] ELSE {}]
      BY <1>1, Zenon DEF Control, local_vars
    <2>3. CandidateInv'
      BY <1>0, <2>1, <2>2, Zenon DEF CandidateInv, Running
    <2>4. RotationInv'
      BY <1>0, <2>1, <2>2 DEF RotationInv, Running, Busy
    <2> QED  BY <2>3, <2>4, Zenon
  <1>2. ASSUME NEW t \in Tasks, Signal(t) PROVE CandidateInv' /\ RotationInv'
    <2>1. /\ UNCHANGED <<delay_until, priority, phase, cursor, best, best_prio, candidates, overtook,
                         rr_per_prio>>
          /\ \A u \in Tasks : state[u] = "READY" => state'[u] = "READY"
      BY <1>2, Zenon DEF Signal, local_vars, history, TypeOK, TasksOK
    <2> QED  BY <1>0, <2>1 DEF CandidateInv, RotationInv, Ready, Running, Busy
  <1>3. CASE UNCHANGED <<state, delay_until, priority, phase, cursor, best, best_prio, candidates,
                         overtook, rr_per_prio>>
    BY <1>3, RotationFrame, Zenon
  <1> QED
    BY <1>1, <1>2, <1>3, Zenon DEF Interrupt, SetFlag, Tick, vars, task_vars, local_vars, history
-----------------------------------------------------------------------------
\* Every behaviour satisfies the inductive invariant.
THEOREM Invariance == Spec => []IndInv
  <1>1. IndInv /\ [Next]_vars => IndInv'
    <2> SUFFICES ASSUME IndInv, [Next]_vars PROVE IndInv'  BY Zenon
    <2>1. TypeOK' /\ PassInv'  BY TypeInductive, Zenon DEF IndInv
    <2>2. SleepInv' /\ TickLocalStates'  BY SleepInductive, TickLocalInductive, Zenon DEF IndInv
    <2>3. CandidateInv' /\ RotationInv'
      BY RotationPass, RotationExecuted, RotationTask, RotationOutside, Zenon DEF IndInv, Next, Processor
    <2> QED  BY <2>1, <2>2, <2>3, Zenon DEF IndInv
  <1> QED  BY InitIndInv, <1>1, PTL DEF Spec

\* Type correctness: rotation indices, loop counters, deadlines and task states
\* stay in range in syn_sched_run.
THEOREM TypeCorrect == Spec => []TypeOK
  BY Invariance, PTL DEF IndInv

\* PT_BLOCK_CONDITION loses no wake-up, whatever the instant of the interrupt.
THEOREM WakeupsKept == Spec => []NoLostWakeup
  <1>1. IndInv => NoLostWakeup  BY Zenon DEF IndInv, SleepInv, NoLostWakeup
  <1> QED  BY <1>1, Invariance, PTL

\* syn_sched_run chooses by strict priority.
THEOREM PriorityIsStrict == Spec => []StrictPriority
  <1>1. IndInv => StrictPriority  BY Zenon DEF IndInv, CandidateInv, StrictPriority
  <1> QED  BY <1>1, Invariance, PTL

\* Within a level syn_sched_run rotates: a ready task is overtaken at most once by
\* each other task.
THEOREM RotationIsFair == Spec => []RoundRobin
  <1>1. IndInv => RoundRobin
    <2> SUFFICES ASSUME IndInv, phase = "yielded", NEW t \in Tasks \ {best}, Ready(t),
                        priority[t] = best_prio, best \in overtook[t]
                 PROVE  FALSE
      BY Zenon DEF RoundRobin
    <2>1. /\ Around(rr_per_prio[best_prio], t) < Around(rr_per_prio[best_prio], best)
          /\ Around(rr_per_prio[best_prio], best) < Around(rr_per_prio[best_prio], t)
      BY Zenon DEF IndInv, RotationInv, Busy
    <2>2. /\ Around(rr_per_prio[best_prio], t) \in Int
          /\ Around(rr_per_prio[best_prio], best) \in Int
      BY DEF IndInv, TypeOK, SharedOK, PassInv, Busy, Around, Tasks
    <2> QED  BY <2>1, <2>2
  <1> QED  BY <1>1, Invariance, PTL

\* WAITING and DEFERRED are over when a pass ends, but for the task that deferred.
THEOREM StatesAreTickLocal == Spec => []TickLocalStates
  BY Invariance, PTL DEF IndInv
-----------------------------------------------------------------------------
(* Work conservation needs a count: every attempt of a pass leaves one more  *)
(* task WAITING, as long as no task un-waits another one by suspending or    *)
(* restarting it in the middle of the pass.                                  *)

Tried == {t \in Tasks : state[t] = "WAITING"}

CountInv == /\ Busy \/ phase = "scan" => attempts = Cardinality(Tried)
            /\ phase = "scan" /\ best # NoTask => state[best] = "READY"
            /\ Busy => state[best] # "WAITING"

\* There are finitely many tasks.
LEMMA TriedFinite ==
  /\ IsFiniteSet(Tasks) /\ Cardinality(Tasks) = NTasks
  /\ IsFiniteSet(Tried) /\ Cardinality(Tried) \in Nat
  <1>1. IsFiniteSet(Tasks) /\ Cardinality(Tasks) = NTasks  BY FS_Interval DEF Tasks
  <1>2. IsFiniteSet(Tried)  BY <1>1, FS_Subset, Zenon DEF Tried
  <1> QED  BY <1>1, <1>2, FS_CardinalityType, Zenon

\* A task that returns PT_WAITING adds one, and a pass that ends for lack of
\* attempts has tried every task.
LEMMA TriedOneMore ==
  ASSUME IndInv, CountInv, Busy, Waiting
  PROVE  CountInv' /\ (phase' = "clean" => \A t \in Tasks : state'[t] = "WAITING")
  <1>0. best \in Tasks /\ attempts < NTasks /\ NoTask \notin Tasks /\ attempts \in Nat
    BY DEF IndInv, PassInv, TypeOK, LocalsOK, NoTask, Tasks
  <1>1. Tried' = Tried \cup {best}
    BY <1>0 DEF Waiting, Retry, Tried, IndInv, TypeOK, TasksOK
  <1>2. best \notin Tried  BY Zenon DEF CountInv, Tried
  <1>3. Cardinality(Tried') = attempts + 1
    <2>1. Cardinality(Tried \cup {best}) = Cardinality(Tried) + 1
      BY <1>2, TriedFinite, FS_AddElement, Zenon
    <2> QED  BY <1>1, <2>1, Zenon DEF CountInv
  <1>4. CountInv'
    BY <1>0, <1>3, Zenon DEF Waiting, Retry, CountInv, Busy, NoTask
  <1>5. ASSUME phase' = "clean" PROVE \A t \in Tasks : state'[t] = "WAITING"
    <2>1. attempts + 1 = NTasks  BY <1>0, <1>5 DEF Waiting, Retry
    <2>2. Tried' \in SUBSET Tasks  BY Zenon DEF Tried
    <2>3. Tried' = Tasks  BY <1>3, <2>1, <2>2, TriedFinite, FS_Subset, Zenon
    <2> QED  BY <2>3, Zenon DEF Tried
  <1> QED  BY <1>4, <1>5, Zenon

\* The count is kept by every step.
LEMMA CountInductive ==
  ASSUME Controls \cap {"suspend", "restart"} = {}, IndInv, CountInv, WorkConserving, [Next]_vars
  PROVE  CountInv' /\ WorkConserving'
  <1> USE DEF WorkConserving
  <1>0. NoTask \notin Tasks /\ (Busy => best \in Tasks) /\ (executed \in Tasks \cup {NoTask})
    BY DEF NoTask, Tasks, IndInv, PassInv, TypeOK, LocalsOK
  <1>t. Typed
    BY Zenon DEF Typed, IndInv
  <1> DEFINE Keeps == \A t \in Tasks : state'[t] = "WAITING" <=> state[t] = "WAITING"
  <1>k. Keeps => Tried' = Tried  BY Zenon DEF Tried
  <1>1. CASE SchedRun
    <2>1. Tried' = {}
      BY <1>1, Zenon DEF SchedRun, task_vars, IndInv, TickLocalStates, Tried
    <2> QED  BY <1>1, <2>1, FS_EmptySet, Zenon DEF SchedRun, CountInv, Busy
  <1>2. CASE Scan
    <2>1. cursor \in Tasks /\ phase = "scan" /\ phase' = "scan" /\ attempts' = attempts
      BY <1>2 DEF Scan, IndInv, TypeOK, LocalsOK, Tasks
    <2>2. Keeps /\ \A t \in Tasks : state[t] = "READY" => state'[t] = "READY"
      BY <1>2, <2>1, Zenon DEF Scan, task_vars, IndInv, TypeOK, TasksOK
    <2>4. best # NoTask => best \in Tasks
      BY Zenon DEF IndInv, TypeOK, LocalsOK
    <2>3. best' = best \/ (best' = cursor /\ state'[cursor] = "READY")
      BY <1>2, <2>1, Zenon DEF Scan, Consider, task_vars, IndInv, TypeOK, TasksOK
    <2> QED  BY <1>k, <2>1, <2>2, <2>3, <2>4 DEF CountInv, Busy
  <1>3. CASE Select
    <2>1. Keeps  BY <1>3, Zenon DEF Select, task_vars
    <2>2. CountInv'  BY <1>3, <1>k, <2>1, Zenon DEF Select, task_vars, local_vars, CountInv, Busy
    <2>3. WorkConserving'
      <3> SUFFICES ASSUME best = NoTask PROVE candidates = {}
        BY <1>3, Zenon DEF Select
      <3>1. best_prio = Levels  BY <1>3, Zenon DEF Select, IndInv, PassInv
      <3>2. \A t \in candidates : t \in Tasks /\ t < cursor /\ priority[t] < Levels
        BY <1>3 DEF Select, IndInv, TypeOK, TasksOK, HistoryOK, Tasks, Prios
      <3>3. \A t \in candidates : best_prio <= priority[t]
        BY <1>3, <3>2, Zenon DEF Select, IndInv, CandidateInv
      <3>4. \A t \in candidates : priority[t] \in Int
        BY <3>2 DEF IndInv, TypeOK, TasksOK, Prios
      <3> QED  BY <3>1, <3>2, <3>3, <3>4
    <2> QED  BY <2>2, <2>3, Zenon
  <1>4. CASE Executed
    BY <1>4, <1>0, Zenon DEF Executed, Rotate, CountInv, Busy
  <1>5. CASE Clean
    BY <1>5, Zenon DEF Clean, EndPass, CountInv, Busy
  <1>6. ASSUME Enter \/ Leave, ~Waiting PROVE CountInv' /\ WorkConserving'
    <2>1. Busy /\ \A t \in Tasks \ {best} : state'[t] = state[t]
      BY <1>6, <1>t, RunFrame, Zenon
    <2>2. /\ phase' \in {"delay", "loop", "body", "check", "yielded"} /\ UNCHANGED local_vars
          /\ state'[best] = "WAITING" => state[best] = "WAITING"
      BY <1>6, <1>t, RunPass, Zenon
    <2>3. Keeps /\ state'[best] # "WAITING"
      BY <1>0, <2>1, <2>2, Zenon DEF CountInv
    <2> QED  BY <1>k, <2>1, <2>2, <2>3, Zenon DEF CountInv, Busy, local_vars
  <1>7. ASSUME Enter \/ Leave, Waiting PROVE CountInv' /\ WorkConserving'
    <2>1. Busy /\ UNCHANGED candidates
      BY <1>7, <1>t, RunFrame, RunPass, Zenon
    <2>2. CountInv' /\ (phase' = "clean" => \A t \in Tasks : state'[t] = "WAITING")
      BY <1>7, <2>1, TriedOneMore, Zenon
    <2>3. \A t \in candidates : t \in Tasks /\ state[t] = "READY" /\ t # best
      BY <2>1, Zenon DEF IndInv, TypeOK, HistoryOK, CandidateInv, Ready, Running, Busy
    <2>4. \A t \in candidates : state'[t] = "READY"
      BY <1>7, <2>3, Zenon DEF Waiting, Retry, IndInv, TypeOK, TasksOK
    <2> QED  BY <2>1, <2>2, <2>3, <2>4, Zenon
  <1>8. CASE Control
    <2>1. /\ UNCHANGED <<phase, local_vars>> /\ phase \in {"idle", "body"}
          /\ candidates' \subseteq candidates
      BY <1>8, ControlTypes, Zenon DEF Control, IndInv, TypeOK
    <2>2. state' = state \/ \E t \in Tasks : Resume(t)
      BY <1>8, Zenon DEF Control, Suspend, Restart, Restore, Boost, SetBase, Calls
    <2>3. Keeps
      BY <2>2, Zenon DEF Resume, IndInv, TypeOK, TasksOK
    <2> QED  BY <1>0, <1>k, <2>1, <2>3, Zenon DEF CountInv, Busy, local_vars
  <1>9. CASE Interrupt \/ UNCHANGED vars
    <2>1. UNCHANGED <<phase, local_vars, candidates>>
      BY <1>9, Zenon DEF Interrupt, SetFlag, Signal, Tick, vars, history
    <2>2. /\ Keeps
          /\ \A t \in Tasks : state[t] = "READY" => state'[t] = "READY"
      BY <1>9 DEF Interrupt, SetFlag, Signal, Tick, vars, task_vars, IndInv, TypeOK, TasksOK
    <2>3. phase = "scan" /\ best # NoTask => best \in Tasks
      BY Zenon DEF IndInv, TypeOK, LocalsOK
    <2> QED  BY <1>0, <1>k, <2>1, <2>2, <2>3, Zenon DEF CountInv, Busy, local_vars
  <1> QED
    BY <1>1, <1>2, <1>3, <1>4, <1>5, <1>6, <1>7, <1>8, <1>9 DEF Next, Processor

\* As long as no task suspends or restarts others, a pass of syn_sched_run that
\* runs nothing has tried every ready task: the bound on the attempts is enough.
THEOREM PassConservesWork ==
  ASSUME Controls \cap {"suspend", "restart"} = {}
  PROVE  Spec => []WorkConserving
  <1>1. Init => CountInv /\ WorkConserving
    BY Zenon DEF Init, CountInv, WorkConserving, Busy
  <1>2. IndInv /\ CountInv /\ WorkConserving /\ [Next]_vars => CountInv' /\ WorkConserving'
    BY CountInductive, Zenon
  <1> QED  BY <1>1, <1>2, Invariance, PTL DEF Spec
=============================================================================
