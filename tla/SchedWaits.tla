----------------------------- MODULE SchedWaits -----------------------------
(***************************************************************************)
(* Proofs about Sched: type correctness, the locals of a pass, sleeping    *)
(* tasks and the states that end with a pass; then that delays and         *)
(* timeouts last as long as was asked for, that a task comes back from an  *)
(* event for a reason, and that a suspended task stays suspended; for      *)
(* every width of the tick and wherever it wraps.                          *)
(***************************************************************************)
EXTENDS Sched, TLAPS

USE TasksAssumption, LevelsAssumption

\* A reduced tick is a tick.
LEMMA ModType == ASSUME NEW a \in Int PROVE a % Wrap \in Ticks
  BY TickAssumption, ClockAssumption DEF Wrap, Ticks

\* So is the one after a tick.
LEMMA NextTickType == ASSUME tick \in Ticks PROVE (tick + 1) % Wrap \in Ticks
  <1>1. tick + 1 \in Int  BY TickAssumption, ClockAssumption DEF Ticks
  <1> QED  BY <1>1, ModType, Zenon

\* A deadline is a tick, and never the sentinel.
LEMMA DeadlineType ==
  ASSUME tick \in Ticks, NEW d \in 0 .. MaxDelay
  PROVE  Deadline(d) \in Ticks \ {0}
  <1>1. tick + d \in Int  BY TickAssumption, ClockAssumption DEF Ticks
  <1>2. (tick + d) % Wrap \in Ticks  BY <1>1, ModType, Zenon
  <1>3. 1 \in Ticks  BY TickAssumption, ClockAssumption DEF Ticks, Wrap
  <1> QED  BY <1>2, <1>3 DEF Deadline

\* The initial states satisfy the inductive invariant.
LEMMA InitIndInv == Init => IndInv
  <1> SUFFICES ASSUME Init PROVE IndInv  BY Zenon
  <1>1. 0 \in Tasks /\ 0 \in Ticks /\ NoTask \notin Tasks /\ StartTicks \subseteq Ticks
    BY TickAssumption, ClockAssumption DEF Tasks, NoTask, Ticks, Wrap
  <1>2. TypeOK
    BY <1>1 DEF Init, TypeOK, TasksOK, LocalsOK, SharedOK, HistoryOK, States, Points, Phases, NoTask
  <1>3. PassInv /\ SleepInv /\ CandidateInv /\ RotationInv /\ TickLocalStates
    BY Zenon DEF Init, PassInv, SleepInv, CandidateInv, RotationInv, TickLocalStates, Busy
  <1> QED  BY <1>2, <1>3, Zenon DEF IndInv

\* What the steps of syn_sched_run do to the tasks' fields keeps their types ...
LEMMA ScanTypes ==
  ASSUME TasksOK, SharedOK, cursor \in Tasks, Scan
  PROVE  /\ TasksOK'
         /\ UNCHANGED <<priority, base_priority, lc>>
         /\ \/ UNCHANGED <<best, best_prio>>
            \/ best' = cursor /\ best_prio' = priority[cursor]
  <1>1. 0 \in Ticks  BY TickAssumption, ClockAssumption DEF Ticks, Wrap
  <1>2. CASE UNCHANGED task_vars
    BY <1>2, Zenon DEF task_vars, TasksOK, Scan, Consider
  <1>3. CASE /\ state' = [state EXCEPT ![cursor] = "READY"]
             /\ wait_mask' = [wait_mask EXCEPT ![cursor] = Matched(cursor)]
             /\ wait_event' = [wait_event EXCEPT ![cursor] = FALSE]
             /\ delay_until' = [delay_until EXCEPT ![cursor] = 0]
             /\ Consider(cursor)
             /\ UNCHANGED <<priority, base_priority, lc>>
    <2>1. Matched(cursor) \in SUBSET Flags  BY Zenon DEF Matched, SharedOK
    <2>2. state' \in [Tasks -> States]  BY <1>3, Zenon DEF TasksOK, States
    <2>3. wait_mask' \in [Tasks -> SUBSET Flags]  BY <1>3, <2>1, Zenon DEF TasksOK
    <2>4. wait_event' \in [Tasks -> BOOLEAN]  BY <1>3, Zenon DEF TasksOK
    <2>5. delay_until' \in [Tasks -> Ticks]  BY <1>1, <1>3, Zenon DEF TasksOK
    <2> QED  BY <1>3, <2>2, <2>3, <2>4, <2>5, Zenon DEF TasksOK, Consider
  <1> QED  BY <1>2, <1>3, Zenon DEF Scan

\* ... so TypeOK and PassInv are preserved by the steps of syn_sched_run ...
LEMMA PassStep ==
  ASSUME TypeOK, PassInv, SchedRun \/ Scan \/ Select \/ Executed \/ Clean
  PROVE  TypeOK' /\ PassInv'
  <1> USE DEF NoTask, TypeOK
  <1>0. 0 \in Ticks  BY TickAssumption, ClockAssumption DEF Ticks, Wrap
  <1>1. CASE SchedRun
    <2>1. TasksOK' /\ SharedOK' /\ HistoryOK'
      BY <1>1, Zenon DEF SchedRun, task_vars, TasksOK, SharedOK, HistoryOK
    <2>2. LocalsOK' /\ PassInv'
      BY <1>1 DEF SchedRun, LocalsOK, Phases, SharedOK, PassInv, Busy
    <2> QED  BY <2>1, <2>2, Zenon
  <1>2. CASE Scan
    <2>1. cursor \in Tasks /\ cursor' = cursor + 1
      BY <1>2 DEF Scan, LocalsOK, Tasks
    <2>2. /\ TasksOK'
          /\ UNCHANGED <<priority, base_priority, lc>>
          /\ \/ UNCHANGED <<best, best_prio>>
             \/ best' = cursor /\ best_prio' = priority[cursor]
      BY <1>2, <2>1, ScanTypes, Zenon
    <2>3. SharedOK' /\ HistoryOK'
      BY <1>2, Zenon DEF Scan, SharedOK, HistoryOK, history
    <2>4. priority[cursor] \in Prios  BY <2>1, Zenon DEF TasksOK
    <2>5. LocalsOK'
      BY <1>2, <2>1, <2>2, <2>4 DEF Scan, LocalsOK, Tasks, Prios
    <2>6. PassInv'
      BY <1>2, <2>1, <2>2, <2>4 DEF Scan, LocalsOK, PassInv, Busy, Tasks, Prios
    <2> QED  BY <2>2, <2>3, <2>5, <2>6, Zenon
  <1>3. CASE Select
    BY <1>3, Zenon DEF Select, task_vars, local_vars, TasksOK, LocalsOK, Phases, SharedOK, HistoryOK, PassInv,
       Busy
  <1>4. CASE Executed
    <2>1. best \in Tasks /\ best_prio \in Prios
      BY <1>4, Zenon DEF Executed, Rotate, PassInv, Busy
    <2>2. (IF best + 1 >= NTasks THEN 0 ELSE best + 1) \in Tasks
      BY <2>1 DEF Tasks
    <2>3. SharedOK'
      BY <1>4, <2>1, <2>2, Zenon DEF Executed, Rotate, SharedOK
    <2>4. HistoryOK'
      BY <1>4, <2>1, Zenon DEF Executed, Rotate, HistoryOK
    <2>5. TasksOK'
      BY <1>4, Zenon DEF Executed, Rotate, TasksOK
    <2>6. LocalsOK' /\ PassInv'
      BY <1>4, <2>1, Zenon DEF Executed, Rotate, LocalsOK, Phases, PassInv, Busy
    <2> QED  BY <2>3, <2>4, <2>5, <2>6, Zenon
  <1>5. CASE Clean
    <2>1. TasksOK'
      BY <1>5, Zenon DEF Clean, EndPass, TasksOK, States
    <2>2. LocalsOK' /\ PassInv'
      BY <1>0, <1>5 DEF Clean, EndPass, LocalsOK, Phases, PassInv, Busy
    <2>3. SharedOK' /\ HistoryOK'
      BY <1>5, Zenon DEF Clean, EndPass, SharedOK, HistoryOK
    <2> QED  BY <2>1, <2>2, <2>3, Zenon
  <1> QED  BY <1>1, <1>2, <1>3, <1>4, <1>5, Zenon

\* ... by those of the running task ...
LEMMA TaskStep ==
  ASSUME TypeOK, PassInv, Enter \/ Leave
  PROVE  TypeOK' /\ PassInv'
  <1> USE DEF NoTask, TypeOK
  <1> DEFINE Goes == PassInv' /\ LocalsOK'
  <1>0. Busy /\ best \in Tasks /\ attempts < NTasks /\ best_prio \in Prios /\ 0 \in Ticks
    <2>1. CASE Enter
      <3>1. phase \in {"enter", "delay"}
        BY <2>1, Zenon DEF Enter, EnterPlain, EnterWait, EnterDelay, EnterEvent, EnterCondition
      <3> QED  BY <3>1, TickAssumption, ClockAssumption DEF PassInv, Busy, Ticks, Wrap
    <2>2. CASE Leave
      <3>1. phase \in {"body", "loop", "check"}
        BY <2>2, Zenon DEF Leave, Yield, WaitUntil, Defer, BlockCondition, CheckTrue, CheckFalse, Exit,
           DelayMs, BlockEvent, BlockEventWithTimeout
      <3> QED  BY <3>1, TickAssumption, ClockAssumption DEF PassInv, Busy, Ticks, Wrap
    <2> QED  BY <2>1, <2>2, Zenon
  <1>w. ASSUME Waiting, UNCHANGED priority PROVE Goes
    BY <1>0, <1>w DEF Waiting, Retry, LocalsOK, Phases, PassInv, Busy
  <1>s. ASSUME UNCHANGED <<local_vars, priority>>, phase' \in Phases \ {"idle", "scan", "enter", "clean"}
        PROVE  Goes
    BY <1>0, <1>s, Zenon DEF local_vars, LocalsOK, Phases, PassInv, Busy
  <1>1. CASE EnterPlain
    <2>1. Goes  BY <1>1, <1>s, Zenon DEF EnterPlain, task_vars, Phases
    <2> QED  BY <1>0, <1>1, <2>1, Zenon DEF EnterPlain, task_vars, TasksOK, SharedOK, HistoryOK
  <1>2. CASE EnterWait
    <2>1. Goes  BY <1>2, <1>s, <1>w, Zenon DEF EnterWait, Phases
    <2>2. TasksOK'  BY <1>0, <1>2, Zenon DEF EnterWait, Waiting, Retry, TasksOK, States
    <2> QED  BY <1>0, <1>2, <2>1, <2>2, Zenon DEF EnterWait, SharedOK, HistoryOK
  <1>3. CASE EnterDelay
    <2>1. Goes  BY <1>3, <1>s, <1>w, Zenon DEF EnterDelay, Phases
    <2>2. TasksOK'  BY <1>0, <1>3 DEF EnterDelay, Waiting, Retry, TasksOK, States, Points
    <2> QED  BY <1>0, <1>3, <2>1, <2>2 DEF EnterDelay, SharedOK, HistoryOK
  <1>4. CASE EnterEvent
    <2>1. Goes  BY <1>4, <1>s, Zenon DEF EnterEvent, Phases
    <2>2. TasksOK'  BY <1>0, <1>4, Zenon DEF EnterEvent, TasksOK, Points
    <2> QED  BY <1>0, <1>4, <2>1, <2>2 DEF EnterEvent, SharedOK, HistoryOK
  <1>5. CASE EnterCondition
    <2>1. Goes  BY <1>5, <1>s, Zenon DEF EnterCondition, task_vars, Phases
    <2> QED  BY <1>0, <1>5, <2>1, Zenon DEF EnterCondition, task_vars, TasksOK, SharedOK, HistoryOK
  <1>6. CASE Yield \/ Defer \/ Exit \/ BlockCondition
    <2>1. Goes  BY <1>6, <1>s, Zenon DEF Yield, Defer, Exit, BlockCondition, Phases
    <2>2. TasksOK'
      BY <1>0, <1>6, Zenon DEF Yield, Defer, Exit, BlockCondition, TasksOK, States, Points
    <2> QED  BY <1>6, <2>1, <2>2, Zenon DEF Yield, Defer, Exit, BlockCondition, history, SharedOK, HistoryOK
  <1>7. CASE WaitUntil
    <2>1. Goes  BY <1>7, <1>w, Zenon DEF WaitUntil
    <2>2. TasksOK'  BY <1>0, <1>7, Zenon DEF WaitUntil, Waiting, Retry, TasksOK, States, Points
    <2> QED  BY <1>7, <2>1, <2>2, Zenon DEF WaitUntil, history, SharedOK, HistoryOK
  <1>8. CASE CheckTrue
    <2>1. Goes  BY <1>8, <1>s, Zenon DEF CheckTrue, Phases
    <2>2. TasksOK'  BY <1>0, <1>8, Zenon DEF CheckTrue, TasksOK, States, Points
    <2> QED  BY <1>0, <1>8, <2>1, <2>2, Zenon DEF CheckTrue, history, SharedOK, HistoryOK
  <1>9. CASE CheckFalse
    <2>1. Goes  BY <1>9, <1>s, Zenon DEF CheckFalse, task_vars, Phases
    <2> QED  BY <1>9, <2>1, Zenon DEF CheckFalse, task_vars, history, TasksOK, SharedOK, HistoryOK
  <1>10. ASSUME NEW d \in 0 .. MaxDelay, DelayMs(d) PROVE TypeOK' /\ PassInv'
    <2>1. Deadline(d) \in Ticks /\ d \in Int  BY DeadlineType, TickAssumption, ClockAssumption DEF SharedOK
    <2>2. Goes  BY <1>10, <1>s, Zenon DEF DelayMs, Phases
    <2>3. TasksOK'  BY <1>0, <1>10, <2>1, Zenon DEF DelayMs, TasksOK, Points
    <2> QED  BY <1>0, <1>10, <2>1, <2>2, <2>3, Zenon DEF DelayMs, SharedOK, HistoryOK
  <1>11. ASSUME NEW m \in SUBSET Flags, BlockEvent(m) PROVE TypeOK' /\ PassInv'
    <2>1. Goes  BY <1>11, <1>s, Zenon DEF BlockEvent, Phases
    <2>2. TasksOK'  BY <1>0, <1>11, Zenon DEF BlockEvent, TasksOK, Points, States
    <2> QED  BY <1>0, <1>11, <2>1, <2>2, Zenon DEF BlockEvent, SharedOK, HistoryOK
  <1>12. ASSUME NEW m \in SUBSET Flags, NEW d \in 0 .. MaxDelay, BlockEventWithTimeout(m, d)
         PROVE  TypeOK' /\ PassInv'
    <2>1. Deadline(d) \in Ticks /\ d \in Int  BY DeadlineType, TickAssumption, ClockAssumption DEF SharedOK
    <2>2. Goes  BY <1>12, <1>s, Zenon DEF BlockEventWithTimeout, Phases
    <2>3. TasksOK'  BY <1>0, <1>12, <2>1, Zenon DEF BlockEventWithTimeout, TasksOK, Points, States
    <2> QED  BY <1>0, <1>12, <2>1, <2>2, <2>3, Zenon DEF BlockEventWithTimeout, SharedOK, HistoryOK
  <1> QED
    BY <1>1, <1>2, <1>3, <1>4, <1>5, <1>6, <1>7, <1>8, <1>9, <1>10, <1>11, <1>12, Zenon DEF Enter, Leave

\* Task control functions keep the types of the tasks' fields.
LEMMA ControlTypes ==
  ASSUME TasksOK, Control
  PROVE  /\ TasksOK' /\ phase \in {"idle", "body"}
         /\ \A t \in Tasks : state'[t] = state[t] \/ state'[t] \in {"SUSPENDED", "READY"}
         /\ \A t \in Tasks : lc'[t] = lc[t] \/ (lc'[t] = "start" /\ state'[t] = "READY")
         /\ \A t \in Tasks : state'[t] = "BLOCKED" => lc'[t] = lc[t]
  <1>0. 0 \in Ticks /\ 0 \in Prios  BY TickAssumption, ClockAssumption DEF Ticks, Wrap, Prios
  <1>1. PICK t \in Tasks : \/ Suspend(t) \/ Resume(t) \/ Restart(t) \/ Restore(t)
                           \/ \E p \in Prios : Boost(t, p) \/ SetBase(t, p)
    BY Zenon DEF Control
  <1>2. CASE Suspend(t)  BY <1>2, Zenon DEF Suspend, Calls, TasksOK, States
  <1>3. CASE Resume(t)  BY <1>3, Zenon DEF Resume, Calls, TasksOK, States
  <1>4. CASE Restart(t)
    <2>1. state' \in [Tasks -> States] /\ lc' \in [Tasks -> Points]
      BY <1>4, Zenon DEF Restart, TasksOK, States, Points
    <2>2. /\ delay_until' \in [Tasks -> Ticks] /\ wait_event' \in [Tasks -> BOOLEAN]
          /\ wait_mask' \in [Tasks -> SUBSET Flags]
      BY <1>0, <1>4, Zenon DEF Restart, TasksOK
    <2> QED  BY <1>4, <2>1, <2>2, Zenon DEF Restart, Calls, TasksOK
  <1>5. CASE Restore(t)  BY <1>5, Zenon DEF Restore, Calls, TasksOK
  <1>6. ASSUME NEW p \in Prios, Boost(t, p)
        PROVE  TasksOK' /\ phase \in {"idle", "body"} /\ UNCHANGED <<state, lc>>
    BY <1>6, Zenon DEF Boost, Calls, TasksOK
  <1>7. ASSUME NEW p \in Prios, SetBase(t, p)
        PROVE  TasksOK' /\ phase \in {"idle", "body"} /\ UNCHANGED <<state, lc>>
    BY <1>7, Zenon DEF SetBase, Calls, TasksOK
  <1> QED  BY <1>1, <1>2, <1>3, <1>4, <1>5, <1>6, <1>7, Zenon

\* Restarting tasks resets some entries of left to zero.
LEMMA ResetLeft ==
  ASSUME NEW l \in [Tasks -> Int], NEW m
  PROVE  [t \in Tasks |-> IF m[t] = "start" THEN 0 ELSE l[t]] \in [Tasks -> Int]
  OBVIOUS

\* ... and by task control and the interrupts.
LEMMA OutsideStep ==
  ASSUME TypeOK, PassInv, Control \/ Interrupt \/ UNCHANGED vars
  PROVE  TypeOK' /\ PassInv'
  <1> USE DEF NoTask, TypeOK
  <1>1. CASE Control
    <2>1. TasksOK' /\ phase \in {"idle", "body"}
      BY <1>1, ControlTypes, Zenon
    <2>2. HistoryOK'
      <3>1. left' \in [Tasks -> Int]
        <4>1. left' = [t \in Tasks |-> IF lc'[t] = "start" THEN 0 ELSE left[t]]
          BY <1>1, Zenon DEF Control
        <4>2. left \in [Tasks -> Int]
          BY Zenon DEF HistoryOK
        <4> QED  BY <4>1, <4>2, ResetLeft, Zenon
      <3>2. candidates' \subseteq Tasks /\ overtook' \in [Tasks -> SUBSET Tasks]
        BY <1>1, Zenon DEF Control, HistoryOK
      <3>3. fired' \in [Tasks -> SUBSET Flags]
        BY <1>1, Zenon DEF Control, HistoryOK
      <3> QED  BY <3>1, <3>2, <3>3, Zenon DEF HistoryOK
    <2> QED  BY <1>1, <2>1, <2>2, Zenon DEF Control, local_vars, LocalsOK, SharedOK, PassInv, Busy
  <1>2. ASSUME NEW f \in Flags, SetFlag(f) PROVE TypeOK' /\ PassInv'
    BY <1>2, Zenon DEF SetFlag, task_vars, local_vars, TasksOK, LocalsOK, SharedOK, HistoryOK, PassInv, Busy
  <1>3. ASSUME NEW t \in Tasks, Signal(t) PROVE TypeOK' /\ PassInv'
    <2>1. TasksOK'  BY <1>3, Zenon DEF Signal, TasksOK, States
    <2> QED  BY <1>3, <2>1, Zenon DEF Signal, local_vars, history, LocalsOK, SharedOK, HistoryOK, PassInv, Busy
  <1>4. CASE Tick
    <2>1. tick' \in Ticks
      <3>1. tick' = (tick + 1) % Wrap  BY <1>4, Zenon DEF Tick
      <3>2. tick \in Ticks  BY Zenon DEF SharedOK
      <3> QED  BY <3>1, <3>2, NextTickType, Zenon
    <2> QED
      BY <1>4, <2>1 DEF Tick, task_vars, local_vars, TasksOK, LocalsOK, SharedOK, HistoryOK, PassInv, Busy
  <1>5. CASE UNCHANGED vars
    BY <1>5, Zenon DEF vars, task_vars, local_vars, history, TasksOK, LocalsOK, SharedOK, HistoryOK, PassInv,
       Busy
  <1> QED  BY <1>1, <1>2, <1>3, <1>4, <1>5, Zenon DEF Interrupt

\* Type correctness and the pass's locals, for every step.
LEMMA TypeInductive == ASSUME TypeOK, PassInv, [Next]_vars PROVE TypeOK' /\ PassInv'
  BY PassStep, TaskStep, OutsideStep, Zenon DEF Next, Processor

\* Every behaviour keeps the types and the locals of the pass.
THEOREM TypeInvariance == Spec => []Typed
  <1>1. Init => Typed  BY InitIndInv, Zenon DEF IndInv, Typed
  <1>2. Typed /\ [Next]_vars => Typed'  BY TypeInductive, Zenon DEF Typed
  <1> QED  BY <1>1, <1>2, PTL DEF Spec

\* No step leaves a task asleep on a condition that holds.
LEMMA SleepInductive ==
  ASSUME TypeOK, PassInv, SleepInv, [Next]_vars
  PROVE  SleepInv'
  <1> USE DEF SleepInv, Running, TypeOK, TasksOK, SharedOK
  <1>0. NoTask \notin Tasks  BY DEF NoTask, Tasks
  <1>b. Busy => best \in Tasks  BY Zenon DEF PassInv
  <1>1. CASE SchedRun  BY <1>1, Zenon DEF SchedRun, task_vars
  <1>2. CASE Scan  BY <1>2, Zenon DEF Scan, task_vars
  <1>3. CASE Select  BY <1>3, <1>0, Zenon DEF Select, task_vars, local_vars
  <1>4. CASE Executed  BY <1>4, <1>0, <1>b, Zenon DEF Executed, Rotate, Busy
  <1>5. CASE Clean
    <2>1. \A t \in Tasks : state'[t] = state[t] \/ state'[t] = "READY"
      BY <1>5, Zenon DEF Clean, EndPass
    <2> QED  BY <1>5, <1>0, <2>1, Zenon DEF Clean, EndPass
  <1>6. CASE EnterPlain  BY <1>6, <1>b, Zenon DEF EnterPlain, task_vars, local_vars, Busy
  <1>7. CASE EnterWait  BY <1>7, <1>b, Zenon DEF EnterWait, Waiting, Retry, local_vars, Busy
  <1>8. CASE EnterDelay  BY <1>8, <1>b, Zenon DEF EnterDelay, Waiting, Retry, local_vars, Busy
  <1>9. CASE EnterEvent  BY <1>9, <1>b, Zenon DEF EnterEvent, local_vars, Busy
  <1>10. CASE EnterCondition  BY <1>10, <1>b, Zenon DEF EnterCondition, task_vars, local_vars, Busy
  <1>11. CASE Yield  BY <1>11, <1>b, Zenon DEF Yield, local_vars, Busy
  <1>12. CASE WaitUntil  BY <1>12, <1>b, Zenon DEF WaitUntil, Waiting, Retry, Busy
  <1>13. CASE Defer  BY <1>13, <1>b, Zenon DEF Defer, local_vars, Busy
  <1>14. CASE BlockCondition  BY <1>14, <1>b, Zenon DEF BlockCondition, local_vars, Busy
  <1>15. CASE CheckTrue  BY <1>15, <1>b, Zenon DEF CheckTrue, local_vars, Busy
  <1>16. CASE CheckFalse  BY <1>16, <1>b, Zenon DEF CheckFalse, task_vars, local_vars, Busy
  <1>17. CASE Exit  BY <1>17, <1>b, Zenon DEF Exit, local_vars, Busy
  <1>18. ASSUME NEW d \in 0 .. MaxDelay, DelayMs(d) PROVE SleepInv'
    BY <1>18, <1>b, Zenon DEF DelayMs, local_vars, Busy
  <1>19. ASSUME NEW m \in SUBSET Flags, BlockEvent(m) PROVE SleepInv'
    BY <1>19, <1>b, Zenon DEF BlockEvent, local_vars, Busy
  <1>20. ASSUME NEW m \in SUBSET Flags, NEW d \in 0 .. MaxDelay, BlockEventWithTimeout(m, d)
         PROVE  SleepInv'
    BY <1>20, <1>b, Zenon DEF BlockEventWithTimeout, local_vars, Busy
  <1>21. CASE Control
    <2>1. /\ \A t \in Tasks : state'[t] = state[t] \/ state'[t] \in {"SUSPENDED", "READY"}
          /\ \A t \in Tasks : lc'[t] = lc[t] \/ (lc'[t] = "start" /\ state'[t] = "READY")
      BY <1>21, ControlTypes, Zenon
    <2> QED  BY <1>21, <1>b, <2>1, Zenon DEF Control, local_vars, Busy
  <1>22. ASSUME NEW f \in Flags, SetFlag(f) PROVE SleepInv'
    BY <1>22, Zenon DEF SetFlag, task_vars, local_vars
  <1>23. ASSUME NEW t \in Tasks, Signal(t) PROVE SleepInv'
    BY <1>23, <1>b, Zenon DEF Signal, local_vars, Busy
  <1>24. CASE Tick  BY <1>24, Zenon DEF Tick, task_vars, local_vars
  <1>25. CASE UNCHANGED vars  BY <1>25, Zenon DEF vars, task_vars, local_vars
  <1> QED
    BY <1>1, <1>2, <1>3, <1>4, <1>5, <1>6, <1>7, <1>8, <1>9, <1>10, <1>11, <1>12, <1>13, <1>14, <1>15,
       <1>16, <1>17, <1>18, <1>19, <1>20, <1>21, <1>22, <1>23, <1>24, <1>25, Zenon
       DEF Next, Processor, Enter, Leave, Interrupt

\* WAITING and DEFERRED do not outlive the pass.
LEMMA TickLocalInductive ==
  ASSUME TypeOK, TickLocalStates, [Next]_vars
  PROVE  TickLocalStates'
  <1> USE DEF TickLocalStates, TypeOK, TasksOK
  <1>1. CASE Processor /\ ~Clean
    <2>1. phase' # "idle"
      BY <1>1, Zenon DEF Processor, SchedRun, Scan, Select, Enter, Leave, Executed, Rotate, EnterPlain,
         EnterWait, EnterDelay, EnterEvent, EnterCondition, Yield, WaitUntil, Defer, BlockCondition,
         CheckTrue, CheckFalse, Exit, DelayMs, BlockEvent, BlockEventWithTimeout, Waiting, Retry
    <2> QED  BY <2>1, Zenon
  <1>2. CASE Clean  BY <1>2, Zenon DEF Clean, EndPass
  <1>3. CASE Control
    BY <1>3, ControlTypes, Zenon DEF Control
  <1>4. CASE Interrupt
    BY <1>4 DEF Interrupt, SetFlag, Signal, Tick, task_vars
  <1>5. CASE UNCHANGED vars  BY <1>5, Zenon DEF vars, task_vars
  <1> QED  BY <1>1, <1>2, <1>3, <1>4, <1>5, Zenon DEF Next

-----------------------------------------------------------------------------
\* The types of the fields, without the names of the invariants that state them.
LEMMA Fields ==
  ASSUME Typed
  PROVE  /\ state \in [Tasks -> States] /\ lc \in [Tasks -> Points] /\ delay_until \in [Tasks -> Ticks]
         /\ wait_mask \in [Tasks -> SUBSET Flags] /\ left \in [Tasks -> Int]
         /\ fired \in [Tasks -> SUBSET Flags]
         /\ tick \in Ticks /\ now \in Ticks /\ cursor \in 0 .. NTasks
         /\ best \in Tasks \cup {NoTask} /\ NoTask \notin Tasks /\ (Busy => best \in Tasks)
  <1>1. TypeOK /\ PassInv  BY Zenon DEF Typed
  <1>2. NoTask \notin Tasks  BY DEF NoTask, Tasks
  <1> QED  BY <1>1, <1>2, Zenon DEF TypeOK, TasksOK, LocalsOK, SharedOK, HistoryOK, PassInv

\* A task that runs touches no other task, and goes on running or is set aside.
LEMMA RunFrame ==
  ASSUME Typed, Enter \/ Leave
  PROVE  /\ Busy /\ best \in Tasks /\ UNCHANGED <<tick, now>> /\ flags' \subseteq flags
         /\ \A t \in Tasks \ {best} :
              /\ state'[t] = state[t] /\ lc'[t] = lc[t] /\ delay_until'[t] = delay_until[t]
              /\ left'[t] = left[t] /\ fired'[t] = fired[t] /\ wait_mask'[t] = wait_mask[t]
         /\ \/ phase' \in {"delay", "loop", "body", "check", "yielded"} /\ best' = best
            \/ phase' \in {"scan", "clean"} /\ best' = NoTask /\ state'[best] = "WAITING"
  <1> DEFINE Others == \A t \in Tasks \ {best} :
              /\ state'[t] = state[t] /\ lc'[t] = lc[t] /\ delay_until'[t] = delay_until[t]
              /\ left'[t] = left[t] /\ fired'[t] = fired[t] /\ wait_mask'[t] = wait_mask[t]
             Goes == \/ phase' \in {"delay", "loop", "body", "check", "yielded"} /\ best' = best
                     \/ phase' \in {"scan", "clean"} /\ best' = NoTask /\ state'[best] = "WAITING"
  <1> /\ state \in [Tasks -> States] /\ lc \in [Tasks -> Points] /\ delay_until \in [Tasks -> Ticks]
      /\ left \in [Tasks -> Int] /\ fired \in [Tasks -> SUBSET Flags]
      /\ wait_mask \in [Tasks -> SUBSET Flags]
    BY Fields, Zenon
  <1> Busy => best \in Tasks
    BY Fields, Zenon
  <1> Busy /\ best \in Tasks
    <2>1. CASE Enter
      BY <2>1, Zenon DEF Enter, EnterPlain, EnterWait, EnterDelay, EnterEvent, EnterCondition, Busy
    <2>2. CASE Leave
      BY <2>2, Zenon DEF Leave, Yield, WaitUntil, Defer, BlockCondition, CheckTrue, CheckFalse, Exit,
         DelayMs, BlockEvent, BlockEventWithTimeout, Busy
    <2> QED  BY <2>1, <2>2, Zenon
  <1>1. CASE EnterPlain \/ EnterCondition \/ CheckFalse
    BY <1>1, Zenon DEF EnterPlain, EnterCondition, CheckFalse, task_vars, local_vars, history
  <1>2. CASE EnterWait
    BY <1>2, Zenon DEF EnterWait, Waiting, Retry, local_vars
  <1>3. CASE EnterDelay
    BY <1>3, Zenon DEF EnterDelay, Waiting, Retry, local_vars
  <1>4. CASE EnterEvent
    BY <1>4, Zenon DEF EnterEvent, local_vars
  <1>5. CASE Yield \/ Defer \/ Exit \/ BlockCondition \/ CheckTrue
    BY <1>5, Zenon DEF Yield, Defer, Exit, BlockCondition, CheckTrue, local_vars, history
  <1>6. CASE WaitUntil
    BY <1>6, Zenon DEF WaitUntil, Waiting, Retry, history
  <1>7. ASSUME NEW d \in 0 .. MaxDelay, DelayMs(d)
        PROVE  Others /\ Goes /\ UNCHANGED <<tick, now>> /\ flags' \subseteq flags
    BY <1>7, Zenon DEF DelayMs, local_vars
  <1>8. ASSUME NEW m \in SUBSET Flags, BlockEvent(m)
        PROVE  Others /\ Goes /\ UNCHANGED <<tick, now>> /\ flags' \subseteq flags
    BY <1>8, Zenon DEF BlockEvent, local_vars
  <1>9. ASSUME NEW m \in SUBSET Flags, NEW d \in 0 .. MaxDelay, BlockEventWithTimeout(m, d)
        PROVE  Others /\ Goes /\ UNCHANGED <<tick, now>> /\ flags' \subseteq flags
    BY <1>9, Zenon DEF BlockEventWithTimeout, local_vars
  <1> QED  BY <1>1, <1>2, <1>3, <1>4, <1>5, <1>6, <1>7, <1>8, <1>9, Zenon DEF Enter, Leave

\* What it does to the pass: it asks for another attempt, or keeps the locals of the pass;
\* and it is overtaken no more.
LEMMA RunPass ==
  ASSUME Typed, Enter \/ Leave
  PROVE  /\ UNCHANGED <<priority, rr_per_prio, candidates>>
         /\ \/ overtook' = [overtook EXCEPT ![best] = {}]
            \/ phase \in {"loop", "body", "check"} /\ overtook' = overtook
         /\ \/ Waiting
            \/ /\ phase' \in {"delay", "loop", "body", "check", "yielded"} /\ UNCHANGED local_vars
               /\ state'[best] = "WAITING" => state[best] = "WAITING"
  <1> DEFINE Shared == /\ UNCHANGED <<priority, rr_per_prio, candidates>>
                       /\ \/ overtook' = [overtook EXCEPT ![best] = {}]
                          \/ phase \in {"loop", "body", "check"} /\ overtook' = overtook
             Ends == \/ Waiting
                     \/ /\ phase' \in {"delay", "loop", "body", "check", "yielded"}
                        /\ UNCHANGED local_vars
                        /\ state'[best] = "WAITING" => state[best] = "WAITING"
  <1> state \in [Tasks -> States] /\ best \in Tasks
    BY Fields, RunFrame, Zenon
  <1>1. CASE EnterPlain \/ EnterCondition \/ CheckFalse
    BY <1>1, Zenon DEF EnterPlain, EnterCondition, CheckFalse, task_vars, history
  <1>2. CASE EnterWait
    BY <1>2, Zenon DEF EnterWait
  <1>3. CASE EnterDelay
    BY <1>3, Zenon DEF EnterDelay
  <1>4. CASE EnterEvent
    BY <1>4, Zenon DEF EnterEvent
  <1>5. CASE Yield \/ WaitUntil
    BY <1>5, Zenon DEF Yield, WaitUntil, history
  <1>6. CASE Defer \/ Exit \/ BlockCondition \/ CheckTrue
    BY <1>6, Zenon DEF Defer, Exit, BlockCondition, CheckTrue, history
  <1>7. ASSUME NEW d \in 0 .. MaxDelay, DelayMs(d) PROVE Shared /\ Ends
    BY <1>7, Zenon DEF DelayMs
  <1>8. ASSUME NEW m \in SUBSET Flags, BlockEvent(m) PROVE Shared /\ Ends
    BY <1>8, Zenon DEF BlockEvent
  <1>9. ASSUME NEW m \in SUBSET Flags, NEW d \in 0 .. MaxDelay, BlockEventWithTimeout(m, d)
        PROVE  Shared /\ Ends
    BY <1>9, Zenon DEF BlockEventWithTimeout
  <1> QED  BY <1>1, <1>2, <1>3, <1>4, <1>5, <1>6, <1>7, <1>8, <1>9, Zenon DEF Enter, Leave

\* What it does to itself: it stands at the macro its state goes with, and has a deadline
\* only for a delay or a timeout, the old one or one just set.
LEMMA RunOwn ==
  ASSUME Typed, BlockInv, Enter \/ Leave
  PROVE  /\ phase' = "delay" => lc'[best] = "delay"
         /\ phase' \in {"loop", "check"} => lc'[best] = "cond"
         /\ phase' = "body" => lc'[best] \in {"start", "yield", "wait"}
         /\ state'[best] = "BLOCKED" => lc'[best] \in {"event", "timeout", "cond"}
         /\ state'[best] \in {"WAITING", "DEFERRED"} => lc'[best] \notin {"event", "timeout", "cond"}
         /\ lc'[best] \notin {"delay", "timeout"} => delay_until'[best] = 0
         /\ lc'[best] \in {"event", "timeout"} => state'[best] = "BLOCKED" /\ fired'[best] = flags'
         /\ lc'[best] \in {"delay", "timeout"} =>
              \/ /\ lc'[best] = "delay" /\ lc[best] = "delay"
                 /\ delay_until'[best] = delay_until[best] /\ left'[best] = left[best]
              \/ \E d \in 0 .. MaxDelay : delay_until'[best] = Deadline(d) /\ left'[best] = d
  <1> DEFINE Own ==
         /\ phase' = "delay" => lc'[best] = "delay"
         /\ phase' \in {"loop", "check"} => lc'[best] = "cond"
         /\ phase' = "body" => lc'[best] \in {"start", "yield", "wait"}
         /\ state'[best] = "BLOCKED" => lc'[best] \in {"event", "timeout", "cond"}
         /\ state'[best] \in {"WAITING", "DEFERRED"} => lc'[best] \notin {"event", "timeout", "cond"}
         /\ lc'[best] \notin {"delay", "timeout"} => delay_until'[best] = 0
         /\ lc'[best] \in {"event", "timeout"} => state'[best] = "BLOCKED" /\ fired'[best] = flags'
         /\ lc'[best] \in {"delay", "timeout"} =>
              \/ /\ lc'[best] = "delay" /\ lc[best] = "delay"
                 /\ delay_until'[best] = delay_until[best] /\ left'[best] = left[best]
              \/ \E d \in 0 .. MaxDelay : delay_until'[best] = Deadline(d) /\ left'[best] = d
  <1> PointInv /\ DeadlineInv
    BY Zenon DEF BlockInv
  <1> Busy /\ best \in Tasks /\ best # NoTask
    BY RunFrame, Fields, Zenon
  <1> /\ best \in Tasks /\ lc[best] \in Points
      /\ state \in [Tasks -> States] /\ lc \in [Tasks -> Points] /\ delay_until \in [Tasks -> Ticks]
      /\ left \in [Tasks -> Int] /\ fired \in [Tasks -> SUBSET Flags]
    BY Fields, Zenon
  <1> /\ phase = "enter" => state[best] = "READY"
      /\ phase = "delay" => lc[best] = "delay"
      /\ phase \in {"loop", "check"} => lc[best] = "cond"
      /\ phase = "body" => lc[best] \in {"start", "yield", "wait"}
      /\ state[best] = "BLOCKED" => lc[best] \in {"event", "timeout", "cond"}
      /\ state[best] \in {"WAITING", "DEFERRED"} => lc[best] \notin {"event", "timeout", "cond"}
      /\ lc[best] \notin {"delay", "timeout"} => delay_until[best] = 0
    BY Zenon DEF PointInv, DeadlineInv
  <1>1. CASE EnterPlain \/ EnterCondition \/ CheckFalse
    BY <1>1, Zenon DEF EnterPlain, EnterCondition, CheckFalse, task_vars, history
  <1>2. CASE EnterWait
    BY <1>2, Zenon DEF EnterWait, Waiting, Retry
  <1>3. CASE EnterDelay
    BY <1>3, Zenon DEF EnterDelay, Waiting, Retry
  <1>4. CASE EnterEvent
    BY <1>4, Zenon DEF EnterEvent
  <1>5. CASE Yield \/ Defer \/ Exit
    BY <1>5, Zenon DEF Yield, Defer, Exit, history
  <1>5b. CASE BlockCondition \/ CheckTrue
    BY <1>5b, Zenon DEF BlockCondition, CheckTrue, history
  <1>6. CASE WaitUntil
    BY <1>6, Zenon DEF WaitUntil, Waiting, Retry, history
  <1>7. ASSUME NEW d \in 0 .. MaxDelay, DelayMs(d) PROVE Own
    BY <1>7, Zenon DEF DelayMs
  <1>8. ASSUME NEW m \in SUBSET Flags, BlockEvent(m) PROVE Own
    BY <1>8, Zenon DEF BlockEvent
  <1>9. ASSUME NEW m \in SUBSET Flags, NEW d \in 0 .. MaxDelay, BlockEventWithTimeout(m, d) PROVE Own
    BY <1>9, Zenon DEF BlockEventWithTimeout
  <1> HIDE DEF Own
  <1> QED
    <2>1. Own  BY <1>1, <1>2, <1>3, <1>4, <1>5, <1>5b, <1>6, <1>7, <1>8, <1>9, Zenon DEF Enter, Leave, Own
    <2> QED  BY <2>1, Zenon DEF Own
-----------------------------------------------------------------------------
(* Delays, timeouts and events. *)

\* The range of the tick has room for a delay and the lateness of the polls.
LEMMA Span ==
  /\ Half \in Nat \ {0} /\ Wrap = 2 * Half /\ Ticks = 0 .. Wrap - 1
  /\ MaxDelay \in Nat /\ MaxLate \in Nat /\ MaxDelay + MaxLate + 1 < Half
  /\ 0 \in Ticks /\ 1 \in Ticks
  BY TickAssumption, ClockAssumption DEF Wrap, Ticks

\* A sum or difference of two ticks, reduced.
LEMMA Reduced ==
  ASSUME NEW a \in Int, -Wrap <= a, a < 2 * Wrap
  PROVE  /\ a % Wrap \in Ticks
         /\ a % Wrap = IF a < 0 THEN a + Wrap ELSE IF a < Wrap THEN a ELSE a - Wrap
  <1> DEFINE b == IF a < 0 THEN a + Wrap ELSE IF a < Wrap THEN a ELSE a - Wrap
  <1>1. Wrap \in Nat \ {0} /\ b \in 0 .. Wrap - 1  BY Span
  <1>2. b % Wrap = b /\ (b + Wrap) % Wrap = b /\ (b - Wrap) % Wrap = b  BY <1>1
  <1>3. a = b \/ a = b + Wrap \/ a = b - Wrap  BY <1>1
  <1> HIDE DEF b
  <1>4. a % Wrap = b  BY <1>2, <1>3, Zenon
  <1> QED  BY <1>1, <1>4, Span, Zenon DEF b

\* How far deadline d is ahead of tick t, and what the code's comparison says of it.
LEMMA AheadIs ==
  ASSUME NEW t \in Ticks, NEW d \in Ticks
  PROVE  /\ Ahead(t, d) = IF d - t > Half THEN d - t - Wrap
                          ELSE IF d - t > -Half THEN d - t ELSE d - t + Wrap
         /\ Ahead(t, d) \in 1 - Half .. Half
         /\ Due(t, d) <=> Ahead(t, d) <= 0
  <1>1. /\ t \in 0 .. Wrap - 1 /\ d \in 0 .. Wrap - 1 /\ Half \in Nat /\ Wrap = 2 * Half /\ Half > 0
    BY Span
  <1>2. /\ (t - d) % Wrap = IF t - d < 0 THEN t - d + Wrap ELSE t - d
        /\ (d - t) % Wrap = IF d - t < 0 THEN d - t + Wrap ELSE d - t
    <2>1. /\ t - d \in Int /\ -Wrap <= t - d /\ t - d < Wrap /\ t - d < 2 * Wrap
          /\ d - t \in Int /\ -Wrap <= d - t /\ d - t < Wrap /\ d - t < 2 * Wrap
      BY <1>1
    <2> QED  BY <2>1, Reduced, Zenon
  <1> QED  BY <1>1, <1>2 DEF Ahead, Due

\* A tick later it is one less.
LEMMA OneNearer ==
  ASSUME NEW t \in Ticks, NEW d \in Ticks, Ahead(t, d) > 1 - Half
  PROVE  Ahead((t + 1) % Wrap, d) = Ahead(t, d) - 1
  <1>1. /\ t \in 0 .. Wrap - 1 /\ d \in 0 .. Wrap - 1 /\ Half \in Nat /\ Wrap = 2 * Half /\ Half > 0
    BY Span
  <1> DEFINE a == t + 1
             b == a % Wrap
  <1>2. a \in Int /\ -Wrap <= a /\ a < 2 * Wrap /\ a = t + 1
    BY <1>1
  <1> HIDE DEF a
  <1>3. b \in Ticks /\ b = IF a < 0 THEN a + Wrap ELSE IF a < Wrap THEN a ELSE a - Wrap
    BY <1>2, Reduced, Zenon
  <1> HIDE DEF b
  <1>4. Ahead(b, d) = Ahead(t, d) - 1
    BY <1>1, <1>2, <1>3, AheadIs
  <1> QED
    BY <1>3, <1>4, Zenon DEF a, b

\* A deadline is as far ahead as was asked, or one more.
LEMMA DeadlineIs ==
  ASSUME tick \in Ticks, NEW d \in 0 .. MaxDelay
  PROVE  Deadline(d) \in Ticks \ {0} /\ Ahead(tick, Deadline(d)) \in {d, d + 1}
  <1>1. /\ tick \in 0 .. Wrap - 1 /\ Half \in Nat /\ Wrap = 2 * Half /\ d \in Nat /\ d + 1 < Half
    BY Span
  <1> DEFINE a == tick + d
             w == a % Wrap
             e == IF w = 0 THEN 1 ELSE w
  <1>2. a \in Int /\ -Wrap <= a /\ 0 <= a /\ a < 2 * Wrap /\ a = tick + d
    BY <1>1
  <1> HIDE DEF a
  <1>3. w \in Ticks /\ w = IF a < Wrap THEN a ELSE a - Wrap
    BY <1>2, Reduced
  <1> HIDE DEF w
  <1>4. /\ e \in Ticks \ {0} /\ e \in 1 .. Wrap - 1
        /\ e = a \/ e = a - Wrap \/ e = a + 1 \/ e = a - Wrap + 1
    BY <1>1, <1>2, <1>3, Span
  <1>5. Deadline(d) = e
    BY Zenon DEF Deadline, e, w, a
  <1> HIDE DEF e
  <1>6. Ahead(tick, e) \in {d, d + 1}
    BY <1>1, <1>2, <1>4, AheadIs
  <1> QED
    BY <1>4, <1>5, <1>6, Zenon

\* With such deadlines, and their differences from the tick, delays are kept.
LEMMA DeadlineSays == Typed /\ BlockInv => DelayIsKept
  <1> SUFFICES ASSUME Typed, BlockInv, NEW t \in Tasks, Waits(t)
               PROVE  /\ Due(tick, delay_until[t]) => left[t] <= 0
                      /\ left[t] < 0 => Due(tick, delay_until[t]) /\ delay_until[t] # 0
    BY Zenon DEF DelayIsKept, Waits
  <1>1. /\ delay_until[t] # 0 /\ left[t] \in Int
        /\ Ahead(tick, delay_until[t]) \in {left[t], left[t] + 1}
    BY Fields, Zenon DEF BlockInv, DeadlineInv
  <1>2. Due(tick, delay_until[t]) <=> Ahead(tick, delay_until[t]) <= 0
    <2>1. tick \in Ticks /\ delay_until[t] \in Ticks
      BY Fields, Zenon
    <2> QED  BY <2>1, AheadIs, Zenon
  <1> QED  BY <1>1, <1>2

\* The running task's steps keep the invariant.
LEMMA RunKeeps ==
  ASSUME Typed, BlockInv, Enter \/ Leave
  PROVE  BlockInv'
  <1> PointInv /\ DeadlineInv /\ StaleInv /\ EventInv
    BY Zenon DEF BlockInv
  <1> tick \in Ticks  BY Fields, Zenon
  <1>1. PointInv'
    BY RunFrame, RunOwn, Zenon DEF PointInv, NoTask, Tasks
  <1>2. DeadlineInv'
    <2> SUFFICES ASSUME NEW t \in Tasks
                 PROVE  /\ lc'[t] \notin {"delay", "timeout"} => delay_until'[t] = 0
                        /\ Waits(t)' => /\ delay_until'[t] # 0 /\ left'[t] \in -MaxLate .. MaxDelay
                                        /\ Ahead(tick', delay_until'[t]) \in {left'[t], left'[t] + 1}
      BY Zenon DEF DeadlineInv
    <2>1. CASE t # best
      BY <2>1, RunFrame, Zenon DEF DeadlineInv, Waits
    <2>2. CASE t = best
      <3>1. tick' = tick /\ t \in Tasks  BY RunFrame, Zenon
      <3>2. lc'[t] \notin {"delay", "timeout"} => delay_until'[t] = 0  BY <2>2, RunOwn, Zenon
      <3>3. ASSUME lc[t] = "delay", delay_until'[t] = delay_until[t], left'[t] = left[t]
            PROVE  /\ delay_until'[t] # 0 /\ left'[t] \in -MaxLate .. MaxDelay
                   /\ Ahead(tick', delay_until'[t]) \in {left'[t], left'[t] + 1}
        BY <3>1, <3>3, Zenon DEF DeadlineInv, Waits
      <3>4. ASSUME NEW d \in 0 .. MaxDelay, delay_until'[t] = Deadline(d), left'[t] = d
            PROVE  /\ delay_until'[t] # 0 /\ left'[t] \in -MaxLate .. MaxDelay
                   /\ Ahead(tick', delay_until'[t]) \in {left'[t], left'[t] + 1}
        <4>1. Deadline(d) # 0 /\ Ahead(tick, Deadline(d)) \in {d, d + 1}  BY DeadlineIs, Zenon
        <4>2. d \in -MaxLate .. MaxDelay  BY Span
        <4> QED  BY <3>1, <3>4, <4>1, <4>2, Zenon
      <3> QED  BY <2>2, <3>2, <3>3, <3>4, RunOwn, Zenon DEF Waits
    <2> QED  BY <2>1, <2>2, Zenon
  <1>3. StaleInv'
    <2> SUFFICES ASSUME NEW t \in Tasks, lc'[t] = "timeout", state'[t] = "BLOCKED",
                        phase' = "scan" \/ (Busy' /\ t # best')
                 PROVE  /\ Ahead(tick', delay_until'[t]) <= Ahead(now', delay_until'[t])
                        /\ Ahead(now', delay_until'[t]) \in -MaxLate .. MaxDelay + 1
      BY Zenon DEF StaleInv
    <2>1. t # best  BY RunFrame, Zenon DEF Busy
    <2> QED  BY <2>1, RunFrame, Zenon DEF StaleInv
  <1>4. EventInv'
    <2> SUFFICES ASSUME NEW t \in Tasks, lc'[t] \in {"event", "timeout"}
                 PROVE  /\ flags' \subseteq fired'[t]
                        /\ state'[t] = "READY" /\ ~Resumed =>
                             /\ wait_mask'[t] \subseteq fired'[t]
                             /\ wait_mask'[t] = {} => lc'[t] = "timeout" /\ left'[t] <= 0
      BY Zenon DEF EventInv, Resumed
    <2>1. CASE t # best  BY <2>1, RunFrame, Zenon DEF EventInv
    <2>2. CASE t = best  BY <2>2, RunOwn, Zenon
    <2> QED  BY <2>1, <2>2, Zenon
  <1> QED  BY <1>1, <1>2, <1>3, <1>4, Zenon DEF BlockInv

\* So do the steps of the scheduler that change no task's wait.
LEMMA PassKeeps ==
  ASSUME Typed, BlockInv, SchedRun \/ Select \/ Executed \/ Clean
  PROVE  BlockInv'
  <1> PointInv /\ DeadlineInv /\ StaleInv /\ EventInv
    BY Zenon DEF BlockInv
  <1> /\ UNCHANGED <<tick, flags, lc, delay_until, left, fired, wait_mask>>
      /\ \A t \in Tasks :
           state'[t] = state[t] \/ (state[t] \in {"WAITING", "DEFERRED"} /\ state'[t] = "READY")
    BY Fields, Zenon DEF SchedRun, Select, Executed, Rotate, Clean, EndPass, task_vars, local_vars
  <1>1. PointInv'
    <2>1. /\ phase' \notin {"delay", "loop", "check", "body"}
          /\ phase' \in {"scan", "enter"} /\ best' # NoTask => phase = "scan" /\ best' = best /\ state' = state
      BY Zenon DEF SchedRun, Select, Executed, Rotate, Clean, EndPass, task_vars, local_vars
    <2> QED  BY <2>1, Zenon DEF PointInv
  <1>2. DeadlineInv'
    BY Zenon DEF DeadlineInv, Waits
  <1>3. StaleInv'
    <2> SUFFICES ASSUME NEW t \in Tasks, lc'[t] = "timeout", state'[t] = "BLOCKED",
                        phase' = "scan" \/ (Busy' /\ t # best')
                 PROVE  /\ Ahead(tick', delay_until'[t]) <= Ahead(now', delay_until'[t])
                        /\ Ahead(now', delay_until'[t]) \in -MaxLate .. MaxDelay + 1
      BY Zenon DEF StaleInv
    <2>1. lc[t] = "timeout" /\ state[t] = "BLOCKED" /\ tick' = tick /\ delay_until' = delay_until
      BY Zenon
    <2>2. CASE SchedRun
      <3>1. now' = tick  BY <2>2, Zenon DEF SchedRun
      <3>2. /\ left[t] \in -MaxLate .. MaxDelay
            /\ Ahead(tick, delay_until[t]) \in {left[t], left[t] + 1}
        BY <2>1, Zenon DEF DeadlineInv, Waits
      <3> DEFINE a == Ahead(tick, delay_until[t])
      <3>3. a \in {left[t], left[t] + 1}  BY <3>2, Zenon
      <3> HIDE DEF a
      <3>4. a <= a /\ a \in -MaxLate .. MaxDelay + 1  BY <3>2, <3>3, Span
      <3> QED  BY <2>1, <3>1, <3>4, Zenon DEF a
    <2>3. CASE ~SchedRun
      <3>1. phase = "scan" /\ now' = now
        BY <2>3, Zenon DEF Select, Executed, Rotate, Clean, EndPass, Busy, local_vars
      <3> QED  BY <2>1, <3>1, Zenon DEF StaleInv
    <2> QED  BY <2>2, <2>3, Zenon
  <1>4. EventInv'
    BY Zenon DEF EventInv, PointInv, Resumed
  <1> QED  BY <1>1, <1>2, <1>3, <1>4, Zenon DEF BlockInv

\* The scan wakes a blocked task for a flag it waits for, or because its timeout has
\* passed by the tick read at the start of the pass.
LEMMA ScanKeeps ==
  ASSUME Typed, BlockInv, Scan
  PROVE  BlockInv'
  <1> PointInv /\ DeadlineInv /\ StaleInv /\ EventInv
    BY Zenon DEF BlockInv
  <1> cursor \in Tasks /\ phase = "scan" /\ UNCHANGED <<phase, tick, now, flags, lc, left, fired>>
    <2>1. cursor \in Tasks  BY Fields DEF Scan, Tasks
    <2>2. UNCHANGED lc  BY Zenon DEF Scan, task_vars
    <2> QED  BY <2>1, <2>2, Zenon DEF Scan, history
  <1> /\ state \in [Tasks -> States] /\ delay_until \in [Tasks -> Ticks] /\ now \in Ticks
      /\ wait_mask \in [Tasks -> SUBSET Flags] /\ tick \in Ticks
    BY Fields, Zenon
  <1>b. \/ best' = best \/ (best' = cursor /\ state'[cursor] = "READY")
    BY Zenon DEF Scan, Consider, task_vars
  <1> DEFINE Woken == /\ state[cursor] = "BLOCKED" /\ (Matched(cursor) # {} \/ TimedOut(cursor))
                      /\ wait_mask' = [wait_mask EXCEPT ![cursor] = Matched(cursor)]
                      /\ delay_until' = [delay_until EXCEPT ![cursor] = 0]
                      /\ state' = [state EXCEPT ![cursor] = "READY"]
  <1>c. UNCHANGED task_vars \/ Woken
    BY Zenon DEF Scan
  <1>s. \A t \in Tasks : state'[t] = state[t] \/ (state[t] = "BLOCKED" /\ state'[t] = "READY")
    BY <1>c, Zenon DEF task_vars
  <1>o. \A t \in Tasks : state[t] # "BLOCKED" \/ state'[t] = "BLOCKED" =>
          state'[t] = state[t] /\ delay_until'[t] = delay_until[t] /\ wait_mask'[t] = wait_mask[t]
    <2>1. CASE UNCHANGED task_vars  BY <2>1, Zenon DEF task_vars
    <2>2. CASE Woken  BY <2>2, Zenon
    <2> QED  BY <1>c, <2>1, <2>2, Zenon
  <1>w. \A t \in Tasks : state[t] = "BLOCKED" /\ state'[t] # "BLOCKED" => t = cursor /\ Woken
    <2>1. CASE UNCHANGED task_vars  BY <2>1, Zenon DEF task_vars
    <2>2. CASE Woken  BY <2>2, Zenon
    <2> QED  BY <1>c, <2>1, <2>2, Zenon
  <1> HIDE DEF Woken
  <1>1. PointInv'
    <2>1. best # NoTask => best \in Tasks  BY Fields, Zenon
    <2> QED  BY <1>b, <1>s, <2>1, Zenon DEF PointInv
  <1>2. DeadlineInv'
    <2> SUFFICES ASSUME NEW t \in Tasks
                 PROVE  /\ lc'[t] \notin {"delay", "timeout"} => delay_until'[t] = 0
                        /\ Waits(t)' => /\ delay_until'[t] # 0 /\ left'[t] \in -MaxLate .. MaxDelay
                                        /\ Ahead(tick', delay_until'[t]) \in {left'[t], left'[t] + 1}
      BY Zenon DEF DeadlineInv
    <2>1. CASE state[t] # "BLOCKED" \/ state'[t] = "BLOCKED"
      BY <1>o, <2>1, Zenon DEF DeadlineInv, Waits
    <2>2. CASE state[t] = "BLOCKED" /\ state'[t] # "BLOCKED"
      <3>1. delay_until'[t] = 0  BY <1>w, <2>2, Zenon DEF Woken
      <3>2. ~Waits(t)'  BY <2>2, Zenon DEF Waits, PointInv
      <3> QED  BY <3>1, <3>2, Zenon
    <2> QED  BY <2>1, <2>2, Zenon
  <1>3. StaleInv'
    <2> SUFFICES ASSUME NEW t \in Tasks, lc'[t] = "timeout", state'[t] = "BLOCKED"
                 PROVE  /\ Ahead(tick', delay_until'[t]) <= Ahead(now', delay_until'[t])
                        /\ Ahead(now', delay_until'[t]) \in -MaxLate .. MaxDelay + 1
      BY Zenon DEF StaleInv
    <2> QED  BY <1>o, <1>s, Zenon DEF StaleInv
  <1>4. EventInv'
    <2> SUFFICES ASSUME NEW t \in Tasks, lc[t] \in {"event", "timeout"}
                 PROVE  /\ flags \subseteq fired[t]
                        /\ state'[t] = "READY" /\ ~Resumed =>
                             /\ wait_mask'[t] \subseteq fired[t]
                             /\ wait_mask'[t] = {} => lc[t] = "timeout" /\ left[t] <= 0
      BY Zenon DEF EventInv, Resumed
    <2>1. flags \subseteq fired[t]  BY Zenon DEF EventInv
    <2>2. CASE state[t] # "BLOCKED" \/ state'[t] = "BLOCKED"
      BY <1>o, <2>2, Zenon DEF EventInv
    <2>3. CASE state[t] = "BLOCKED" /\ state'[t] # "BLOCKED"
      <3>1. t = cursor /\ Woken  BY <1>w, <2>3, Zenon
      <3>2. wait_mask'[t] = Matched(t) /\ (Matched(t) # {} \/ TimedOut(t))
        BY <3>1, Zenon DEF Woken
      <3>3. Matched(t) \subseteq flags  BY Zenon DEF Matched
      <3>4. ASSUME TimedOut(t) PROVE lc[t] = "timeout" /\ left[t] <= 0
        <4>1. lc[t] = "timeout"  BY <3>4, Zenon DEF TimedOut, DeadlineInv
        <4>2. Ahead(now, delay_until[t]) <= 0
          <5>1. delay_until[t] \in Ticks  BY Zenon
          <5> QED  BY <3>4, <5>1, AheadIs, Zenon DEF TimedOut
        <4>3. /\ Ahead(tick, delay_until[t]) \in {left[t], left[t] + 1}
              /\ Ahead(tick, delay_until[t]) <= Ahead(now, delay_until[t])
              /\ left[t] \in Int /\ Ahead(now, delay_until[t]) \in Int
          BY <2>3, <4>1, Span DEF DeadlineInv, Waits, StaleInv
        <4> QED  BY <4>1, <4>2, <4>3
      <3> QED  BY <2>1, <3>2, <3>3, <3>4, Zenon
    <2> QED  BY <2>1, <2>2, <2>3, Zenon
  <1> QED  BY <1>1, <1>2, <1>3, <1>4, Zenon DEF BlockInv

\* Task control leaves the waits of blocked and delayed tasks alone, but for a restart.
LEMMA ControlKeeps ==
  ASSUME Typed, BlockInv, Control
  PROVE  BlockInv'
  <1> PointInv /\ DeadlineInv /\ StaleInv /\ EventInv
    BY DEF BlockInv
  <1> /\ phase \in {"idle", "body"}
      /\ UNCHANGED <<phase, tick, flags, fired, now, best>>
      /\ \A t \in Tasks : left'[t] = IF lc'[t] = "start" THEN 0 ELSE left[t]
    BY Zenon DEF Control, Suspend, Resume, Restart, Restore, Boost, SetBase, Calls, local_vars
  <1>1. \A t \in Tasks :
          \/ lc'[t] = "start" /\ state'[t] = "READY" /\ delay_until'[t] = 0
          \/ /\ lc'[t] = lc[t] /\ delay_until'[t] = delay_until[t] /\ wait_mask'[t] = wait_mask[t]
             /\ \/ state'[t] \in {state[t], "SUSPENDED"}
                \/ state'[t] = "READY" /\ "resume" \in Controls
    <2>1. PICK u \in Tasks : \/ Suspend(u) \/ Resume(u) \/ Restart(u) \/ Restore(u)
                             \/ \E p \in Prios : Boost(u, p) \/ SetBase(u, p)
      BY Zenon DEF Control
    <2> USE Fields
    <2>2. CASE Suspend(u) \/ Resume(u)  BY <2>2, Zenon DEF Suspend, Resume, Calls
    <2>3. CASE Restart(u)  BY <2>3, Zenon DEF Restart
    <2>4. CASE Restore(u)  BY <2>4, Zenon DEF Restore
    <2>5. ASSUME NEW p \in Prios, Boost(u, p) \/ SetBase(u, p)
          PROVE  UNCHANGED <<lc, state, delay_until, wait_mask>>
      BY <2>5, Zenon DEF Boost, SetBase
    <2> QED  BY <2>1, <2>2, <2>3, <2>4, <2>5, Zenon
  <1>2. PointInv'
    <2>1. phase = "body" => best \in Tasks  BY Fields, Zenon DEF Busy
    <2> QED  BY <1>1, <2>1, Zenon DEF PointInv
  <1>3. DeadlineInv'
    <2> SUFFICES ASSUME NEW t \in Tasks
                 PROVE  /\ lc'[t] \notin {"delay", "timeout"} => delay_until'[t] = 0
                        /\ Waits(t)' => /\ delay_until'[t] # 0 /\ left'[t] \in -MaxLate .. MaxDelay
                                        /\ Ahead(tick', delay_until'[t]) \in {left'[t], left'[t] + 1}
      BY Zenon DEF DeadlineInv
    <2>1. CASE lc'[t] = "start" /\ delay_until'[t] = 0
      BY <2>1, Zenon DEF Waits
    <2>2. CASE lc'[t] = lc[t] /\ delay_until'[t] = delay_until[t] /\ (state'[t] = "BLOCKED" => state[t] = "BLOCKED")
      BY <2>2, Zenon DEF Waits, DeadlineInv
    <2> QED  BY <1>1, <2>1, <2>2, Zenon
  <1>4. StaleInv'
    <2> SUFFICES ASSUME NEW t \in Tasks, lc'[t] = "timeout", state'[t] = "BLOCKED",
                        phase' = "scan" \/ (Busy' /\ t # best')
                 PROVE  /\ Ahead(tick', delay_until'[t]) <= Ahead(now', delay_until'[t])
                        /\ Ahead(now', delay_until'[t]) \in -MaxLate .. MaxDelay + 1
      BY Zenon DEF StaleInv
    <2>1. lc[t] = "timeout" /\ state[t] = "BLOCKED" /\ delay_until'[t] = delay_until[t]
      BY <1>1, Zenon
    <2> QED  BY <2>1, Zenon DEF StaleInv, Busy
  <1>5. EventInv'
    <2> SUFFICES ASSUME NEW t \in Tasks, lc'[t] \in {"event", "timeout"}
                 PROVE  /\ flags \subseteq fired[t]
                        /\ state'[t] = "READY" /\ ~Resumed =>
                             /\ wait_mask'[t] \subseteq fired[t]
                             /\ wait_mask'[t] = {} => lc'[t] = "timeout" /\ left'[t] <= 0
      BY Zenon DEF EventInv, Resumed
    <2>1. /\ lc'[t] = lc[t] /\ wait_mask'[t] = wait_mask[t] /\ left'[t] = left[t]
          /\ state'[t] = "READY" /\ ~Resumed => state[t] = "READY"
      BY <1>1, Zenon DEF Resumed
    <2> QED  BY <2>1, Zenon DEF EventInv
  <1> QED  BY <1>2, <1>3, <1>4, <1>5, Zenon DEF BlockInv

\* So do the interrupts, while the tick brings every deadline one nearer.
LEMMA InterruptKeeps ==
  ASSUME Typed, BlockInv, Interrupt \/ UNCHANGED vars
  PROVE  BlockInv'
  <1> PointInv /\ DeadlineInv /\ StaleInv /\ EventInv
    BY Zenon DEF BlockInv
  <1>1. ASSUME NEW f \in Flags, SetFlag(f) PROVE BlockInv'
    <2>1. /\ UNCHANGED <<task_vars, tick, now, left, phase, best>>
          /\ flags' = flags \cup {f}
          /\ \A t \in Tasks : fired'[t] = IF lc[t] \in {"event", "timeout"}
                                           THEN fired[t] \cup {f} ELSE fired[t]
      BY <1>1, Zenon DEF SetFlag, local_vars
    <2>2. PointInv' /\ DeadlineInv' /\ StaleInv'
      BY <2>1, Zenon DEF PointInv, DeadlineInv, StaleInv, task_vars, Waits, Busy
    <2>3. EventInv'
      BY <2>1, Zenon DEF EventInv, task_vars, Resumed
    <2> QED  BY <2>2, <2>3, Zenon DEF BlockInv
  <1>2. ASSUME NEW u \in Tasks, Signal(u) PROVE BlockInv'
    <2>1. /\ UNCHANGED <<delay_until, wait_mask, lc, flags, tick, now, left, fired, phase, best>>
          /\ Resumed
          /\ \A t \in Tasks : state'[t] = state[t] \/ (state[t] \in {"SUSPENDED", "BLOCKED"} /\ state'[t] = "READY")
      BY <1>2, Fields, Zenon DEF Signal, local_vars, history, Resumed
    <2>2. best # NoTask => best \in Tasks  BY Fields, Zenon
    <2>3. PointInv'  BY <2>1, <2>2, Zenon DEF PointInv
    <2>4. DeadlineInv' /\ StaleInv'  BY <2>1, Zenon DEF DeadlineInv, StaleInv, Waits, Busy
    <2>5. EventInv'  BY <2>1, Zenon DEF EventInv, Resumed
    <2> QED  BY <2>3, <2>4, <2>5, Zenon DEF BlockInv
  <1>3. CASE Tick
    <2>1. /\ UNCHANGED <<task_vars, flags, now, fired, phase, best>>
          /\ tick' = (tick + 1) % Wrap
          /\ \A t \in Tasks : left[t] > -MaxLate
          /\ \A t \in Tasks : left'[t] = IF lc[t] \in {"delay", "timeout"} THEN left[t] - 1 ELSE left[t]
      BY <1>3, Zenon DEF Tick, local_vars
    <2>2. tick \in Ticks /\ \A t \in Tasks : delay_until[t] \in Ticks /\ left[t] \in Int
      BY Fields, Zenon
    <2>3. \A t \in Tasks : Waits(t) =>
            /\ left'[t] = left[t] - 1
            /\ Ahead(tick', delay_until[t]) = Ahead(tick, delay_until[t]) - 1
            /\ left[t] \in -MaxLate .. MaxDelay /\ left[t] > -MaxLate
            /\ Ahead(tick, delay_until[t]) \in {left[t], left[t] + 1}
      <3> SUFFICES ASSUME NEW t \in Tasks, Waits(t)
                   PROVE  /\ left'[t] = left[t] - 1
                          /\ Ahead(tick', delay_until[t]) = Ahead(tick, delay_until[t]) - 1
                          /\ left[t] \in -MaxLate .. MaxDelay /\ left[t] > -MaxLate
                          /\ Ahead(tick, delay_until[t]) \in {left[t], left[t] + 1}
        BY Zenon
      <3>1. /\ left[t] \in -MaxLate .. MaxDelay /\ left[t] > -MaxLate
            /\ Ahead(tick, delay_until[t]) \in {left[t], left[t] + 1}
        BY <2>1, Zenon DEF DeadlineInv
      <3>2. Ahead(tick, delay_until[t]) > 1 - Half  BY <3>1, Span
      <3>3. Ahead(tick', delay_until[t]) = Ahead(tick, delay_until[t]) - 1
        BY <2>1, <2>2, <3>2, OneNearer, Zenon
      <3> QED  BY <2>1, <3>1, <3>3, Zenon DEF Waits
    <2>4. PointInv'  BY <2>1, Zenon DEF PointInv, task_vars
    <2>5. DeadlineInv'
      <3> SUFFICES ASSUME NEW t \in Tasks, Waits(t)
                   PROVE  /\ delay_until[t] # 0 /\ left'[t] \in -MaxLate .. MaxDelay
                          /\ Ahead(tick', delay_until[t]) \in {left'[t], left'[t] + 1}
        BY <2>1, Zenon DEF DeadlineInv, Waits, task_vars
      <3>1. delay_until[t] # 0  BY Zenon DEF DeadlineInv
      <3>2. /\ left'[t] = left[t] - 1
            /\ Ahead(tick', delay_until[t]) = Ahead(tick, delay_until[t]) - 1
            /\ left[t] \in -MaxLate .. MaxDelay /\ left[t] > -MaxLate
            /\ Ahead(tick, delay_until[t]) \in {left[t], left[t] + 1}
        BY <2>3, Zenon
      <3>3. left'[t] \in -MaxLate .. MaxDelay  BY <3>2, Span
      <3>4. Ahead(tick', delay_until[t]) \in {left'[t], left'[t] + 1}  BY <3>2, Span
      <3> QED  BY <3>1, <3>3, <3>4, Zenon
    <2>6. StaleInv'
      <3> SUFFICES ASSUME NEW t \in Tasks, lc[t] = "timeout", state[t] = "BLOCKED",
                          phase = "scan" \/ (Busy /\ t # best)
                   PROVE  /\ Ahead(tick', delay_until[t]) <= Ahead(now, delay_until[t])
                          /\ Ahead(now, delay_until[t]) \in -MaxLate .. MaxDelay + 1
        BY <2>1, Zenon DEF StaleInv, Busy, task_vars
      <3>1. /\ Ahead(tick, delay_until[t]) <= Ahead(now, delay_until[t])
            /\ Ahead(now, delay_until[t]) \in -MaxLate .. MaxDelay + 1
        BY Zenon DEF StaleInv
      <3>2. Ahead(tick', delay_until[t]) = Ahead(tick, delay_until[t]) - 1 /\ Ahead(tick, delay_until[t]) \in Int
        BY <2>2, <2>3 DEF Waits
      <3> QED  BY <3>1, <3>2, Span
    <2>7. EventInv'
      <3>1. \A t \in Tasks : left[t] <= 0 => left'[t] <= 0  BY <2>1, <2>2
      <3> QED  BY <2>1, <3>1, Zenon DEF EventInv, task_vars, Resumed
    <2> QED  BY <2>4, <2>5, <2>6, <2>7, Zenon DEF BlockInv
  <1>4. CASE UNCHANGED vars
    <2>1. PointInv' /\ DeadlineInv' /\ StaleInv'
      BY <1>4, Zenon DEF vars, task_vars, local_vars, history, PointInv, DeadlineInv, StaleInv, Waits, Busy
    <2>2. EventInv'
      BY <1>4, Zenon DEF vars, task_vars, local_vars, history, EventInv, Resumed
    <2> QED  BY <2>1, <2>2, Zenon DEF BlockInv
  <1> QED  BY <1>1, <1>2, <1>3, <1>4, Zenon DEF Interrupt

-----------------------------------------------------------------------------
\* Every behaviour keeps deadlines, wake-ups and continuations in step.
THEOREM WaitInvariance == Spec => [](Typed /\ BlockInv)
  <1>1. Init => BlockInv
    <2> SUFFICES ASSUME Init PROVE BlockInv  BY Zenon
    <2>1. PointInv /\ DeadlineInv  BY Zenon DEF Init, PointInv, DeadlineInv, Waits
    <2>2. StaleInv /\ EventInv  BY Zenon DEF Init, StaleInv, EventInv, Busy
    <2> QED  BY <2>1, <2>2, Zenon DEF BlockInv
  <1>2. Typed /\ BlockInv /\ [Next]_vars => BlockInv'
    BY RunKeeps, PassKeeps, ScanKeeps, ControlKeeps, InterruptKeeps, Zenon DEF Next, Processor
  <1> QED  BY <1>1, <1>2, TypeInvariance, PTL DEF Spec

\* PT_TASK_DELAY_MS and the timeout of PT_BLOCK_EVENT_WITH_TIMEOUT never end early, and a
\* passed deadline is seen as passed, whatever the tick's width and wherever it wraps.
THEOREM DelaysKept == Spec => []DelayIsKept
  BY DeadlineSays, WaitInvariance, PTL

\* As long as nothing calls syn_task_resume on it, a task comes back from PT_BLOCK_EVENT
\* with flags that were set while it was blocked, or after its timeout.
THEOREM ReturnsForAReason ==
  ASSUME ~Resumed
  PROVE  Spec => []BlockReturnsForAReason
  <1>1. Typed /\ BlockInv => BlockReturnsForAReason
    <2> SUFFICES ASSUME Typed, BlockInv, phase = "enter", lc[best] \in {"event", "timeout"}
                 PROVE  /\ wait_mask[best] \subseteq fired[best]
                        /\ wait_mask[best] = {} => lc[best] = "timeout" /\ left[best] <= 0
      BY Zenon DEF BlockReturnsForAReason
    <2>1. best \in Tasks /\ best # NoTask  BY Fields, Zenon DEF Busy
    <2>2. state[best] = "READY"  BY <2>1, Zenon DEF BlockInv, PointInv
    <2> QED  BY <2>1, <2>2, Zenon DEF BlockInv, EventInv
  <1> QED  BY <1>1, WaitInvariance, PTL

\* syn_task_suspend holds: of all steps only syn_task_resume and syn_task_restart take a
\* task out of SUSPENDED, but for a task that has suspended itself and still runs.
THEOREM SuspensionHolds == Spec => SuspendHolds
  <1> DEFINE Holds == \A t \in Tasks :
        state[t] = "SUSPENDED" /\ t # Running /\ state'[t] # "SUSPENDED" =>
          Resume(t) \/ Restart(t) \/ Signal(t)
  <1>1. Typed /\ [Next]_vars => Holds
    <2> SUFFICES ASSUME Typed, [Next]_vars, NEW t \in Tasks, state[t] = "SUSPENDED", t # Running,
                        state'[t] # "SUSPENDED"
                 PROVE  Resume(t) \/ Restart(t) \/ Signal(t)
      BY Zenon
    <2>0. state \in [Tasks -> States]  BY Fields, Zenon
    <2>1. CASE SchedRun \/ Select \/ Executed \/ Clean
      BY <2>1, <2>0, Zenon DEF SchedRun, Select, Executed, Rotate, Clean, EndPass, task_vars
    <2>2. CASE Scan
      BY <2>2, <2>0, Zenon DEF Scan, task_vars
    <2>3. CASE Enter \/ Leave
      BY <2>3, <2>0, RunFrame, Zenon DEF Running, Busy
    <2>4. CASE Control
      <3>1. PICK u \in Tasks : \/ Suspend(u) \/ Resume(u) \/ Restart(u) \/ Restore(u)
                               \/ \E p \in Prios : Boost(u, p) \/ SetBase(u, p)
        BY <2>4, Zenon DEF Control
      <3>2. CASE Resume(u) \/ Restart(u)
        <4>1. u = t  BY <2>0, <3>2, Zenon DEF Resume, Restart
        <4> QED  BY <3>2, <4>1, Zenon
      <3>3. CASE Suspend(u)  BY <2>0, <3>3, Zenon DEF Suspend
      <3>4. CASE Restore(u) \/ \E p \in Prios : Boost(u, p) \/ SetBase(u, p)
        BY <3>4, Zenon DEF Restore, Boost, SetBase
      <3> QED  BY <3>1, <3>2, <3>3, <3>4, Zenon
    <2>5. ASSUME NEW u \in Tasks, Signal(u) PROVE Signal(t)
      <3>1. u = t  BY <2>0, <2>5, Zenon DEF Signal
      <3> QED  BY <2>5, <3>1, Zenon
    <2>6. CASE Tick \/ UNCHANGED vars \/ \E f \in Flags : SetFlag(f)
      BY <2>6, Zenon DEF Tick, SetFlag, vars, task_vars
    <2> QED  BY <2>1, <2>2, <2>3, <2>4, <2>5, <2>6, Zenon DEF Next, Processor, Interrupt
  <1>2. Typed /\ [Next]_vars => [Holds]_vars  BY <1>1, Zenon
  <1> QED  BY <1>2, TypeInvariance, PTL DEF Spec, SuspendHolds
=============================================================================
