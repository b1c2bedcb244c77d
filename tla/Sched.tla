-------------------------------- MODULE Sched --------------------------------
(***************************************************************************)
(* The cooperative scheduler (sched/syn_sched.c) running protothread tasks *)
(* (pt/syn_pt.h) that block, delay, defer and wait for event flags         *)
(* (sched/syn_event_flags.c), while interrupts set flags and resume tasks. *)
(*                                                                         *)
(* syn_sched_run is split at the points where an interrupt changes what it *)
(* does: one step per task scanned, one per stretch of task code, one for  *)
(* the clean-up.  What a task does between two blocking macros is left     *)
(* open: it may call the task control functions and then leave its         *)
(* function through any macro of Ops.  A run chooses Ops and Controls.     *)
(*                                                                         *)
(* Variables below "history" are read by no action; properties use them.   *)
(* lc goes back to "yield" when a macro has been passed: no code reads the *)
(* continuation before the next macro sets it.                             *)
(*                                                                         *)
(* A definition marked "Mutant" is not part of the model: it is a wrong    *)
(* form of the definition after it, which some property must reject.       *)
(***************************************************************************)
EXTENDS Clock, FiniteSets

CONSTANTS NTasks,     \* length of the task array
          Levels,     \* SYN_SCHED_PRIO_LEVELS
          Flags,      \* bits of the one event group
          StartTicks, \* values of the tick when the scheduler starts
          MaxDelay,   \* longest delay or timeout a task asks for
          MaxLate,    \* how long past its deadline a task may stay unpolled
          Ops,        \* macros through which tasks leave their function
          Controls    \* task control functions that are called

ASSUME TasksAssumption == NTasks \in Nat \ {0}
ASSUME LevelsAssumption == Levels \in Nat \ {0}
ASSUME TickAssumption == /\ MaxDelay \in Nat /\ MaxLate \in Nat
                         /\ MaxDelay + MaxLate + 1 < Half
                         /\ StartTicks \subseteq 0 .. 2 * Half - 1
ASSUME OpsAssumption ==
    /\ Ops \subseteq {"yield", "wait", "delay", "defer", "event", "timeout", "cond", "exit"}
    /\ Controls \subseteq {"suspend", "resume", "restart", "boost", "restore", "setbase"}

Tasks == 0 .. NTasks - 1
Prios == 0 .. Levels - 1

States == {"READY", "SUSPENDED", "DEAD", "DEFERRED", "BLOCKED", "WAITING"}

VARIABLES state, priority, base_priority,  \* of each task
          delay_until,                     \* 0: no deadline
          wait_event,                      \* wait_event # NULL
          wait_mask,
          lc,            \* the macro a task's continuation points into
          rr_per_prio,   \* of the scheduler
          flags,         \* the event group
          tick,          \* syn_port_get_tick_ms
          cond,          \* the condition each task's PT_BLOCK_CONDITION tests
          \* locals of syn_sched_run
          phase, now, cursor, best, best_prio, attempts, executed,
          \* history
          left,          \* milliseconds each task still has to wait
          fired,         \* flags set since each task blocked on them
          candidates,    \* tasks ready since this pass began and not tried in it
          overtook       \* tasks run while each task stood ready, in its level

task_vars == <<state, priority, base_priority, delay_until, wait_event, wait_mask, lc>>
local_vars == <<now, cursor, best, best_prio, attempts, executed>>
history == <<left, fired, candidates, overtook>>
vars == <<task_vars, rr_per_prio, flags, tick, cond, phase, local_vars, history>>

NoTask == NTasks

\* Mutant of Deadline: the sentinel is not avoided.
DeadlineAliased(d) == (tick + d) % Wrap

\* A deadline d milliseconds away; 0 is taken by "no deadline".
Deadline(d) == LET t == (tick + d) % Wrap IN IF t = 0 THEN 1 ELSE t

Ready(t) == state[t] = "READY" /\ delay_until[t] = 0

\* syn_task_create for every task, then syn_sched_init.
Init == /\ state = [t \in Tasks |-> "READY"]
        /\ base_priority \in [Tasks -> Prios]
        /\ priority = base_priority
        /\ delay_until = [t \in Tasks |-> 0]
        /\ wait_event = [t \in Tasks |-> FALSE]
        /\ wait_mask = [t \in Tasks |-> {}]
        /\ lc = [t \in Tasks |-> "start"]
        /\ rr_per_prio = [p \in Prios |-> 0]
        /\ flags = {}
        /\ tick \in StartTicks
        /\ cond = [t \in Tasks |-> FALSE]
        /\ phase = "idle" /\ now = 0
        /\ cursor = 0 /\ best = NoTask /\ best_prio = Levels
        /\ attempts = 0 /\ executed = NoTask
        /\ left = [t \in Tasks |-> 0]
        /\ fired = [t \in Tasks |-> {}]
        /\ candidates = {}
        /\ overtook = [t \in Tasks |-> {}]
-----------------------------------------------------------------------------
(* syn_sched_run: choosing a task. *)

SchedRun == /\ phase = "idle"
            /\ phase' = "scan"
            /\ now' = tick
            /\ cursor' = 0 /\ best' = NoTask /\ best_prio' = Levels
            /\ attempts' = 0 /\ executed' = NoTask
            /\ candidates' = {t \in Tasks : Ready(t)}
            /\ UNCHANGED <<task_vars, rr_per_prio, flags, tick, cond, left, fired, overtook>>

\* How far task i is from rotation index rr.
Around(rr, i) == LET start == IF rr >= NTasks THEN 0 ELSE rr
                 IN  IF i >= start THEN i - start ELSE NTasks - start + i

Dist(i) == Around(rr_per_prio[priority[i]], i)

\* The flags task t waits for that are set.
Matched(t) == IF wait_event[t] THEN flags \cap wait_mask[t] ELSE {}

\* Mutant of TimedOut: 0 is taken for a deadline.
TimedOutAtZero(t) == Due(now, delay_until[t])

TimedOut(t) == delay_until[t] # 0 /\ Due(now, delay_until[t])

\* Mutant of Consider: the rotation decides before the priority.
ConsiderRotation(i) ==
    IF best = NoTask \/ Dist(i) < Dist(best)
    THEN best' = i /\ best_prio' = priority[i]
    ELSE UNCHANGED <<best, best_prio>>

\* Keep the better of the best so far and an eligible task i.
Consider(i) ==
    IF \/ priority[i] < best_prio
       \/ /\ priority[i] = best_prio
          /\ Dist(i) < Dist(best)
    THEN best' = i /\ best_prio' = priority[i]
    ELSE UNCHANGED <<best, best_prio>>

\* One turn of the scan's loop.
Scan ==
  /\ phase = "scan" /\ cursor < NTasks
  /\ cursor' = cursor + 1
  /\ \/ \* dead, suspended, deferred or already tried in this pass
        /\ state[cursor] \in {"DEAD", "SUSPENDED", "DEFERRED", "WAITING"}
        /\ UNCHANGED <<task_vars, best, best_prio>>
     \/ \* still blocked
        /\ state[cursor] = "BLOCKED"
        /\ Matched(cursor) = {} /\ ~TimedOut(cursor)
        /\ UNCHANGED <<task_vars, best, best_prio>>
     \/ \* blocked until now: the task becomes ready, whether chosen or not
        /\ state[cursor] = "BLOCKED"
        /\ Matched(cursor) # {} \/ TimedOut(cursor)
        /\ wait_mask' = [wait_mask EXCEPT ![cursor] = Matched(cursor)]
        /\ wait_event' = [wait_event EXCEPT ![cursor] = FALSE]
        /\ delay_until' = [delay_until EXCEPT ![cursor] = 0]
        /\ state' = [state EXCEPT ![cursor] = "READY"]
        /\ Consider(cursor)
        /\ UNCHANGED <<priority, base_priority, lc>>
     \/ \* delayed
        /\ state[cursor] = "READY"
        /\ delay_until[cursor] # 0 /\ ~Due(now, delay_until[cursor])
        /\ UNCHANGED <<task_vars, best, best_prio>>
     \/ /\ state[cursor] = "READY"
        /\ delay_until[cursor] = 0 \/ Due(now, delay_until[cursor])
        /\ Consider(cursor)
        /\ UNCHANGED task_vars
  /\ UNCHANGED <<rr_per_prio, flags, tick, cond, phase, now, attempts, executed, history>>

\* The scan is over: run the best task, or end the pass.
Select == /\ phase = "scan" /\ cursor = NTasks
          /\ phase' = IF best = NoTask THEN "clean" ELSE "enter"
          /\ candidates' = candidates \ {best}
          /\ UNCHANGED <<task_vars, rr_per_prio, flags, tick, cond, local_vars, left, fired, overtook>>
-----------------------------------------------------------------------------
(* The chosen task runs: first the rest of the macro it left through. *)

\* Go on in phase p without the task that has just been tried.
Retry(p) == /\ phase' = p
            /\ state' = [state EXCEPT ![best] = "WAITING"]
            /\ attempts' = attempts + 1
            /\ cursor' = 0 /\ best' = NoTask /\ best_prio' = Levels
            /\ UNCHANGED <<now, executed>>

\* Mutant of Waiting: one attempt too few.
WaitingGivesUp == Retry(IF attempts + 2 < NTasks THEN "scan" ELSE "clean")

\* What the scheduler does with a task that returned PT_WAITING: the pass goes
\* on without it, unless every task has been tried.
Waiting == Retry(IF attempts + 1 < NTasks THEN "scan" ELSE "clean")

\* At the start of the function, or after PT_YIELD or PT_DEFER.
EnterPlain == /\ phase = "enter" /\ lc[best] \in {"start", "yield"}
              /\ phase' = "body"
              /\ overtook' = [overtook EXCEPT ![best] = {}]
              /\ UNCHANGED <<task_vars, rr_per_prio, flags, tick, cond, local_vars, left, fired, candidates>>

\* PT_WAIT_UNTIL finds its condition true, or still false.
EnterWait == /\ phase = "enter" /\ lc[best] = "wait"
             /\ overtook' = [overtook EXCEPT ![best] = {}]
             /\ \/ phase' = "body" /\ UNCHANGED <<state, local_vars>>
                \/ Waiting
             /\ UNCHANGED <<priority, base_priority, delay_until, wait_event, wait_mask, lc,
                            rr_per_prio, flags, tick, cond, left, fired, candidates>>

\* PT_DELAY_MS compares its deadline with the tick of this very moment, and
\* consumes it.
EnterDelay == /\ phase \in {"enter", "delay"} /\ lc[best] = "delay"
              /\ overtook' = [overtook EXCEPT ![best] = {}]
              /\ \/ /\ Due(tick, delay_until[best])
                    /\ delay_until' = [delay_until EXCEPT ![best] = 0]
                    /\ left' = [left EXCEPT ![best] = 0]
                    /\ lc' = [lc EXCEPT ![best] = "yield"]
                    /\ phase' = "body"
                    /\ UNCHANGED <<state, local_vars>>
                 \/ /\ ~Due(tick, delay_until[best])
                    /\ Waiting
                    /\ UNCHANGED <<delay_until, left, lc>>
              /\ UNCHANGED <<priority, base_priority, wait_event, wait_mask, rr_per_prio, flags,
                             tick, cond, fired, candidates>>

\* PT_BLOCK_EVENT and PT_BLOCK_EVENT_WITH_TIMEOUT read the flags that woke them
\* from wait_mask, clear those in the group and report them.
EnterEvent == /\ phase = "enter" /\ lc[best] \in {"event", "timeout"}
              /\ flags' = flags \ wait_mask[best]
              /\ wait_mask' = [wait_mask EXCEPT ![best] = {}]
              /\ delay_until' = IF lc[best] = "timeout"
                                THEN [delay_until EXCEPT ![best] = 0] ELSE delay_until
              /\ lc' = [lc EXCEPT ![best] = "yield"]
              /\ phase' = "body"
              /\ left' = [left EXCEPT ![best] = 0]
              /\ fired' = [fired EXCEPT ![best] = {}]
              /\ overtook' = [overtook EXCEPT ![best] = {}]
              /\ UNCHANGED <<state, priority, base_priority, wait_event, rr_per_prio, tick, cond,
                             local_vars, candidates>>

\* PT_BLOCK_CONDITION goes round its loop.
EnterCondition == /\ phase = "enter" /\ lc[best] = "cond"
                  /\ phase' = "loop"
                  /\ overtook' = [overtook EXCEPT ![best] = {}]
                  /\ UNCHANGED <<task_vars, rr_per_prio, flags, tick, cond, local_vars, left,
                                 fired, candidates>>
-----------------------------------------------------------------------------
(* Then it leaves, through one of the macros. *)

Yield == /\ phase = "body" /\ "yield" \in Ops
         /\ lc' = [lc EXCEPT ![best] = "yield"]
         /\ phase' = "yielded"
         /\ UNCHANGED <<state, priority, base_priority, delay_until, wait_event, wait_mask,
                        rr_per_prio, flags, tick, cond, local_vars, history>>

WaitUntil == /\ phase = "body" /\ "wait" \in Ops
             /\ lc' = [lc EXCEPT ![best] = "wait"]
             /\ Waiting
             /\ UNCHANGED <<priority, base_priority, delay_until, wait_event, wait_mask,
                            rr_per_prio, flags, tick, cond, history>>

\* PT_TASK_DELAY_MS sets the deadline and falls into the comparison.
DelayMs(d) == /\ phase = "body" /\ "delay" \in Ops
              /\ delay_until' = [delay_until EXCEPT ![best] = Deadline(d)]
              /\ lc' = [lc EXCEPT ![best] = "delay"]
              /\ phase' = "delay"
              /\ left' = [left EXCEPT ![best] = d]
              /\ UNCHANGED <<state, priority, base_priority, wait_event, wait_mask, rr_per_prio,
                             flags, tick, cond, local_vars, fired, candidates, overtook>>

Defer == /\ phase = "body" /\ "defer" \in Ops
         /\ state' = [state EXCEPT ![best] = "DEFERRED"]
         /\ lc' = [lc EXCEPT ![best] = "yield"]
         /\ phase' = "yielded"
         /\ UNCHANGED <<priority, base_priority, delay_until, wait_event, wait_mask,
                        rr_per_prio, flags, tick, cond, local_vars, history>>

BlockEvent(m) == /\ phase = "body" /\ "event" \in Ops
                 /\ wait_event' = [wait_event EXCEPT ![best] = TRUE]
                 /\ wait_mask' = [wait_mask EXCEPT ![best] = m]
                 /\ state' = [state EXCEPT ![best] = "BLOCKED"]
                 /\ lc' = [lc EXCEPT ![best] = "event"]
                 /\ phase' = "yielded"
                 /\ fired' = [fired EXCEPT ![best] = flags]
                 /\ UNCHANGED <<priority, base_priority, delay_until, rr_per_prio, flags, tick,
                                cond, local_vars, left, candidates, overtook>>

BlockEventWithTimeout(m, d) ==
    /\ phase = "body" /\ "timeout" \in Ops
    /\ wait_event' = [wait_event EXCEPT ![best] = TRUE]
    /\ wait_mask' = [wait_mask EXCEPT ![best] = m]
    /\ delay_until' = [delay_until EXCEPT ![best] = Deadline(d)]
    /\ state' = [state EXCEPT ![best] = "BLOCKED"]
    /\ lc' = [lc EXCEPT ![best] = "timeout"]
    /\ phase' = "yielded"
    /\ left' = [left EXCEPT ![best] = d]
    /\ fired' = [fired EXCEPT ![best] = flags]
    /\ UNCHANGED <<priority, base_priority, rr_per_prio, flags, tick, cond, local_vars,
                   candidates, overtook>>

\* PT_BLOCK_CONDITION: blocked first, so that an interrupt that makes the
\* condition true from here on finds a task to resume ...
BlockCondition == /\ \/ phase = "body" /\ "cond" \in Ops
                     \/ phase = "loop"
                  /\ state' = [state EXCEPT ![best] = "BLOCKED"]
                  /\ lc' = [lc EXCEPT ![best] = "cond"]
                  /\ phase' = "check"
                  /\ UNCHANGED <<priority, base_priority, delay_until, wait_event, wait_mask,
                                 rr_per_prio, flags, tick, cond, local_vars, history>>

\* ... then the condition: true, the task goes on and uses up what it waited for;
CheckTrue == /\ phase = "check" /\ cond[best]
             /\ state' = [state EXCEPT ![best] = "READY"]
             /\ cond' = [cond EXCEPT ![best] = FALSE]
             /\ lc' = [lc EXCEPT ![best] = "yield"]
             /\ phase' = "body"
             /\ UNCHANGED <<priority, base_priority, delay_until, wait_event, wait_mask,
                            rr_per_prio, flags, tick, local_vars, history>>

\* false, it yields as it is.
CheckFalse == /\ phase = "check" /\ ~cond[best]
              /\ phase' = "yielded"
              /\ UNCHANGED <<task_vars, rr_per_prio, flags, tick, cond, local_vars, history>>

\* PT_EXIT, or PT_END: sched_run_task buries the task.
Exit == /\ phase = "body" /\ "exit" \in Ops
        /\ lc' = [lc EXCEPT ![best] = "start"]
        /\ state' = [state EXCEPT ![best] = "DEAD"]
        /\ phase' = "yielded"
        /\ UNCHANGED <<priority, base_priority, delay_until, wait_event, wait_mask,
                       rr_per_prio, flags, tick, cond, local_vars, history>>
-----------------------------------------------------------------------------
(* The end of the pass. *)

\* The level's rotation index moves to i; histories as in Executed.
Rotate(i) ==
    /\ phase = "yielded"
    /\ phase' = "clean"
    /\ executed' = best
    /\ rr_per_prio' = IF state[best] = "DEFERRED" THEN rr_per_prio
                      ELSE [rr_per_prio EXCEPT ![best_prio] = i]
    /\ overtook' = [t \in Tasks |->
                      IF t = best \/ ~Ready(t) THEN {}
                      ELSE IF state[best] = "DEFERRED" \/ priority[t] # best_prio
                      THEN overtook[t] ELSE overtook[t] \cup {best}]
    /\ UNCHANGED <<priority, base_priority, delay_until, wait_event, wait_mask, lc, flags, tick,
                   cond, now, cursor, best, best_prio, attempts, left, fired, candidates>>

\* Mutants of Executed: the index does not move past the task; the scheduler writes
\* the state BLOCKED when the task has returned.
ExecutedStays == Rotate(best) /\ UNCHANGED state
ExecutedBlocks == /\ Rotate(IF best + 1 >= NTasks THEN 0 ELSE best + 1)
                  /\ state' = IF lc[best] = "cond" THEN [state EXCEPT ![best] = "BLOCKED"]
                              ELSE state

\* The task did some work: the rotation of the level it was chosen from moves
\* past it, unless it deferred.
Executed == Rotate(IF best + 1 >= NTasks THEN 0 ELSE best + 1) /\ UNCHANGED state

\* The pass ends with the task states st; the locals go out of scope.
EndPass(st) ==
    /\ phase = "clean"
    /\ phase' = "idle"
    /\ state' = st
    /\ now' = 0 /\ cursor' = 0 /\ best' = NoTask /\ best_prio' = Levels
    /\ attempts' = 0 /\ executed' = NoTask /\ candidates' = {}
    /\ UNCHANGED <<priority, base_priority, delay_until, wait_event, wait_mask, lc,
                   rr_per_prio, flags, tick, cond, left, fired, overtook>>

\* Mutants of Clean: DEFERRED is not ended; everything alive is made READY.
CleanWaiting ==
    EndPass([t \in Tasks |-> IF state[t] = "WAITING" THEN "READY" ELSE state[t]])
CleanAll ==
    EndPass([t \in Tasks |-> IF state[t] \in {"DEAD", "BLOCKED"} \/ t = executed
                             THEN state[t] ELSE "READY"])

\* WAITING and DEFERRED end here, except for the task that has just deferred.
Clean ==
    EndPass([t \in Tasks |-> IF \/ state[t] = "WAITING"
                                \/ state[t] = "DEFERRED" /\ t # executed
                             THEN "READY" ELSE state[t]])
-----------------------------------------------------------------------------
(* Task control, called by a task or by the loop around syn_sched_run. *)

Calls(f) == phase \in {"idle", "body"} /\ f \in Controls

Suspend(t) == /\ Calls("suspend")
              /\ state[t] # "DEAD"
              /\ state' = [state EXCEPT ![t] = "SUSPENDED"]
              /\ UNCHANGED <<priority, base_priority, delay_until, wait_event, wait_mask, lc>>

Resume(t) == /\ Calls("resume")
             /\ state[t] \in {"SUSPENDED", "BLOCKED"}
             /\ state' = [state EXCEPT ![t] = "READY"]
             /\ UNCHANGED <<priority, base_priority, delay_until, wait_event, wait_mask, lc>>

Restart(t) == /\ Calls("restart")
              /\ lc' = [lc EXCEPT ![t] = "start"]
              /\ delay_until' = [delay_until EXCEPT ![t] = 0]
              /\ wait_event' = [wait_event EXCEPT ![t] = FALSE]
              /\ wait_mask' = [wait_mask EXCEPT ![t] = {}]
              /\ state' = [state EXCEPT ![t] = "READY"]
              /\ UNCHANGED <<priority, base_priority>>

\* Boosting never takes a task below its base priority.
Boost(t, p) == /\ Calls("boost")
               /\ p <= base_priority[t]
               /\ priority' = [priority EXCEPT ![t] = p]
               /\ UNCHANGED <<state, base_priority, delay_until, wait_event, wait_mask, lc>>

Restore(t) == /\ Calls("restore")
              /\ priority' = [priority EXCEPT ![t] = base_priority[t]]
              /\ UNCHANGED <<state, base_priority, delay_until, wait_event, wait_mask, lc>>

SetBase(t, p) == /\ Calls("setbase")
                 /\ base_priority' = [base_priority EXCEPT ![t] = p]
                 /\ priority' = [priority EXCEPT ![t] = p]
                 /\ UNCHANGED <<state, delay_until, wait_event, wait_mask, lc>>

Control ==
    /\ \E t \in Tasks : \/ Suspend(t) \/ Resume(t) \/ Restart(t) \/ Restore(t)
                        \/ \E p \in Prios : Boost(t, p) \/ SetBase(t, p)
    /\ left' = [t \in Tasks |-> IF lc'[t] = "start" THEN 0 ELSE left[t]]
    /\ candidates' = {t \in candidates : Ready(t)'}
    /\ overtook' = [t \in Tasks |->
                      IF Ready(t)' /\ priority'[t] = priority[t] THEN overtook[t] ELSE {}]
    /\ UNCHANGED <<rr_per_prio, flags, tick, cond, phase, local_vars, fired>>
-----------------------------------------------------------------------------
(* Interrupts, between any two steps. *)

\* syn_event_flags_set.
SetFlag(f) == /\ Ops \cap {"event", "timeout"} # {}
              /\ flags' = flags \cup {f}
              /\ fired' = [t \in Tasks |-> IF lc[t] \in {"event", "timeout"}
                                           THEN fired[t] \cup {f} ELSE fired[t]]
              /\ UNCHANGED <<task_vars, rr_per_prio, tick, cond, phase, local_vars, left,
                             candidates, overtook>>

\* What t waits for in PT_BLOCK_CONDITION arrives; the driver calls
\* syn_task_resume(t).
Signal(t) == /\ "cond" \in Ops
             /\ cond' = [cond EXCEPT ![t] = TRUE]
             /\ state' = IF state[t] \in {"SUSPENDED", "BLOCKED"}
                         THEN [state EXCEPT ![t] = "READY"] ELSE state
             /\ UNCHANGED <<priority, base_priority, delay_until, wait_event, wait_mask, lc,
                            rr_per_prio, flags, tick, phase, local_vars, history>>

\* A millisecond passes.  Every delayed task is polled within MaxLate of its
\* deadline: 24.8 days, for a 32-bit tick.
Tick == /\ Ops \cap {"delay", "timeout"} # {}
        /\ \A t \in Tasks : left[t] > -MaxLate
        /\ tick' = (tick + 1) % Wrap
        /\ left' = [t \in Tasks |->
                      IF lc[t] \in {"delay", "timeout"} THEN left[t] - 1 ELSE left[t]]
        /\ UNCHANGED <<task_vars, rr_per_prio, flags, cond, phase, local_vars, fired,
                       candidates, overtook>>

Interrupt == \/ \E f \in Flags : SetFlag(f)
             \/ \E t \in Tasks : Signal(t)
             \/ Tick
-----------------------------------------------------------------------------
Enter == EnterPlain \/ EnterWait \/ EnterDelay \/ EnterEvent \/ EnterCondition

Leave == \/ Yield \/ WaitUntil \/ Defer \/ BlockCondition \/ CheckTrue \/ CheckFalse \/ Exit
         \/ \E d \in 0 .. MaxDelay : DelayMs(d)
         \/ \E m \in SUBSET Flags \ {{}} :
              BlockEvent(m) \/ \E d \in 0 .. MaxDelay : BlockEventWithTimeout(m, d)

\* The processor in syn_sched_run_forever.
Processor == SchedRun \/ Scan \/ Select \/ Enter \/ Leave \/ Executed \/ Clean

Next == Processor \/ Control \/ Interrupt

Spec == Init /\ [][Next]_vars

\* syn_sched_run_forever never stops calling syn_sched_run, and no task keeps
\* the processor for ever.
FairSpec == Spec /\ WF_vars(Processor)
-----------------------------------------------------------------------------
(* Properties. *)

Points == {"start", "yield", "wait", "delay", "event", "timeout", "cond"}
Phases == {"idle", "scan", "enter", "delay", "loop", "body", "check", "yielded", "clean"}

TasksOK == /\ state \in [Tasks -> States]
           /\ priority \in [Tasks -> Prios] /\ base_priority \in [Tasks -> Prios]
           /\ delay_until \in [Tasks -> Ticks]
           /\ wait_event \in [Tasks -> BOOLEAN]
           /\ wait_mask \in [Tasks -> SUBSET Flags]
           /\ lc \in [Tasks -> Points]

LocalsOK == /\ phase \in Phases
            /\ now \in Ticks
            /\ cursor \in 0 .. NTasks /\ attempts \in 0 .. NTasks
            /\ best \in Tasks \cup {NoTask} /\ executed \in Tasks \cup {NoTask}
            /\ best_prio \in 0 .. Levels

SharedOK == /\ rr_per_prio \in [Prios -> Tasks]
            /\ flags \subseteq Flags
            /\ tick \in Ticks
            /\ cond \in [Tasks -> BOOLEAN]

HistoryOK == /\ left \in [Tasks -> Int]
             /\ fired \in [Tasks -> SUBSET Flags]
             /\ candidates \subseteq Tasks
             /\ overtook \in [Tasks -> SUBSET Tasks]

\* Every variable has its type; above all the rotation indices, the loop counters
\* and the deadlines of syn_sched_run stay in range.
TypeOK == TasksOK /\ LocalsOK /\ SharedOK /\ HistoryOK

Running == IF phase \in {"enter", "delay", "loop", "body", "check", "yielded"}
           THEN best ELSE NoTask

\* A task asleep in PT_BLOCK_CONDITION has nothing to wake up for: whatever the
\* instant at which the interrupt strikes, its syn_task_resume is not lost.
NoLostWakeup == \A t \in Tasks :
    state[t] = "BLOCKED" /\ lc[t] = "cond" /\ t # Running => ~cond[t]

\* The flags a task is told of when it comes back from PT_BLOCK_EVENT or
\* PT_BLOCK_EVENT_WITH_TIMEOUT were set while it was blocked; it is told of
\* none only when its timeout has passed.
BlockReturnsForAReason ==
    phase = "enter" /\ lc[best] \in {"event", "timeout"} =>
        /\ wait_mask[best] \subseteq fired[best]
        /\ wait_mask[best] = {} => lc[best] = "timeout" /\ left[best] <= 0

\* PT_TASK_DELAY_MS and the timeout of PT_BLOCK_EVENT_WITH_TIMEOUT last for at
\* least the time asked for, and a task whose time is up is seen to be due, on
\* either side of the tick's wrap-around and of the "no deadline" sentinel.
DelayIsKept == \A t \in Tasks :
    lc[t] = "delay" \/ (lc[t] = "timeout" /\ state[t] = "BLOCKED") =>
        /\ Due(tick, delay_until[t]) => left[t] <= 0
        /\ left[t] < 0 => Due(tick, delay_until[t]) /\ delay_until[t] # 0

\* WAITING lasts to the end of the pass, and between passes only the task that
\* ran last can be DEFERRED.
TickLocalStates ==
    phase = "idle" => /\ \A t \in Tasks : state[t] # "WAITING"
                      /\ \A t, u \in Tasks : state[t] = "DEFERRED" /\ state[u] = "DEFERRED"
                                              => t = u

\* The task chosen has the best priority of all that have been ready since the
\* pass began and have not been tried in it.
StrictPriority ==
    phase = "enter" => \A t \in candidates : best_prio <= priority[t]

\* A pass that runs nothing has tried every task that was ready: a task whose
\* PT_WAIT_UNTIL is false keeps no other task from running.  (In a pass in
\* which no task is suspended or restarted: a task restarted after its attempt is
\* tried again, and the pass ends after NTasks attempts.)
WorkConserving ==
    phase = "clean" /\ executed = NoTask => candidates = {}

\* Round robin: while a task stands ready, no other task of its level runs twice
\* without deferring.
RoundRobin ==
    phase = "yielded" /\ state[best] # "DEFERRED" =>
        \A t \in Tasks \ {best} :
            Ready(t) /\ priority[t] = best_prio => best \notin overtook[t]

\* A suspended task that is not the running one stays suspended until it is
\* resumed or restarted.
SuspendHolds == [][\A t \in Tasks :
    state[t] = "SUSPENDED" /\ t # Running /\ state'[t] # "SUSPENDED" =>
        Resume(t) \/ Restart(t) \/ Signal(t)]_vars

Runnable(t) == Ready(t) \/ (state[t] = "BLOCKED" /\ Matched(t) # {})

\* A task of the most urgent level that stays ready, or blocked on an event that
\* stays set, runs in the end, if no task defers for ever.
ReadyRuns == \A t \in Tasks :
    (Runnable(t) /\ priority[t] = 0) ~> (Running = t \/ ~Runnable(t) \/ priority[t] # 0)
-----------------------------------------------------------------------------
(* The inductive invariant behind the safety properties. *)

Busy == phase \in {"enter", "delay", "loop", "body", "check", "yielded"}

\* The locals of a pass.
PassInv ==
    /\ Busy => best \in Tasks /\ best_prio \in Prios
    /\ Busy \/ phase = "scan" => attempts < NTasks
    /\ phase = "scan" => IF best = NoTask THEN best_prio = Levels
                         ELSE best < cursor /\ best_prio \in Prios
    /\ phase \in {"scan", "enter"} /\ best # NoTask => best_prio = priority[best]

\* The last look at the condition came after the task had marked itself BLOCKED.
SleepInv ==
    /\ phase = "body" => lc[best] # "cond"
    /\ \A t \in Tasks :
         state[t] = "BLOCKED" /\ lc[t] = "cond" /\ (t # Running \/ phase = "yielded") => ~cond[t]

\* The best task so far is no worse than any candidate passed.
CandidateInv == \A t \in candidates :
    /\ Ready(t) /\ t # Running
    /\ phase = "enter" \/ (phase = "scan" /\ t < cursor) => best_prio <= priority[t]

\* Tasks that overtook t are further round the rotation than t, and a task that
\* is chosen before t is nearer.
RotationInv == \A t \in Tasks : overtook[t] # {} =>
    /\ Ready(t) /\ (t # Running \/ phase = "enter")
    /\ \A x \in overtook[t] :
         Around(rr_per_prio[priority[t]], t) < Around(rr_per_prio[priority[t]], x)
    /\ Busy \/ (phase = "scan" /\ t < cursor) =>
         /\ best # NoTask
         /\ phase = "scan" => best_prio <= priority[t]
         /\ best_prio = priority[t] /\ best # t =>
              Around(rr_per_prio[best_prio], best) < Around(rr_per_prio[best_prio], t)

\* A task's function is entered READY and passed through as far as the phase says; only a
\* task that blocked on flags, or on a condition, stands there otherwise than READY,
\* SUSPENDED or just tried.
PointInv ==
    /\ phase \in {"scan", "enter"} /\ best # NoTask => state[best] = "READY"
    /\ phase = "delay" => lc[best] = "delay"
    /\ phase \in {"loop", "check"} => lc[best] = "cond"
    /\ phase = "body" => lc[best] \in {"start", "yield", "wait"}
    /\ \A t \in Tasks :
         /\ state[t] = "BLOCKED" => lc[t] \in {"event", "timeout", "cond"}
         /\ state[t] \in {"WAITING", "DEFERRED"} => lc[t] \notin {"event", "timeout", "cond"}

\* A deadline belongs to a delay or to a timeout, and is as far ahead of the tick as the
\* task has left to wait, or one more where it would have been 0.
Waits(t) == lc[t] = "delay" \/ (lc[t] = "timeout" /\ state[t] = "BLOCKED")

DeadlineInv == \A t \in Tasks :
    /\ lc[t] \notin {"delay", "timeout"} => delay_until[t] = 0
    /\ Waits(t) => /\ delay_until[t] # 0 /\ left[t] \in -MaxLate .. MaxDelay
                   /\ Ahead(tick, delay_until[t]) \in {left[t], left[t] + 1}

\* A pass compares the timeouts with the tick read at its start.
StaleInv == \A t \in Tasks :
    lc[t] = "timeout" /\ state[t] = "BLOCKED" /\ (phase = "scan" \/ (Busy /\ t # best)) =>
        /\ Ahead(tick, delay_until[t]) <= Ahead(now, delay_until[t])
        /\ Ahead(now, delay_until[t]) \in -MaxLate .. MaxDelay + 1

\* A task blocked on flags has seen all that are set; one that is awake again was told
\* of some of these, or its time was up, unless syn_task_resume woke it.
Resumed == "resume" \in Controls \/ "cond" \in Ops

EventInv == \A t \in Tasks : lc[t] \in {"event", "timeout"} =>
    /\ flags \subseteq fired[t]
    /\ state[t] = "READY" /\ ~Resumed =>
         /\ wait_mask[t] \subseteq fired[t]
         /\ wait_mask[t] = {} => lc[t] = "timeout" /\ left[t] <= 0

IndInv == TypeOK /\ PassInv /\ SleepInv /\ CandidateInv /\ RotationInv /\ TickLocalStates

\* The inductive invariant behind the waits, kept apart from the one behind the turns.
Typed == TypeOK /\ PassInv
BlockInv == PointInv /\ DeadlineInv /\ StaleInv /\ EventInv
=============================================================================
