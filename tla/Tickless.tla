------------------------------ MODULE Tickless ------------------------------
(***************************************************************************)
(* The tickless main loops (syn_sched_run_tickless, and with timers        *)
(* syn_sched_run_tickless_ex, in sched/syn_sched.c) over the sleep         *)
(* coordinator (system/syn_sleep.h) and the software timers.               *)
(*                                                                         *)
(* Of the scheduler only what the decision to sleep reads is kept: each    *)
(* task is ready, delayed, or blocked with or without a timeout.  Sleep is *)
(* entered with interrupts masked; a pending one ends it, and its handler  *)
(* runs when they are unmasked.  The tick is a hardware counter (as on the *)
(* RP2040 and the ESP32): it moves on while interrupts are masked, between *)
(* the three reads of it that the decision makes.                          *)
(***************************************************************************)
EXTENDS Timer

CONSTANTS Tasks

VARIABLES state, delay_until,   \* of each task
          locked, enabled,      \* of the sleep coordinator: lock_mask # 0; enabled
          phase,                \* of the loop: see Phases
          index,                \* of syn_timer_service
          masked, pending,      \* interrupts: masked; the tasks they will resume
          now, wake,            \* of the loop: the tick it read; the one to sleep until
          at_max                \* history: a deadline was computed on tick UINT32_MAX

task_vars == <<state, delay_until>>
sleep_vars == <<locked, enabled>>
loop_vars == <<phase, index, now, wake, at_max>>
irq_vars == <<masked, pending>>
tickless_vars == <<tick, timer_vars, task_vars, sleep_vars, loop_vars, irq_vars>>

\* syn_sched_run; syn_timer_service; the tasks' deadline; the timers' deadline and
\* the decision; the call that sleeps; asleep.
Phases == {"run", "service", "tasks", "timers", "enter", "asleep"}

TicklessInit == /\ TimerInit
                /\ state = [t \in Tasks |-> "READY"]
                /\ delay_until = [t \in Tasks |-> 0]
                /\ locked = FALSE /\ enabled = TRUE
                /\ phase = "run" /\ index = 1 /\ now = 0 /\ wake = Max /\ at_max = FALSE
                /\ masked = FALSE /\ pending = {}
-----------------------------------------------------------------------------
(* The loop. *)

\* A task may run: it is ready, or its delay or timeout has passed.
Runnable(t) == \/ state[t] = "READY" /\ (delay_until[t] = 0 \/ Due(tick, delay_until[t]))
               \/ state[t] = "BLOCKED" /\ delay_until[t] # 0 /\ Due(tick, delay_until[t])

\* Sched's deadline: 0 is taken by "no deadline".
Deadline(d) == LET w == (tick + d) % Wrap IN IF w = 0 THEN 1 ELSE w

\* syn_sched_run runs one task, which yields, delays or blocks, with or without a
\* timeout, and may call the functions of the sleep coordinator and of the timers.
RunTask(t) ==
    /\ phase = "run" /\ Runnable(t)
    /\ \E s \in {"READY", "BLOCKED"} : state' = [state EXCEPT ![t] = s]
    /\ \E d \in {0} \cup {Deadline(p) : p \in 1 .. MaxPeriod} :
         delay_until' = [delay_until EXCEPT ![t] = d]
    /\ locked' \in BOOLEAN /\ enabled' \in BOOLEAN
    /\ \/ UNCHANGED timer_vars
       \/ \E i \in Timers : Start(i) \/ Stop(i) \/ \E p \in 1 .. MaxPeriod : SetPeriod(i, p)
    /\ phase' = "service"
    /\ UNCHANGED <<tick, index, now, wake, at_max, irq_vars>>

RunNothing == /\ phase = "run" /\ ~\E t \in Tasks : Runnable(t)
              /\ phase' = "service"
              /\ UNCHANGED <<tick, timer_vars, task_vars, sleep_vars, index, now, wake, at_max, irq_vars>>

\* syn_timer_service, one timer at a time.
Service == /\ phase = "service" /\ index <= NTimers
           /\ Expire(index) \/ (~(timer_active[index] /\ Due(tick, target[index])) /\ UNCHANGED timer_vars)
           /\ index' = index + 1
           /\ UNCHANGED <<tick, task_vars, sleep_vars, phase, now, wake, at_max, irq_vars>>

\* Mutant of Mask: interrupts stay enabled.
MaskNothing == /\ phase = "service" /\ index > NTimers
               /\ phase' = "tasks" /\ index' = 1 /\ now' = tick
               /\ UNCHANGED <<tick, timer_vars, task_vars, sleep_vars, wake, at_max, irq_vars>>

\* syn_port_enter_critical, and the loop's own read of the tick.
Mask == /\ phase = "service" /\ index > NTimers
        /\ phase' = "tasks" /\ masked' = TRUE /\ index' = 1 /\ now' = tick
        /\ UNCHANGED <<tick, timer_vars, task_vars, sleep_vars, wake, at_max, pending>>

\* Mutant of Cap: the sentinel is a deadline like any other.
CapNot(d) == d

\* A deadline at the wrap is taken a millisecond early.
Cap(d) == IF d = Max THEN Max - 1 ELSE d

\* The deadlines tasks are delayed or blocked until and that are still to come.
Pending == {Cap(delay_until[t]) : t \in {u \in Tasks : delay_until[u] # 0 /\ ~Due(tick, delay_until[u])}}

\* syn_sched_next_wakeup
NextWakeup == IF \E t \in Tasks : Runnable(t) THEN tick
              ELSE IF Pending = {} THEN Max
              ELSE CHOOSE d \in Pending : \A e \in Pending : ~Before(e, d)

\* Mutant of Earlier: the timers are looked at only when no task has a deadline.
EarlierTask(task_wake, timer_wake) == IF task_wake = Max THEN timer_wake ELSE task_wake

\* The earlier of the two, Max standing for none.
Earlier(task_wake, timer_wake) ==
    IF timer_wake # Max /\ (task_wake = Max \/ Before(timer_wake, task_wake))
    THEN timer_wake ELSE task_wake

TaskWake == /\ phase = "tasks"
            /\ phase' = "timers" /\ wake' = NextWakeup /\ at_max' = (tick = Max)
            /\ UNCHANGED <<tick, timer_vars, task_vars, sleep_vars, index, now, irq_vars>>

\* The loop goes round; its locals are dead.
Again == phase' = "run" /\ masked' = FALSE /\ now' = 0 /\ wake' = Max /\ at_max' = FALSE

\* The timers' deadline and the decision.  (Without timers NextExpiry is Max.)
Decide == /\ phase = "timers"
          /\ LET w == Earlier(wake, NextExpiry)
             IN  IF w # now /\ ~locked
                 THEN /\ phase' = "enter" /\ wake' = w /\ at_max' = (at_max \/ tick = Max)
                      /\ UNCHANGED <<now, masked>>
                 ELSE Again
          /\ UNCHANGED <<tick, timer_vars, task_vars, sleep_vars, index, pending>>

\* syn_port_sleep_until, or syn_sleep_enter when there is no deadline.
Enter == /\ phase = "enter"
         /\ IF wake = Max /\ (~enabled \/ locked)
            THEN Again
            ELSE phase' = "asleep" /\ UNCHANGED <<now, wake, at_max, masked>>
         /\ UNCHANGED <<tick, timer_vars, task_vars, sleep_vars, index, pending>>

\* The port returns at the tick it was told (see Tick), at a pending interrupt or at
\* one of a device that is not modelled; syn_port_exit_critical.
Awake == wake # Max /\ Due(tick, wake)
WakeUp == /\ phase = "asleep"
          /\ Again
          /\ UNCHANGED <<tick, timer_vars, task_vars, sleep_vars, index, pending>>
-----------------------------------------------------------------------------
(* The world. *)

\* An interrupt for a blocked task is raised ...
Raise(t) == /\ state[t] = "BLOCKED" /\ t \notin pending
            /\ pending' = pending \cup {t}
            /\ UNCHANGED <<tick, timer_vars, task_vars, sleep_vars, loop_vars, masked>>

\* ... and handled: syn_task_resume, and syn_sleep_lock when it starts a transfer.
Handle(t) == /\ ~masked /\ t \in pending
             /\ pending' = pending \ {t}
             /\ state' = IF state[t] = "BLOCKED" THEN [state EXCEPT ![t] = "READY"] ELSE state
             /\ locked' \in {locked, TRUE}
             /\ UNCHANGED <<tick, timer_vars, delay_until, enabled, loop_vars, masked>>

Late(t) == IF delay_until[t] = 0 \/ Before(tick, delay_until[t]) THEN 0
           ELSE (tick - delay_until[t]) % Wrap

\* A millisecond passes.  A loop that is awake leaves nothing unserved for longer
\* than MaxLate, nor takes longer over its decision; one that sleeps is not woken
\* late by its port.
Tick == /\ LET most == IF phase = "asleep" THEN MaxLate + MaxPeriod ELSE MaxLate
           IN  /\ \A i \in Timers : -due[i] < most
               /\ \A t \in Tasks : Late(t) < most \/ Late(t) = 0
        /\ phase \in {"tasks", "timers", "enter"} => (tick - now) % Wrap < MaxLate
        /\ ~(phase = "asleep" /\ Awake)
        /\ tick' = (tick + 1) % Wrap
        /\ TimersAge
        /\ UNCHANGED <<period, target, timer_active, periodic, task_vars, sleep_vars, loop_vars, irq_vars>>

TicklessNext == \/ \E t \in Tasks : RunTask(t) \/ Raise(t) \/ Handle(t)
                \/ RunNothing \/ Service \/ Mask \/ TaskWake \/ Decide \/ Enter \/ WakeUp \/ Tick

TicklessSpec == TicklessInit /\ [][TicklessNext]_tickless_vars
-----------------------------------------------------------------------------
(* Properties. *)

TicklessTypeOK == /\ TimerTypeOK
                  /\ state \in [Tasks -> {"READY", "BLOCKED"}] /\ delay_until \in [Tasks -> Ticks]
                  /\ locked \in BOOLEAN /\ enabled \in BOOLEAN /\ masked \in BOOLEAN /\ pending \subseteq Tasks
                  /\ phase \in Phases
                  /\ index \in 1 .. NTimers + 1 /\ now \in Ticks /\ wake \in Ticks /\ at_max \in BOOLEAN

Sleeping == phase = "asleep" /\ ~Awake /\ pending = {}

\* The processor sleeps only while no task is to run: none is ready, none has become
\* ready by an interrupt between the decision and the sleep, and no delay or timeout
\* has passed.  Excepted is a decision on tick UINT32_MAX, where syn_sched_next_wakeup
\* returning "now" is taken for "no deadline".
NoTaskLeftBehind == Sleeping /\ ~at_max => ~\E t \in Tasks : Runnable(t)

\* The processor does not sleep past a timer: the loop takes the earlier of the tasks'
\* and the timers' deadline.  Excepted besides is a time when the target of a timer is
\* UINT32_MAX, which syn_timer_next_expiry, unlike syn_sched_next_wakeup, does not move:
\* its loop takes the mark for "none yet" and may pass over an earlier timer for a later.
NoTargetAtMax == \A i \in Timers : timer_active[i] => target[i] # Max
NoTimerLeftBehind == Sleeping /\ ~at_max /\ NoTargetAtMax =>
    ~\E i \in Timers : timer_active[i] /\ Due(tick, target[i])

\* A wake lock keeps the processor awake, one taken by an interrupt handler after the
\* loop has looked at the locks included: syn_sleep_lock and the decision exclude
\* each other.
LockKeepsAwake == phase = "asleep" => ~locked
-----------------------------------------------------------------------------
(* The inductive invariant behind the three.  Of a delay, a target or the tick to    *)
(* sleep until, what counts is how far ahead of the tick it is; all of them stay      *)
(* within a window smaller than half the range, so that the order of two of them is   *)
(* that of their distances.                                                           *)

\* The loop decides and sleeps with interrupts masked, soon after it has read the tick.
LoopInv == /\ phase \in {"tasks", "timers", "enter", "asleep"} => masked
           /\ phase \in {"tasks", "timers", "enter"} => Ahead(tick, now) \in -MaxLate .. 0
           /\ phase \in {"enter", "asleep"} => ~locked
           /\ phase \in {"timers", "enter"} /\ wake # Max => Ahead(tick, now) <= Ahead(tick, wake)
           /\ phase \in {"timers", "enter", "asleep"} /\ wake # Max =>
                Ahead(tick, wake) \in -MaxLate .. MaxPeriod + 1

DelayInv == \A t \in Tasks : delay_until[t] # 0 =>
    Ahead(tick, delay_until[t]) \in -(MaxLate + MaxPeriod) .. MaxPeriod + 1

\* The tick to sleep until is reached when a task is runnable, and before one becomes so.
TaskCover == phase \in {"timers", "enter", "asleep"} /\ ~at_max => \A t \in Tasks :
    /\ Runnable(t) => wake # Max /\ Ahead(tick, wake) <= 0
    /\ delay_until[t] # 0 /\ ~Due(tick, delay_until[t]) =>
         wake # Max /\ Ahead(tick, wake) <= Ahead(tick, delay_until[t])

\* Likewise with the timers, once their deadline is in.
TimerCover == phase \in {"enter", "asleep"} /\ ~at_max /\ NoTargetAtMax =>
    \A i \in Timers : timer_active[i] =>
      wake # Max /\ (Ahead(tick, wake) <= 0 \/ Ahead(tick, wake) <= Ahead(tick, target[i]))

TicklessInv == TicklessTypeOK /\ TimerInv /\ LoopInv /\ DelayInv /\ TaskCover /\ TimerCover
=============================================================================
