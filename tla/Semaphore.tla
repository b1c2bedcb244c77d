------------------------------ MODULE Semaphore ------------------------------
(***************************************************************************)
(* The counting semaphore of protothreads (pt/syn_pt_sem.h): tasks take    *)
(* tokens with PT_SEM_WAIT, PT_SEM_BLOCK and PT_SEM_TRYWAIT, interrupts    *)
(* signal between any two steps of a task.                                 *)
(*                                                                         *)
(* One task runs at a time, until it returns to the scheduler.             *)
(* pt_sem_signal only counts: a task that blocked in PT_SEM_BLOCK sleeps   *)
(* until somebody resumes it.                                              *)
(***************************************************************************)
EXTENDS Integers

CONSTANTS Tasks,
          NoTask,       \* the scheduler runs
          MaxCount      \* bound: tokens at a time, far below the int16_t's limit

VARIABLES count,      \* sem->count
          macro,      \* of each task: the macro it is in, "none" outside
          state,      \* of each task: SYN_TASK_READY or SYN_TASK_BLOCKED
          current,    \* the running task
          step        \* where each is: "run", or in its macro "enter", "test", "wait", "take"

vars == <<count, macro, state, current, step>>

Init == /\ count \in 0 .. 1
        /\ macro = [t \in Tasks |-> "none"]
        /\ state = [t \in Tasks |-> "READY"]
        /\ current = NoTask /\ step = [t \in Tasks |-> "run"]
-----------------------------------------------------------------------------
(* Tasks. *)

Running(s) == current # NoTask /\ step[current] = s
Goes(s) == step' = [step EXCEPT ![current] = s]

\* Mutant of Poll: a task may be polled while another is in the middle of its macro.
PollPreempts(t) == /\ current # t /\ state[t] = "READY"
                   /\ current' = t
                   /\ step' = [step EXCEPT ![t] = IF macro[t] # "none" /\ @ = "run" THEN "enter" ELSE @]
                   /\ UNCHANGED <<count, macro, state>>

\* The scheduler runs a ready task, which goes on where it returned.
Poll(t) == /\ current = NoTask /\ state[t] = "READY"
           /\ current' = t
           /\ step' = [step EXCEPT ![t] = IF macro[t] = "none" THEN "run" ELSE "enter"]
           /\ UNCHANGED <<count, macro, state>>

Begin(m) == /\ Running("run")
            /\ macro' = [macro EXCEPT ![current] = m]
            /\ Goes("enter")
            /\ UNCHANGED <<count, state, current>>

Leave == /\ Running("run")
         /\ current' = NoTask
         /\ UNCHANGED <<count, macro, state, step>>

\* pt_sem_trywait, one critical section.
TryWait == /\ Running("run") /\ count > 0
           /\ count' = count - 1
           /\ UNCHANGED <<macro, state, current, step>>

\* PT_BLOCK_CONDITION blocks the task before it looks at the condition.
Block == /\ Running("enter") /\ macro[current] = "block"
         /\ state' = [state EXCEPT ![current] = "BLOCKED"]
         /\ Goes("test")
         /\ UNCHANGED <<count, macro, current>>

Testing == /\ current # NoTask
           /\ step[current] = IF macro[current] = "block" THEN "test" ELSE "enter"

\* Mutant of Available: the last token is not seen.
AvailableAboveOne == count > 1

\* (sem)->count > 0, outside any critical section.
Available == count > 0

\* The condition holds; the token is taken in the critical section that follows.
Pass == /\ Testing /\ Available
        /\ state' = [state EXCEPT ![current] = "READY"]
        /\ Goes("take")
        /\ UNCHANGED <<count, macro, current>>

Wait == /\ Testing /\ ~Available
        /\ Goes("wait")
        /\ UNCHANGED <<count, macro, state, current>>

\* PT_WAITING, or the PT_YIELD of PT_BLOCK_CONDITION.
Return == /\ Running("wait")
          /\ current' = NoTask /\ Goes("run")
          /\ UNCHANGED <<count, macro, state>>

Take == /\ Running("take")
        /\ count' = count - 1
        /\ macro' = [macro EXCEPT ![current] = "none"]
        /\ Goes("run")
        /\ UNCHANGED <<state, current>>
-----------------------------------------------------------------------------
(* Others, between any two steps of a task. *)

\* pt_sem_signal, one critical section.
Signal == /\ count < MaxCount
          /\ count' = count + 1
          /\ UNCHANGED <<macro, state, current, step>>

\* syn_task_resume of a task that blocked.
Resume(t) == /\ state[t] = "BLOCKED"
             /\ state' = [state EXCEPT ![t] = "READY"]
             /\ UNCHANGED <<count, macro, current, step>>

Runs == Leave \/ TryWait \/ Block \/ Pass \/ Wait \/ Return \/ Take \/ \E m \in {"wait", "block"} : Begin(m)
Next == Runs \/ Signal \/ \E t \in Tasks : Poll(t) \/ Resume(t)

Spec == Init /\ [][Next]_vars
-----------------------------------------------------------------------------
(* Properties. *)

TypeOK == /\ count \in -1 .. MaxCount
          /\ macro \in [Tasks -> {"none", "wait", "block"}]
          /\ state \in [Tasks -> {"READY", "BLOCKED"}]
          /\ current \in Tasks \cup {NoTask}
          /\ step \in [Tasks -> {"run", "enter", "test", "wait", "take"}]

\* "normal operation keeps it >= 0": though PT_SEM_WAIT looks at the count outside
\* the critical section that takes the token, no task takes one that is not there.
NeverOverdrawn == count >= 0

\* Everybody sleeps in PT_SEM_BLOCK.
AllAsleep == current = NoTask /\ \A t \in Tasks : state[t] = "BLOCKED"
=============================================================================
