---------------------------- MODULE DeferredWork ----------------------------
(***************************************************************************)
(* Work deferred from an interrupt to a task: the handler posts an item    *)
(* (sched/syn_workqueue.c) and signals a semaphore (pt/syn_pt_sem.h); the  *)
(* tasks take a token each and drain the queue.                            *)
(***************************************************************************)
EXTENDS Integers

CONSTANTS Items, NoItem, Capacity, OverflowWrap,    \* of the queue
          Tasks, NoTask, MaxCount                   \* of the semaphore

VARIABLES buf, head, tail, overflow, consumer, loaded, item, delivered,
          count, macro, state, current, step,
          stage         \* what the running task is at: "sem" or "drain"

Queue == INSTANCE WorkQueue
Sem == INSTANCE Semaphore

queue_vars == <<buf, head, tail, overflow, consumer, loaded, item, delivered>>
sem_vars == <<count, macro, state, current, step>>
vars == <<queue_vars, sem_vars, stage>>

Init == Queue!Init /\ Sem!Init /\ stage = "sem"
-----------------------------------------------------------------------------
\* The handler signals for every item the queue took.
Handler(i) == Queue!Post(i) /\ Sem!Signal /\ UNCHANGED stage

HandlerFull == Queue!PostFull /\ UNCHANGED <<sem_vars, stage>>

\* The task in the semaphore's macros, and between them.
Waiting == /\ stage = "sem"
           /\ \/ Sem!Leave \/ Sem!Block \/ Sem!Pass \/ Sem!Wait \/ Sem!Return
              \/ \E m \in {"wait", "block"} : Sem!Begin(m)
           /\ UNCHANGED <<queue_vars, stage>>

\* The task comes to its semaphore.
Asks == Waiting /\ \E m \in {"wait", "block"} : Sem!Begin(m)

Taking == /\ stage = "sem"
          /\ Sem!Take \/ Sem!TryWait
          /\ stage' = "drain"
          /\ UNCHANGED queue_vars

\* syn_workqueue_process, until it finds the queue empty.
Draining == /\ stage = "drain" /\ Queue!Process
            /\ stage' = IF Queue!Empty THEN "sem" ELSE "drain"
            /\ UNCHANGED sem_vars

Polling == /\ \E t \in Tasks : Sem!Poll(t)
           /\ UNCHANGED <<queue_vars, stage>>

\* Somebody resumes a task that blocked in PT_SEM_BLOCK.
Resuming == /\ \E t \in Tasks : Sem!Resume(t)
            /\ UNCHANGED <<queue_vars, stage>>

Runs == Waiting \/ Taking \/ Draining \/ Polling

Next == Runs \/ Resuming \/ HandlerFull \/ \E i \in Items : Handler(i)

Spec == Init /\ [][Next]_vars

\* The scheduler keeps polling, and a task that runs comes to its semaphore again.  Nobody
\* has to resume a task: its handlers signal, as syn_pt_sem.h has them do.
FairSpec == /\ Spec /\ WF_vars(Runs)
            /\ SF_vars(Asks)
-----------------------------------------------------------------------------
(* Properties. *)

TypeOK == Queue!TypeOK /\ Sem!TypeOK /\ stage \in {"sem", "drain"}

\* "normal operation keeps it >= 0": though PT_SEM_WAIT looks at the count outside
\* the critical section that takes the token, no task takes one that is not there.
NeverOverdrawn == Sem!NeverOverdrawn

\* Whoever posts and whenever, the items accepted are run in the order they were
\* accepted, each of them once, and Capacity - 1 can wait at a time.
IsFifo == Queue!IsFifo

\* While there is work in the queue there is a token for it, or the task is about
\* to look again: it cannot go to sleep on work.
WorkHasToken ==
    head # tail => \/ count > 0
                   \/ stage = "drain" /\ ~(consumer = "loaded" /\ loaded = tail)

\* Work that was accepted is run, whatever is posted meanwhile and however the
\* handlers' signals fall between a task's test of the count and its return, unless
\* every task sleeps in PT_SEM_BLOCK: PT_SEM_SIGNAL wakes none of them.
AcceptedRuns == \A s \in Queue!Slots : (head # tail /\ tail = s) ~> (tail # s \/ Sem!AllAsleep)

\* "Increment the semaphore count, unblocking a waiting protothread": a task that sleeps
\* in PT_SEM_BLOCK while there is a token runs again, or another takes the token.
SignalUnblocks == \A t \in Tasks :
    (state[t] = "BLOCKED" /\ count > 0) ~> (state[t] = "READY" \/ count = 0)
-----------------------------------------------------------------------------
(* The inductive invariant behind NeverOverdrawn and WorkHasToken: a task that *)
(* has passed its test still has the token it saw, since it is the running one *)
(* and no other takes any; and a task at its semaphore is not in the middle of *)
(* a pop.                                                                      *)
TokenInv == /\ count \in Int /\ count >= 0
            /\ current \in Tasks \cup {NoTask}
            /\ step \in [Tasks -> {"run", "enter", "test", "wait", "take"}]
            /\ \A t \in Tasks : step[t] = "take" => t = current /\ count > 0
            /\ stage \in {"sem", "drain"}
            /\ stage = "sem" => consumer = "idle"
            /\ WorkHasToken
=============================================================================
