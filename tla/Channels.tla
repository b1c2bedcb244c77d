------------------------------- MODULE Channels -------------------------------
(***************************************************************************)
(* The three ways an interrupt hands something to a task: a mailbox        *)
(* (Mailbox), a work queue whose task waits for a semaphore (DeferredWork) *)
(* and an active object (ActiveObject).  They share no state, so each      *)
(* behaviour uses one of them while the others stay as they were           *)
(* initialised.                                                            *)
(***************************************************************************)
EXTENDS Mailbox

CONSTANTS Items, NoItem, Tasks, NoTask, MaxCount,  \* of DeferredWork
          Signals, Depth, Rows, InitialState, MaxPosts  \* of ActiveObject

ASSUME NoItemAssumption == NoItem \notin Items
ASSUME NoTaskAssumption == NoTask \notin Tasks

VARIABLES w_buf, w_head, w_tail, w_overflow, w_consumer, loaded, item, w_delivered,
          count, macro, w_state, w_current, step, stage,
          queue, state, pc, event, row, current, accepted, dispatched,
          channel  \* the one that is used

Work == INSTANCE DeferredWork WITH
            buf <- w_buf, head <- w_head, tail <- w_tail, overflow <- w_overflow,
            consumer <- w_consumer, delivered <- w_delivered,
            state <- w_state, current <- w_current
Object == INSTANCE ActiveObject

work_vars == <<w_buf, w_head, w_tail, w_overflow, w_consumer, loaded, item, w_delivered,
               count, macro, w_state, w_current, step, stage>>
object_vars == <<queue, state, pc, event, row, current, accepted, dispatched>>
all_vars == <<vars, work_vars, object_vars, channel>>

AllInit == Init /\ Work!Init /\ Object!Init /\ channel \in {"mailbox", "work", "object"}

Used(c) == channel = c /\ UNCHANGED channel
UseMailbox == Used("mailbox") /\ Next /\ UNCHANGED <<work_vars, object_vars>>
UseWork(step_of) == Used("work") /\ step_of /\ UNCHANGED <<vars, object_vars>>
UseObject(step_of) == Used("object") /\ step_of /\ UNCHANGED <<vars, work_vars>>

AllNext == UseMailbox \/ UseWork(Work!Next) \/ UseObject(Object!Next)

\* The fairness of DeferredWork and of ActiveObject.
AllSpec == /\ AllInit /\ [][AllNext]_all_vars
           /\ WF_all_vars(UseWork(Work!Runs) \/ UseObject(Object!Processor))
           /\ SF_all_vars(UseWork(Work!Asks))
-----------------------------------------------------------------------------
(* The properties of the instances.  Those of Mailbox keep their names. *)

\* While there is work in the queue there is a token for it, or the task is about to look
\* again.
WorkHasToken == Work!WorkHasToken
\* No task takes a token that is not there.
NeverOverdrawn == Work!NeverOverdrawn
\* The items the queue accepted are run in order, each of them once.
WorkIsFifo == Work!IsFifo
\* Work that was accepted is run in the end, unless every task sleeps in PT_SEM_BLOCK.
AcceptedRuns == Work!AcceptedRuns
\* The active object never sleeps on an event.
NoStrandedEvent == Object!NoStrandedEvent
\* An event that was accepted is dispatched in the end.
AcceptedIsDispatched == Object!AcceptedIsDispatched
=============================================================================
