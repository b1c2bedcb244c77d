---------------------------- MODULE ActiveObject ----------------------------
(***************************************************************************)
(* An active object (sched/syn_ao.c): a task that sleeps in                *)
(* PT_BLOCK_CONDITION until its mailbox holds an event, and hands the      *)
(* events one by one to a table-driven state machine (util/syn_fsm.c).     *)
(*                                                                         *)
(* Interrupts, other tasks and the object's own callbacks post events.     *)
(* syn_ao_post holds a critical section, so a post is one step; the        *)
(* object's task can be interrupted between any two steps.  The mailbox is *)
(* the queue that module Mailbox is proved to implement.                   *)
(***************************************************************************)
EXTENDS Naturals, Sequences

CONSTANTS Signals,       \* what events can say
          Depth,         \* events the mailbox holds
          Rows,          \* the transition table: [from, event, to, guarded]
          InitialState,
          MaxPosts       \* bound: events posted in a behaviour

VARIABLES queue,         \* ao->mailbox
          state,         \* ao->task.state
          pc,            \* where the protothread is
          event,         \* the event being handled
          row,           \* the row that matched it; 0: none
          current,       \* ao->fsm.current
          \* history
          accepted,      \* number of events syn_ao_post said it had queued
          dispatched     \* number of events given to the state machine

fsm_vars == <<event, row, current, dispatched>>
vars == <<queue, state, pc, accepted, fsm_vars>>

Init == /\ queue = <<>> /\ state = "READY" /\ pc = "block"
        /\ event = 0 /\ row = 0
        /\ current = InitialState
        /\ accepted = 0 /\ dispatched = 0
-----------------------------------------------------------------------------
(* syn_ao_pt_run *)

\* The scheduler runs the task, which goes on after its PT_YIELD.
Run == /\ pc = "out" /\ state = "READY"
       /\ pc' = "block"
       /\ UNCHANGED <<queue, state, accepted, fsm_vars>>

Block == /\ pc = "block"
         /\ state' = "BLOCKED"
         /\ pc' = "check"
         /\ UNCHANGED <<queue, accepted, fsm_vars>>

CheckEmpty == /\ pc = "check" /\ queue = <<>>
              /\ pc' = "yield"
              /\ UNCHANGED <<queue, state, accepted, fsm_vars>>

CheckNotEmpty == /\ pc = "check" /\ queue # <<>>
                 /\ state' = "READY"
                 /\ pc' = "receive"
                 /\ UNCHANGED <<queue, accepted, fsm_vars>>

\* Mutant of Yield: the task is marked BLOCKED after the check.
YieldBlocks == /\ pc = "yield"
               /\ pc' = "out" /\ state' = "BLOCKED"
               /\ UNCHANGED <<queue, accepted, fsm_vars>>

Yield == /\ pc = "yield"
         /\ pc' = "out"
         /\ UNCHANGED <<queue, state, accepted, fsm_vars>>

\* syn_mailbox_receive: only this task takes events out, so there is one.
Receive == /\ pc = "receive"
           /\ event' = Head(queue) /\ queue' = Tail(queue)
           /\ dispatched' = dispatched + 1
           /\ pc' = "match"
           /\ UNCHANGED <<state, accepted, row, current>>
-----------------------------------------------------------------------------
(* syn_fsm_dispatch *)

Matching == {i \in DOMAIN Rows : Rows[i].from = current /\ Rows[i].event = event}

\* The first row whose guard, if it has one, is true; any guard may be false.
Match(i) == /\ pc = "match" /\ i \in Matching
            /\ \A j \in Matching : j < i => Rows[j].guarded
            /\ row' = i
            /\ pc' = "exit"
            /\ UNCHANGED <<queue, state, accepted, event, current, dispatched>>

\* Mutant of NoMatch: the table is searched again.
NoMatchStays == /\ pc = "match"
                /\ \A j \in Matching : Rows[j].guarded
                /\ UNCHANGED vars

NoMatch == /\ pc = "match"
           /\ \A j \in Matching : Rows[j].guarded
           /\ event' = 0
           /\ pc' = "block"
           /\ UNCHANGED <<queue, state, accepted, row, current, dispatched>>

\* on_exit of the old state.
FireExit == /\ pc = "exit"
            /\ pc' = "action"
            /\ UNCHANGED <<queue, state, accepted, event, row, current, dispatched>>

\* The transition's action, after which the new state is recorded.
Action == /\ pc = "action"
          /\ current' = Rows[row].to
          /\ pc' = "enter"
          /\ UNCHANGED <<queue, state, accepted, event, row, dispatched>>

\* on_enter of the new state; then back to PT_BLOCK_CONDITION, without a yield.
FireEnter == /\ pc = "enter"
             /\ event' = 0 /\ row' = 0
             /\ pc' = "block"
             /\ UNCHANGED <<queue, state, accepted, current, dispatched>>
-----------------------------------------------------------------------------
(* syn_ao_post, between any two steps: from an interrupt, or a callback.     *)
(* A full mailbox refuses the event and counts it (Mailbox, PostFull).       *)

Post(s) == /\ accepted < MaxPosts
           /\ Len(queue) < Depth
           /\ queue' = Append(queue, s)
           /\ accepted' = accepted + 1
           /\ state' = IF state = "BLOCKED" THEN "READY" ELSE state
           /\ UNCHANGED <<pc, fsm_vars>>

\* Other tasks suspend and resume the object.
Suspend == /\ pc = "out"
           /\ state' = "SUSPENDED"
           /\ UNCHANGED <<queue, pc, accepted, fsm_vars>>

Resume == /\ pc = "out" /\ state \in {"SUSPENDED", "BLOCKED"}
          /\ state' = "READY"
          /\ UNCHANGED <<queue, pc, accepted, fsm_vars>>
-----------------------------------------------------------------------------
Processor == \/ Run \/ Block \/ CheckEmpty \/ CheckNotEmpty \/ Yield \/ Receive
             \/ \E i \in DOMAIN Rows : Match(i)
             \/ NoMatch \/ FireExit \/ Action \/ FireEnter

Next == Processor \/ (\E s \in Signals : Post(s)) \/ Suspend \/ Resume

\* A ready task is run in the end (Sched, ReadyRuns), and callbacks return.
Spec == Init /\ [][Next]_vars /\ WF_vars(Processor)
-----------------------------------------------------------------------------
(* Properties. *)

TypeOK == /\ queue \in Seq(Signals) /\ Len(queue) <= Depth
          /\ state \in {"READY", "BLOCKED", "SUSPENDED"}
          /\ pc \in {"out", "block", "check", "yield", "receive", "match", "exit", "action", "enter"}
          /\ event \in Signals \cup {0} /\ row \in DOMAIN Rows \cup {0}
          /\ \/ current = InitialState
             \/ \E i \in DOMAIN Rows : current = Rows[i].to

\* The object never sleeps on an event: a post that falls anywhere between its
\* look at the mailbox and its yield still makes it ready.
NoStrandedEvent == pc = "out" /\ state = "BLOCKED" => queue = <<>>

\* An event that was accepted is dispatched in the end, unless the object is
\* suspended again and again.
AcceptedIsDispatched == \A n \in 1 .. MaxPosts :
    accepted >= n ~> (dispatched >= n \/ state = "SUSPENDED")
-----------------------------------------------------------------------------
(* The inductive invariant behind NoStrandedEvent: the task is BLOCKED with    *)
(* events waiting only while it is about to look for them.                     *)
IndInv == /\ state = "BLOCKED" => pc \in {"check", "yield", "out"}
          /\ state = "BLOCKED" /\ pc # "check" => queue = <<>>
=============================================================================
