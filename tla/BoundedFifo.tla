---------------------------- MODULE BoundedFifo ----------------------------
(***************************************************************************)
(* What every single-producer single-consumer queue of the system promises *)
(* its two sides, with no slot, index or copy in sight: a first-in         *)
(* first-out queue of at most Depth messages.                              *)
(***************************************************************************)
EXTENDS Naturals, Sequences

CONSTANTS Msgs,         \* the messages that can be posted
          Depth         \* how many of them the queue holds

VARIABLES queue,        \* messages posted and not yet received, oldest first
          delivered     \* the last message the consumer was handed

vars == <<queue, delivered>>

\* The producer's message enters at the back, if there is room for it.
Enqueue == /\ Len(queue) < Depth
           /\ \E m \in Msgs : queue' = Append(queue, m)
           /\ UNCHANGED delivered

\* The consumer is handed the oldest message.
Dequeue == /\ queue # <<>>
           /\ queue' = Tail(queue)
           /\ delivered' = Head(queue)

\* The consumer drops the oldest messages (a flush drops those it has seen).
Discard == /\ \E k \in 1..Len(queue) : queue' = SubSeq(queue, k + 1, Len(queue))
           /\ UNCHANGED delivered

Init == queue = <<>> /\ delivered \notin Msgs

Next == Enqueue \/ Dequeue \/ Discard

Spec == Init /\ [][Next]_vars
=============================================================================
