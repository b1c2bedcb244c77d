------------------------------ MODULE WorkQueue ------------------------------
(***************************************************************************)
(* The deferred work queue (sched/syn_workqueue.c) on the single-producer  *)
(* single-consumer ring (util/syn_spsc_queue.c).                           *)
(*                                                                         *)
(* Interrupts, tasks and the work functions themselves all post, so a post *)
(* is a critical section around the push: one step.  The main loop drains  *)
(* the queue with no critical section: each load, copy and store of a pop  *)
(* is a step of its own that posts may come between.                       *)
(***************************************************************************)
EXTENDS Naturals

CONSTANTS Items,          \* what can be posted: a function and its context
          NoItem,         \* a zeroed slot
          Capacity,       \* slots of the ring
          OverflowWrap    \* overflow is an unsigned counter: it wraps

VARIABLES buf, head, tail,    \* the ring
          overflow,           \* posts refused
          consumer,           \* where syn_workqueue_process is
          loaded,             \* the head the pop has loaded
          item,               \* what it has copied out
          delivered           \* history: the last item run

ring == <<buf, head, tail, overflow>>
cvars == <<consumer, loaded, item, delivered>>
vars == <<ring, cvars>>

Slots == 0 .. Capacity - 1

\* spsc_advance
Advance(i) == IF i + 1 >= Capacity THEN 0 ELSE i + 1

\* syn_spsc_queue_count
Count == IF head >= tail THEN head - tail ELSE Capacity - (tail - head)

Init == /\ buf = [i \in Slots |-> NoItem]
        /\ head = 0 /\ tail = 0 /\ overflow = 0
        /\ consumer = "idle" /\ loaded = 0 /\ item = NoItem /\ delivered = NoItem
-----------------------------------------------------------------------------
(* Anyone: syn_workqueue_post. *)

Full == Advance(head) = tail

\* Mutant of Post: the index is published before the item is in the slot.
PostEarly(i) == /\ ~Full
                /\ buf' = [buf EXCEPT ![Advance(head)] = i]
                /\ head' = Advance(head)
                /\ UNCHANGED <<tail, overflow, cvars>>

Post(i) == /\ ~Full
           /\ buf' = [buf EXCEPT ![head] = i]
           /\ head' = Advance(head)
           /\ UNCHANGED <<tail, overflow, cvars>>

PostFull == /\ Full
            /\ overflow' = (overflow + 1) % OverflowWrap
            /\ UNCHANGED <<buf, head, tail, cvars>>
-----------------------------------------------------------------------------
(* The main loop: syn_workqueue_process and the syn_spsc_queue_pop in it. *)

\* Mutant of Load: the head is not loaded anew.
LoadCached == /\ consumer = "idle"
              /\ consumer' = "loaded"
              /\ UNCHANGED <<ring, loaded, item, delivered>>

Load == /\ consumer = "idle"
        /\ loaded' = head /\ consumer' = "loaded"
        /\ UNCHANGED <<ring, item, delivered>>

\* The ring was empty: process returns, to be called again.
Empty == /\ consumer = "loaded" /\ loaded = tail
         /\ consumer' = "idle"
         /\ UNCHANGED <<ring, loaded, item, delivered>>

Copy == /\ consumer = "loaded" /\ loaded # tail
        /\ item' = buf[tail] /\ consumer' = "copied"
        /\ UNCHANGED <<ring, loaded, delivered>>

Release == /\ consumer = "copied"
           /\ tail' = Advance(tail) /\ consumer' = "run"
           /\ delivered' = item
           /\ UNCHANGED <<buf, head, overflow, loaded, item>>

\* The function returns, and process pops again; meanwhile it may post.
Ran == /\ consumer = "run"
       /\ consumer' = "idle"
       /\ UNCHANGED <<ring, loaded, item, delivered>>

Process == Load \/ Empty \/ Copy \/ Release \/ Ran
Next == Process \/ PostFull \/ \E i \in Items : Post(i)

Spec == Init /\ [][Next]_vars
-----------------------------------------------------------------------------
(* Properties. *)

TypeOK == /\ buf \in [Slots -> Items \cup {NoItem}]
          /\ head \in Slots /\ tail \in Slots /\ loaded \in Slots
          /\ overflow \in 0 .. OverflowWrap - 1
          /\ consumer \in {"idle", "loaded", "copied", "run"}
          /\ item \in Items \cup {NoItem} /\ delivered \in Items \cup {NoItem}

\* The items between tail and head, oldest first.
Contents == [k \in 1 .. Count |->
                buf[IF tail + k - 1 >= Capacity THEN tail + k - 1 - Capacity
                                                ELSE tail + k - 1]]

Fifo == INSTANCE BoundedFifo WITH Msgs <- Items, Depth <- Capacity - 1, queue <- Contents

\* Whoever posts and whenever, the items accepted are run in the order they were
\* accepted, each of them once, and Capacity - 1 can wait at a time.
IsFifo == Fifo!Spec
-----------------------------------------------------------------------------
(* The inductive invariant behind IsFifo: the slots from tail up to head hold *)
(* items; the head a pop has loaded is one of the places between them, and    *)
(* what it has copied is the oldest item.                                     *)
Occupied(i) == IF head >= tail THEN tail <= i /\ i < head
                               ELSE tail <= i \/ i < head

QueueInv == /\ TypeOK
            /\ \A i \in Slots : Occupied(i) => buf[i] \in Items
            /\ consumer = "loaded" => loaded = tail \/ loaded = head \/ Occupied(loaded)
            /\ consumer = "copied" => head # tail /\ item = buf[tail]
=============================================================================
