------------------------------- MODULE Mailbox -------------------------------
(***************************************************************************)
(* SYN_Mailbox (sched/syn_mailbox.h), and SYN_SPSC_Queue, which has the    *)
(* same indices and the same order of accesses (util/syn_spsc_queue.c).    *)
(*                                                                         *)
(* One producer (an ISR, a task or the other core) and one consumer share  *)
(* a ring of Capacity slots, one of which stays empty.  Neither side locks *)
(* anything: the producer alone stores head, the consumer alone stores     *)
(* tail.  Every load or store of an index is a step of its own, and so are *)
(* the two ends of a memcpy, since the other side runs in between.  The    *)
(* acquire and release barriers make the steps happen in program order.    *)
(***************************************************************************)
EXTENDS Naturals, Sequences

CONSTANTS Msgs,          \* the messages that can be posted
          Capacity,      \* slots of the ring, the reserved one included
          OverflowWrap,  \* overflow is counted modulo this (2^32 in the code)
          Torn           \* contents of a slot, or result, caught half copied

ASSUME CapacityAssumption == Capacity \in Nat \ {0}
ASSUME OverflowAssumption == OverflowWrap \in Nat \ {0}
ASSUME TornAssumption == Torn \notin Msgs

VARIABLES buf,           \* slot contents
          head,          \* next slot to write; stored by the producer
          tail,          \* next slot to read; stored by the consumer
          overflow,      \* messages dropped because the ring was full
          producer,      \* where the producer is in syn_mailbox_post
          posting,       \* the message it is posting
          promised,      \* free slots syn_mailbox_free told the producer of
          consumer,      \* where the consumer is
          copied,        \* what receive has copied out so far
          seen,          \* the head a flush has loaded
          waiting,       \* messages syn_mailbox_pending told the consumer of
          delivered      \* the last message receive returned

pvars == <<producer, posting, promised>>
cvars == <<consumer, copied, seen, waiting, delivered>>
vars == <<buf, head, tail, overflow, pvars, cvars>>

Slots == 0 .. Capacity - 1

Advance(i) == IF i + 1 >= Capacity THEN 0 ELSE i + 1

\* Messages between a tail and a head.
Count(t, h) == IF h >= t THEN h - t ELSE Capacity - t + h

Pending == Count(tail, head)

Init == /\ buf = [i \in Slots |-> Torn]
        /\ head = 0 /\ tail = 0 /\ overflow = 0
        /\ producer = "idle" /\ posting = Torn /\ promised = 0
        /\ consumer = "idle" /\ copied = Torn /\ seen = 0 /\ waiting = 0
        /\ delivered = Torn
-----------------------------------------------------------------------------
(* The producer. *)

\* syn_mailbox_post finds the ring full: the message is counted and dropped.
PostFull == /\ producer = "idle"
            /\ Advance(head) = tail
            /\ overflow' = (overflow + 1) % OverflowWrap
            /\ UNCHANGED <<buf, head, tail, pvars, cvars>>

\* Mutant: posts without looking at tail.
PostBeginBlind(m) == /\ producer = "idle"
                     /\ producer' = "copying"
                     /\ posting' = m
                     /\ promised' = IF promised = 0 THEN 0 ELSE promised - 1
                     /\ UNCHANGED <<buf, head, tail, overflow, cvars>>

\* syn_mailbox_post finds room, by one load of tail.
PostBegin(m) == /\ producer = "idle"
                /\ Advance(head) # tail
                /\ producer' = "copying"
                /\ posting' = m
                /\ promised' = IF promised = 0 THEN 0 ELSE promised - 1
                /\ UNCHANGED <<buf, head, tail, overflow, cvars>>

\* memcpy into the slot at head: until it is over the slot is neither message.
PostCopy == /\ producer = "copying"
            /\ buf' = [buf EXCEPT ![head] = Torn]
            /\ producer' = "half"
            /\ UNCHANGED <<head, tail, overflow, posting, promised, cvars>>

PostCopied == /\ producer = "half"
              /\ buf' = [buf EXCEPT ![head] = posting]
              /\ producer' = "copied"
              /\ UNCHANGED <<head, tail, overflow, posting, promised, cvars>>

\* The store of head that hands the message over.
PostPublish == /\ producer = "copied"
               /\ head' = Advance(head)
               /\ producer' = "idle"
               /\ posting' = Torn
               /\ UNCHANGED <<buf, tail, overflow, promised, cvars>>

\* Mutant: the reserved slot is counted as free.
FreeAll == /\ producer = "idle"
           /\ promised' = Capacity - Pending
           /\ UNCHANGED <<buf, head, tail, overflow, producer, posting, cvars>>

\* syn_mailbox_free, asked by the producer: head is its own, tail is loaded.
Free == /\ producer = "idle"
        /\ promised' = Capacity - 1 - Pending
        /\ UNCHANGED <<buf, head, tail, overflow, producer, posting, cvars>>
-----------------------------------------------------------------------------
(* The consumer. *)

\* syn_mailbox_receive loads head and finds a message.
ReceiveBegin == /\ consumer \in {"idle", "peeked"}
                /\ tail # head
                /\ consumer' = "copying"
                /\ waiting' = IF waiting = 0 THEN 0 ELSE waiting - 1
                /\ UNCHANGED <<buf, head, tail, overflow, pvars, copied, seen, delivered>>

\* memcpy out of the slot at tail; the whole is good only if the slot held
\* still from the first byte to the last.
ReceiveCopy == /\ consumer = "copying"
               /\ copied' = buf[tail]
               /\ consumer' = "half"
               /\ UNCHANGED <<buf, head, tail, overflow, pvars, seen, waiting, delivered>>

ReceiveCopied == /\ consumer = "half"
                 /\ copied' = IF buf[tail] = copied THEN copied ELSE Torn
                 /\ consumer' = "copied"
                 /\ UNCHANGED <<buf, head, tail, overflow, pvars, seen, waiting, delivered>>

\* Mutant: the slot is not given back, and its message comes again.
ReceiveReleaseKeeps == /\ consumer = "copied"
                       /\ delivered' = copied
                       /\ copied' = Torn
                       /\ consumer' = "idle"
                       /\ UNCHANGED <<buf, head, tail, overflow, pvars, seen, waiting>>

\* The store of tail that gives the slot back.
ReceiveRelease == /\ consumer = "copied"
                  /\ tail' = Advance(tail)
                  /\ delivered' = copied
                  /\ copied' = Torn
                  /\ consumer' = "idle"
                  /\ UNCHANGED <<buf, head, overflow, pvars, seen, waiting>>

\* syn_mailbox_peek hands out a pointer into the ring.
Peek == /\ consumer = "idle"
        /\ head # tail
        /\ consumer' = "peeked"
        /\ UNCHANGED <<buf, head, tail, overflow, pvars, copied, seen, waiting, delivered>>

\* syn_mailbox_flush loads head, and only then stores it to tail.
FlushLoad == /\ consumer \in {"idle", "peeked"}
             /\ seen' = head
             /\ consumer' = "flushing"
             /\ UNCHANGED <<buf, head, tail, overflow, pvars, copied, waiting, delivered>>

FlushStore == /\ consumer = "flushing"
              /\ tail' = seen
              /\ seen' = 0
              /\ waiting' = 0
              /\ consumer' = "idle"
              /\ UNCHANGED <<buf, head, overflow, pvars, copied, delivered>>

\* syn_mailbox_pending, asked by the consumer.
AskPending == /\ consumer \in {"idle", "peeked"}
              /\ waiting' = Pending
              /\ UNCHANGED <<buf, head, tail, overflow, pvars, consumer, copied, seen, delivered>>
-----------------------------------------------------------------------------
Produce == \/ PostFull
           \/ \E m \in Msgs : PostBegin(m)
           \/ PostCopy \/ PostCopied \/ PostPublish
           \/ Free

Consume == \/ ReceiveBegin \/ ReceiveCopy \/ ReceiveCopied \/ ReceiveRelease
           \/ Peek \/ FlushLoad \/ FlushStore \/ AskPending

Next == Produce \/ Consume

Spec == Init /\ [][Next]_vars
-----------------------------------------------------------------------------
(* Properties. *)

TypeOK == /\ buf \in [Slots -> Msgs \cup {Torn}]
          /\ head \in Slots /\ tail \in Slots
          /\ overflow \in 0 .. OverflowWrap - 1
          /\ producer \in {"idle", "copying", "half", "copied"}
          /\ posting \in Msgs \cup {Torn}
          /\ promised \in 0 .. Capacity - 1
          /\ consumer \in {"idle", "peeked", "copying", "half", "copied", "flushing"}
          /\ copied \in Msgs \cup {Torn}
          /\ seen \in Slots
          /\ waiting \in 0 .. Capacity - 1
          /\ delivered \in Msgs \cup {Torn}

\* What receive returns is one message, whole: the memcpy out of a slot never
\* overlaps a memcpy into it, though neither side holds a lock.
NoTornMessage == consumer = "copied" => copied \in Msgs

\* A pointer returned by syn_mailbox_peek stays good until the consumer itself
\* gives the slot back, whatever the producer posts meanwhile.
PeekStable == [][consumer = "peeked" => /\ buf[tail] \in Msgs
                                        /\ buf'[tail] = buf[tail]]_vars

\* A producer told by syn_mailbox_free of n free slots can post n messages, and a
\* consumer told by syn_mailbox_pending of n messages can receive n: the answers may
\* be out of date, but only on the safe side.
CountIsPromise ==
    /\ producer = "idle" /\ promised > 0 => Advance(head) # tail
    /\ consumer \in {"idle", "peeked"} /\ waiting > 0 => tail # head

\* Slot i holds a message: it lies from tail up to, not including, head.
Occupied(i) == IF head >= tail THEN tail <= i /\ i < head
                               ELSE tail <= i \/ i < head

(* What the two sides may rely on at each point of their code.  IndInv is the *)
(* inductive invariant behind NoTornMessage, the promises and IsFifo.         *)
ProducerInv ==
    /\ producer # "idle" => Advance(head) # tail /\ posting \in Msgs
    /\ producer = "copied" => buf[head] = posting
    /\ promised + Pending + (IF producer = "idle" THEN 0 ELSE 1) =< Capacity - 1

ConsumerInv ==
    /\ consumer \in {"peeked", "copying", "half", "copied"} => tail # head
    /\ consumer \in {"half", "copied"} => copied = buf[tail]
    /\ consumer = "flushing" => Count(tail, seen) =< Pending
    /\ waiting + (IF consumer \in {"copying", "half", "copied"} THEN 1 ELSE 0)
         =< Pending

RingInv == \A i \in Slots : Occupied(i) => buf[i] \in Msgs

IndInv == TypeOK /\ ProducerInv /\ ConsumerInv /\ RingInv

\* The messages between tail and head, oldest first.
Contents == [i \in 1 .. Pending |->
                buf[IF tail + i - 1 >= Capacity THEN tail + i - 1 - Capacity
                                                ELSE tail + i - 1]]

Fifo == INSTANCE BoundedFifo WITH Depth <- Capacity - 1, queue <- Contents

\* The ring is a first-in first-out queue of Capacity - 1 messages: post and
\* receive take effect at their store of an index, and nothing else does.
IsFifo == Fifo!Spec
=============================================================================
