--------------------------- MODULE ChannelsProofs ---------------------------
(***************************************************************************)
(* The three channels are correct for every capacity, every set of         *)
(* messages, items and signals, every transition table, any number of      *)
(* tasks and every interleaving of the two sides: the mailbox (Spec), the  *)
(* work queue and its semaphore (Work) and the active object (Object).     *)
(***************************************************************************)
EXTENDS Channels, Integers, TLAPS
-----------------------------------------------------------------------------
(* The operators of Sequences, as functions on indices. *)

LEMMA AppendAsFunction ==
  ASSUME NEW S, NEW s \in Seq(S), NEW e \in S
  PROVE  Append(s, e) = [i \in 1 .. Len(s) + 1 |-> IF i = Len(s) + 1 THEN e ELSE s[i]]
  <1> DEFINE t == Append(s, e)
  <1>1. /\ t \in Seq(S) /\ Len(t) = Len(s) + 1
        /\ \A i \in 1 .. Len(s) : t[i] = s[i]
        /\ t[Len(s) + 1] = e
    <2>1. t \in Seq(S) /\ Len(t) = Len(s) + 1
      OBVIOUS
    <2>2. \A i \in 1 .. Len(s) : t[i] = s[i]
      OBVIOUS
    <2>3. t[Len(s) + 1] = e
      OBVIOUS
    <2> QED
      BY <2>1, <2>2, <2>3, Zenon
  <1>2. Len(s) \in Nat
    OBVIOUS
  <1> HIDE DEF t
  <1>3. t \in [1 .. Len(t) -> S]
    BY <1>1
  <1>4. t = [i \in 1 .. Len(s) + 1 |-> IF i = Len(s) + 1 THEN e ELSE s[i]]
    BY <1>1, <1>2, <1>3
  <1> QED
    BY <1>4, Zenon DEF t

LEMMA TailAsFunction ==
  ASSUME NEW S, NEW s \in Seq(S), s # << >>
  PROVE  Tail(s) = [i \in 1 .. Len(s) - 1 |-> s[i + 1]]
  <1> DEFINE t == Tail(s)
  <1>1. t \in Seq(S) /\ Len(t) = Len(s) - 1 /\ Len(s) \in Nat
    OBVIOUS
  <1>2. \A i \in 1 .. Len(s) - 1 : t[i] = s[i + 1]
    OBVIOUS
  <1> HIDE DEF t
  <1>3. t \in [1 .. Len(t) -> S]
    BY <1>1
  <1>4. t = [i \in 1 .. Len(s) - 1 |-> s[i + 1]]
    BY <1>1, <1>2, <1>3, Zenon
  <1> QED
    BY <1>4, Zenon DEF t

LEMMA SuffixAsFunction ==
  ASSUME NEW S, NEW s \in Seq(S), NEW k \in 1 .. Len(s)
  PROVE  SubSeq(s, k + 1, Len(s)) = [i \in 1 .. Len(s) - k |-> s[i + k]]
  <1> DEFINE t == SubSeq(s, k + 1, Len(s))
  <1>1. Len(s) \in Nat /\ \A i \in k + 1 .. Len(s) : s[i] \in S
    OBVIOUS
  <1>2. /\ t \in Seq(S) /\ Len(t) = Len(s) - k
        /\ \A i \in 1 .. Len(s) - k : t[i] = s[i + k]
    <2>1. /\ t \in Seq(S)
          /\ Len(t) = IF k + 1 <= Len(s) THEN Len(s) - (k + 1) + 1 ELSE 0
          /\ \A i \in 1 .. Len(s) - (k + 1) + 1 : t[i] = s[k + 1 + i - 1]
      BY <1>1
    <2> HIDE DEF t
    <2> QED
      BY <1>1, <2>1
  <1> HIDE DEF t
  <1>3. t \in [1 .. Len(t) -> S]
    BY <1>2
  <1>4. t = [i \in 1 .. Len(s) - k |-> s[i + k]]
    BY <1>1, <1>2, <1>3, Zenon
  <1> QED
    BY <1>4, Zenon DEF t

-----------------------------------------------------------------------------
(* The mailbox. *)

\* The initial state: an empty ring and two idle sides.
LEMMA MailboxInit == Init => IndInv
  BY CapacityAssumption, OverflowAssumption
  DEF Init, IndInv, TypeOK, ProducerInv, ConsumerInv, RingInv, Slots, Pending,
      Count, Occupied

\* Every step of the producer keeps the invariant: the consumer can only make
\* room, so the slot at head stays outside the occupied part of the ring.
LEMMA ProduceIndInv == IndInv /\ Produce => IndInv'
  <1> SUFFICES ASSUME IndInv, Produce PROVE IndInv'
    BY Zenon
  <1> USE CapacityAssumption, OverflowAssumption, TornAssumption
      DEF IndInv, TypeOK, ProducerInv, ConsumerInv, RingInv, Slots, Pending,
          Count, Occupied, Advance, pvars, cvars
  <1>1. CASE PostFull
    BY <1>1 DEF PostFull
  <1>2. ASSUME NEW m \in Msgs, PostBegin(m) PROVE IndInv'
    BY <1>2 DEF PostBegin
  <1>3. CASE PostCopy
    BY <1>3 DEF PostCopy
  <1>4. CASE PostCopied
    BY <1>4, Zenon DEF PostCopied
  <1>5. CASE PostPublish
    BY <1>5 DEF PostPublish
  <1>6. CASE Free
    BY SMTT(30), <1>6 DEF Free
  <1> QED
    BY <1>1, <1>2, <1>3, <1>4, <1>5, <1>6, Zenon DEF Produce

\* Every step of the consumer keeps the invariant: tail never passes head.
LEMMA ConsumeIndInv == IndInv /\ Consume => IndInv'
  <1> SUFFICES ASSUME IndInv, Consume PROVE IndInv'
    OBVIOUS
  <1> USE CapacityAssumption, OverflowAssumption, TornAssumption
      DEF IndInv, TypeOK, ProducerInv, ConsumerInv, RingInv, Slots, Pending,
          Count, Occupied, Advance, pvars, cvars
  <1>1. CASE ReceiveBegin
    BY <1>1 DEF ReceiveBegin
  <1>2. CASE ReceiveCopy
    BY <1>2, Zenon DEF ReceiveCopy
  <1>3. CASE ReceiveCopied
    BY <1>3, Zenon DEF ReceiveCopied
  <1>4. CASE ReceiveRelease
    BY <1>4 DEF ReceiveRelease
  <1>5. CASE Peek
    BY <1>5, Zenon DEF Peek
  <1>6. CASE FlushLoad
    BY <1>6 DEF FlushLoad
  <1>7. CASE FlushStore
    BY <1>7 DEF FlushStore
  <1>8. CASE AskPending
    BY <1>8 DEF AskPending
  <1> QED
    BY <1>1, <1>2, <1>3, <1>4, <1>5, <1>6, <1>7, <1>8, Zenon DEF Consume

\* The inductive invariant of the two sides of syn_mailbox_post and
\* syn_mailbox_receive.
THEOREM MailboxInvariance == Spec => []IndInv
  <1>1. IndInv /\ UNCHANGED vars => IndInv'
    BY Zenon DEF IndInv, TypeOK, ProducerInv, ConsumerInv, RingInv, Pending,
           Occupied, vars, pvars, cvars
  <1>2. IndInv /\ [Next]_vars => IndInv'
    BY <1>1, ProduceIndInv, ConsumeIndInv, Zenon DEF Next
  <1> QED
    BY MailboxInit, <1>2, PTL DEF Spec

\* The indices stay inside the ring and the counters inside their ranges.
THEOREM MailboxTypes == Spec => []TypeOK
  <1>1. IndInv => TypeOK
    BY Zenon DEF IndInv
  <1> QED
    BY MailboxInvariance, <1>1, PTL

\* syn_mailbox_receive returns whole messages only, although neither its memcpy
\* nor that of syn_mailbox_post is atomic.
THEOREM WholeMessages == Spec => []NoTornMessage
  <1>1. IndInv => NoTornMessage
    BY CapacityAssumption
    DEF IndInv, TypeOK, ConsumerInv, RingInv, NoTornMessage, Occupied, Slots
  <1> QED
    BY MailboxInvariance, <1>1, PTL

\* The answers of syn_mailbox_free and syn_mailbox_pending are promises to the
\* side that asked.
THEOREM Promises == Spec => []CountIsPromise
  <1>1. IndInv => CountIsPromise
    BY CapacityAssumption
    DEF IndInv, TypeOK, ProducerInv, ConsumerInv, CountIsPromise, Pending, Count,
        Advance, Slots
  <1> QED
    BY MailboxInvariance, <1>1, PTL

\* What syn_mailbox_peek points at does not change under the consumer.
THEOREM PeekedSlotHolds == Spec => PeekStable
  <1>1. IndInv /\ [Next]_vars =>
          [consumer = "peeked" => buf[tail] \in Msgs /\ buf'[tail] = buf[tail]]_vars
    BY CapacityAssumption
    DEF IndInv, TypeOK, ProducerInv, ConsumerInv, RingInv, Occupied, Slots,
        Advance, Next, Produce, Consume, PostFull, PostBegin, PostCopy,
        PostCopied, PostPublish, Free, ReceiveBegin, ReceiveCopy, ReceiveCopied,
        ReceiveRelease, Peek, FlushLoad, FlushStore, AskPending, vars
  <1> QED
    BY MailboxInvariance, <1>1, PTL DEF Spec, PeekStable

(* The ring implements a bounded first-in first-out queue. *)

\* The slot of the i-th message.
At(i) == IF tail + i - 1 >= Capacity THEN tail + i - 1 - Capacity ELSE tail + i - 1

\* The contents are a sequence of whole messages that fits the queue.
LEMMA ContentsType ==
  ASSUME IndInv
  PROVE  /\ Contents \in Seq(Msgs)
         /\ Len(Contents) = Pending
         /\ Pending \in 0 .. Capacity - 1
         /\ \A i \in 1 .. Pending : Contents[i] = buf[At(i)]
  <1> USE CapacityAssumption DEF IndInv, TypeOK, Slots, Pending, Count
  <1>1. Pending \in 0 .. Capacity - 1
    OBVIOUS
  <1>2. ASSUME NEW i \in 1 .. Pending PROVE buf[At(i)] \in Msgs
    BY <1>2 DEF At, RingInv, Occupied
  <1>3. Contents = [i \in 1 .. Pending |-> buf[At(i)]]
    BY Zenon DEF Contents, At
  <1>4. Contents \in Seq(Msgs)
    <2> HIDE DEF Pending
    <2> QED
      BY <1>1, <1>2, <1>3
  <1> QED
    <2> HIDE DEF Pending
    <2> QED
      BY <1>1, <1>3, <1>4

\* A step that leaves the ring alone, or writes outside the occupied slots,
\* leaves the queue as it is.
LEMMA ContentsKept ==
  ASSUME IndInv, head' = head, tail' = tail,
         \A i \in Slots : Occupied(i) => buf'[i] = buf[i]
  PROVE  Contents' = Contents
  <1>1. Pending' = Pending /\ Pending \in 0 .. Capacity - 1
    BY CapacityAssumption DEF Pending, Count, IndInv, TypeOK, Slots
  <1>2. ASSUME NEW i \in 1 .. Pending PROVE At(i) \in Slots /\ Occupied(At(i))
    BY <1>2, CapacityAssumption
    DEF At, Slots, Occupied, Pending, Count, IndInv, TypeOK
  <1>3. Contents = [i \in 1 .. Pending |-> buf[At(i)]]
    BY Zenon DEF Contents, At
  <1>4. Contents' = [i \in 1 .. Pending |-> buf'[At(i)]]
    BY <1>1, Zenon DEF Contents, At
  <1> QED
    BY <1>2, <1>3, <1>4, Zenon

\* The store of head appends the message that was copied in.
LEMMA PublishEnqueues == IndInv /\ PostPublish => Fifo!Enqueue
  <1> SUFFICES ASSUME IndInv, PostPublish PROVE Fifo!Enqueue
    BY Zenon
  <1> USE CapacityAssumption
  <1>1. /\ Pending \in 0 .. Capacity - 1 /\ Pending < Capacity - 1
        /\ Pending' = Pending + 1
        /\ At(Pending + 1) = head
        /\ tail' = tail /\ buf' = buf
        /\ buf[head] = posting /\ posting \in Msgs
    BY DEF IndInv, TypeOK, ProducerInv, PostPublish, Slots, Pending, Count, Advance, At
  <1>2. Contents' = [i \in 1 .. Pending + 1 |-> buf[At(i)]]
    BY <1>1, Zenon DEF Contents, At
  <1>3. Contents' = Append(Contents, posting)
    <2> DEFINE s == Append(Contents, posting)
    <2>1. Contents \in Seq(Msgs) /\ Len(Contents) = Pending
      BY ContentsType, Zenon
    <2>2. s = [i \in 1 .. Pending + 1 |->
                 IF i = Pending + 1 THEN posting ELSE Contents[i]]
      BY <1>1, <2>1, AppendAsFunction
    <2>3. \A i \in 1 .. Pending + 1 :
             buf[At(i)] = IF i = Pending + 1 THEN posting ELSE Contents[i]
      BY <1>1, ContentsType
    <2> QED
      BY <1>2, <2>2, <2>3, Zenon
  <1>4. delivered' = delivered
    BY Zenon DEF PostPublish, cvars
  <1> QED
    BY <1>1, <1>3, <1>4, ContentsType, Zenon DEF Fifo!Enqueue

\* The store of tail removes the oldest message, the one that was copied out.
LEMMA ReleaseDequeues == IndInv /\ ReceiveRelease => Fifo!Dequeue
  <1> SUFFICES ASSUME IndInv, ReceiveRelease PROVE Fifo!Dequeue
    OBVIOUS
  <1> USE CapacityAssumption
  <1>1. /\ Pending \in 1 .. Capacity - 1
        /\ Pending' = Pending - 1
        /\ At(1) = tail
        /\ head' = head /\ buf' = buf
        /\ delivered' = buf[tail]
    BY DEF IndInv, TypeOK, ConsumerInv, ReceiveRelease, Slots, Pending, Count, Advance, At
  <1>2. ASSUME NEW i \in 1 .. Pending - 1 PROVE At(i)' = At(i + 1)
    <2>1. tail \in 0 .. Capacity - 1 /\ i \in 1 .. Capacity - 2
      BY <1>1 DEF IndInv, TypeOK, Slots
    <2>2. tail' = IF tail + 1 >= Capacity THEN 0 ELSE tail + 1
      BY Zenon DEF ReceiveRelease, Advance
    <2> QED
      BY <2>1, <2>2 DEF At
  <1>3. Contents' = [i \in 1 .. Pending - 1 |-> buf[At(i)']]
    BY <1>1, Zenon DEF Contents, At
  <1>4. Contents' = [i \in 1 .. Pending - 1 |-> buf[At(i + 1)]]
    BY <1>2, <1>3, Zenon
  <1>5. /\ Contents # << >> /\ Head(Contents) = buf[tail]
        /\ Tail(Contents) = [i \in 1 .. Pending - 1 |-> buf[At(i + 1)]]
    <2>1. /\ Contents \in Seq(Msgs) /\ Len(Contents) = Pending /\ Contents # << >>
          /\ \A i \in 1 .. Pending : Contents[i] = buf[At(i)]
      BY <1>1, ContentsType
    <2>2. Head(Contents) = buf[tail]
      BY <1>1, <2>1
    <2>3. Tail(Contents) = [i \in 1 .. Pending - 1 |-> Contents[i + 1]]
      BY <2>1, TailAsFunction, Zenon
    <2> QED
      BY <1>1, <2>1, <2>2, <2>3
  <1> QED
    BY <1>1, <1>4, <1>5, Zenon DEF Fifo!Dequeue

\* The store of a loaded head to tail drops the messages before it.
LEMMA FlushDiscards == IndInv /\ FlushStore => Fifo!Discard \/ UNCHANGED Fifo!vars
  <1> SUFFICES ASSUME IndInv, FlushStore PROVE Fifo!Discard \/ UNCHANGED Fifo!vars
    BY Zenon
  <1> USE CapacityAssumption
  <1> DEFINE k == Count(tail, seen)
  <1>1. /\ Pending \in 0 .. Capacity - 1 /\ k \in 0 .. Pending
        /\ Pending' = Pending - k
        /\ head' = head /\ buf' = buf /\ delivered' = delivered
    BY DEF IndInv, TypeOK, ConsumerInv, FlushStore, Slots, Pending, Count
  <1>2. ASSUME NEW i \in 1 .. Pending - k PROVE At(i)' = At(i + k)
    BY <1>1, <1>2 DEF At, Count, Pending, FlushStore, IndInv, TypeOK, Slots
  <1>3. Contents' = [i \in 1 .. Pending - k |-> buf[At(i)']]
    BY <1>1, Zenon DEF Contents, At
  <1> HIDE DEF k
  <1>4. Contents' = [i \in 1 .. Pending - k |-> buf[At(i + k)]]
    BY <1>2, <1>3, Zenon
  <1>6. CASE k = 0
    <2>1. Contents = [i \in 1 .. Pending |-> buf[At(i)]]
      BY Zenon DEF Contents, At
    <2>2. Contents' = Contents
      BY <1>1, <1>4, <1>6, <2>1
    <2> QED
      BY <1>1, <2>2, Zenon DEF Fifo!vars
  <1>7. CASE k # 0
    <2>1. /\ Contents \in Seq(Msgs) /\ Len(Contents) = Pending
          /\ \A i \in 1 .. Pending : Contents[i] = buf[At(i)]
          /\ k \in 1 .. Len(Contents)
      BY <1>1, <1>7, ContentsType
    <2>2. SubSeq(Contents, k + 1, Len(Contents))
            = [i \in 1 .. Pending - k |-> Contents[i + k]]
      BY <2>1, SuffixAsFunction
    <2>3. SubSeq(Contents, k + 1, Len(Contents))
            = [i \in 1 .. Pending - k |-> buf[At(i + k)]]
      BY <1>1, <2>1, <2>2
    <2> QED
      BY <1>1, <1>4, <2>1, <2>3, Zenon DEF Fifo!Discard
  <1> QED
    BY <1>6, <1>7, Zenon

\* syn_mailbox_post, syn_mailbox_receive and syn_mailbox_flush implement a
\* bounded first-in first-out queue, for every capacity.
THEOREM MailboxRefinement == Spec => IsFifo
  <1>1. Init => Fifo!Init
    BY CapacityAssumption, TornAssumption
    DEF Init, Fifo!Init, Contents, Pending, Count
  <1>2. IndInv /\ [Next]_vars => [Fifo!Next]_(Fifo!vars)
    <2> SUFFICES ASSUME IndInv, [Next]_vars PROVE [Fifo!Next]_(Fifo!vars)
      BY Zenon
    <2>1. CASE PostPublish
      BY <2>1, PublishEnqueues, Zenon DEF Fifo!Next
    <2>2. CASE ReceiveRelease
      BY <2>2, ReleaseDequeues, Zenon DEF Fifo!Next
    <2>3. CASE FlushStore
      BY <2>3, FlushDiscards, Zenon DEF Fifo!Next
    <2>4. CASE PostCopy \/ PostCopied
      <3>1. /\ head' = head /\ tail' = tail /\ delivered' = delivered
            /\ \A i \in Slots : Occupied(i) => buf'[i] = buf[i]
        BY <2>4, CapacityAssumption
        DEF PostCopy, PostCopied, Occupied, Slots, IndInv, TypeOK, ProducerInv,
            Advance, cvars
      <3> QED
        BY <3>1, ContentsKept, Zenon DEF Fifo!vars
    <2>5. CASE \/ PostFull \/ (\E m \in Msgs : PostBegin(m)) \/ Free
               \/ ReceiveBegin \/ ReceiveCopy \/ ReceiveCopied \/ Peek
               \/ FlushLoad \/ AskPending \/ UNCHANGED vars
      <3>1. head' = head /\ tail' = tail /\ delivered' = delivered /\ buf' = buf
        BY <2>5, Zenon
           DEF PostFull, PostBegin, Free, ReceiveBegin, ReceiveCopy, ReceiveCopied,
            Peek, FlushLoad, AskPending, vars, cvars
      <3> QED
        BY <3>1, ContentsKept, Zenon DEF Fifo!vars
    <2> QED
      BY <2>1, <2>2, <2>3, <2>4, <2>5, Zenon DEF Next, Produce, Consume
  <1> QED
    BY <1>1, <1>2, MailboxInvariance, PTL DEF Spec, IsFifo, Fifo!Spec
-----------------------------------------------------------------------------
(* The work queue and the semaphore of the task that drains it. *)

\* The initial state of the queue, the semaphore and the task.
LEMMA WorkInit == Work!Init => Work!Queue!QueueInv /\ Work!TokenInv
  BY CapacityAssumption, OverflowAssumption
  DEF Work!Init, Work!Queue!Init, Work!Sem!Init, Work!Queue!QueueInv, Work!Queue!TypeOK,
      Work!Queue!Slots, Work!Queue!Occupied, Work!TokenInv, Work!WorkHasToken

\* A step of DeferredWork is a step of the work queue or leaves it alone.
LEMMA WorkStepsQueue == [Work!Next]_(Work!vars) => [Work!Queue!Next]_(Work!queue_vars)
  <1> SUFFICES ASSUME [Work!Next]_(Work!vars) PROVE [Work!Queue!Next]_(Work!queue_vars)
    BY Zenon
  <1>1. CASE Work!HandlerFull \/ \E i \in Items : Work!Handler(i)
    BY <1>1, Zenon DEF Work!HandlerFull, Work!Handler, Work!Queue!Next
  <1>2. CASE Work!Draining
    BY <1>2, Zenon DEF Work!Draining, Work!Queue!Next
  <1>3. CASE Work!Waiting \/ Work!Taking \/ Work!Polling \/ Work!Resuming
    BY <1>3, Zenon DEF Work!Waiting, Work!Taking, Work!Polling, Work!Resuming
  <1>4. CASE UNCHANGED Work!vars
    <2>1. UNCHANGED Work!queue_vars
      BY <1>4, Zenon DEF Work!vars
    <2> QED
      BY <2>1, Zenon
  <1> QED
    BY <1>1, <1>2, <1>3, <1>4, Zenon DEF Work!Next, Work!Runs

\* Every access of a post or of a pop keeps the ring in order.
LEMMA QueueStep ==
  ASSUME Work!Queue!QueueInv, [Work!Queue!Next]_(Work!queue_vars)
  PROVE  Work!Queue!QueueInv'
  <1> USE CapacityAssumption, OverflowAssumption
      DEF Work!Queue!QueueInv, Work!Queue!TypeOK, Work!Queue!Slots, Work!Queue!Occupied,
          Work!Queue!Advance, Work!Queue!ring, Work!Queue!cvars
  <1>1. ASSUME NEW i \in Items, Work!Queue!Post(i) PROVE Work!Queue!QueueInv'
    BY <1>1 DEF Work!Queue!Post, Work!Queue!Full
  <1>2. CASE Work!Queue!PostFull
    BY <1>2 DEF Work!Queue!PostFull
  <1>3. CASE Work!Queue!Load
    BY <1>3, Zenon DEF Work!Queue!Load
  <1>4. CASE Work!Queue!Empty
    BY <1>4, Zenon DEF Work!Queue!Empty
  <1>5. CASE Work!Queue!Copy
    BY <1>5 DEF Work!Queue!Copy
  <1>6. CASE Work!Queue!Release
    BY <1>6 DEF Work!Queue!Release
  <1>7. CASE Work!Queue!Ran
    BY <1>7, Zenon DEF Work!Queue!Ran
  <1>8. CASE UNCHANGED Work!queue_vars
    BY <1>8, Zenon DEF Work!queue_vars
  <1> QED
    BY <1>1, <1>2, <1>3, <1>4, <1>5, <1>6, <1>7, <1>8, Zenon DEF Work!Queue!Next, Work!Queue!Process

\* Nor does any step take a token that is not there, or leave work without one.
LEMMA TokenStep ==
  ASSUME Work!TokenInv, [Work!Next]_(Work!vars)
  PROVE  Work!TokenInv'
  <1> USE DEF Work!TokenInv, Work!WorkHasToken, Work!queue_vars, Work!sem_vars
  <1>1. ASSUME NEW i \in Items, Work!Handler(i) PROVE Work!TokenInv'
    <2>1. /\ count' = count + 1 /\ UNCHANGED <<w_current, step, stage, w_consumer>>
          /\ count \in Int /\ count >= 0
      BY <1>1, Zenon DEF Work!Handler, Work!Queue!Post, Work!Queue!cvars, Work!Sem!Signal
    <2>2. count' \in Int /\ count' >= 0 /\ count' > 0
      BY <2>1
    <2> QED
      BY <2>1, <2>2, Zenon
  <1>2. CASE Work!HandlerFull
    BY <1>2, Zenon DEF Work!HandlerFull, Work!Queue!PostFull, Work!Queue!cvars
  <1>3. CASE Work!Waiting
    <2> USE DEF Work!Sem!Running, Work!Sem!Goes
    <2>1. UNCHANGED <<count, stage, w_consumer, loaded, w_head, w_tail>> /\ stage = "sem"
      BY <1>3, Zenon DEF Work!Waiting, Work!Sem!Leave, Work!Sem!Block, Work!Sem!Pass, Work!Sem!Wait,
                  Work!Sem!Return, Work!Sem!Begin
    <2> DEFINE Steps == /\ w_current' \in Tasks \cup {NoTask}
                        /\ step' \in [Tasks -> {"run", "enter", "test", "wait", "take"}]
                        /\ \A t \in Tasks : step'[t] = "take" => t = w_current' /\ count > 0
    <2>2. Steps
      <3>1. CASE Work!Sem!Leave \/ Work!Sem!Return
        BY <1>3, <3>1 DEF Work!Waiting, Work!Sem!Leave, Work!Sem!Return
      <3>2. CASE Work!Sem!Block \/ Work!Sem!Wait
        BY <1>3, <3>2 DEF Work!Waiting, Work!Sem!Block, Work!Sem!Wait
      <3>3. CASE Work!Sem!Pass
        BY <1>3, <3>3 DEF Work!Waiting, Work!Sem!Pass, Work!Sem!Available
      <3>4. ASSUME NEW m, Work!Sem!Begin(m) PROVE Steps
        BY <1>3, <3>4 DEF Work!Waiting, Work!Sem!Begin
      <3> QED
        BY <1>3, <3>1, <3>2, <3>3, <3>4, Zenon DEF Work!Waiting
    <2> QED
      BY <2>1, <2>2, Zenon
  <1>4. CASE Work!Taking
    <2> USE DEF Work!Taking, Work!Sem!Take, Work!Sem!TryWait, Work!Sem!Running, Work!Sem!Goes
    <2>1. /\ stage' = "drain" /\ count' = count - 1 /\ w_current' = w_current
          /\ UNCHANGED <<w_consumer, loaded, w_head, w_tail>> /\ w_consumer = "idle"
      BY <1>4, Zenon
    <2>2. step' \in [Tasks -> {"run", "enter", "test", "wait", "take"}]
      BY <1>4
    <2>3. count > 0 /\ \A t \in Tasks : step'[t] # "take"
      BY <1>4
    <2>4. count' \in Int /\ count' >= 0
      BY <2>1, <2>3
    <2> QED
      BY <2>1, <2>2, <2>3, <2>4, Zenon
  <1>5. CASE Work!Draining
    <2> USE DEF Work!Queue!ring
    <2>1. UNCHANGED <<count, step, w_current>> /\ stage = "drain"
      BY <1>5, Zenon DEF Work!Draining
    <2>2. CASE Work!Queue!Empty
      BY <1>5, <2>1, <2>2, Zenon DEF Work!Draining, Work!Queue!Empty
    <2>3. CASE ~Work!Queue!Empty
      <3>1. stage' = "drain"
        BY <1>5, <2>3, Zenon DEF Work!Draining
      <3>2. CASE Work!Queue!Load
        BY <2>1, <3>1, <3>2, Zenon DEF Work!Queue!Load
      <3>3. CASE Work!Queue!Copy \/ Work!Queue!Release \/ Work!Queue!Ran
        BY <2>1, <3>1, <3>3, Zenon DEF Work!Queue!Copy, Work!Queue!Release, Work!Queue!Ran
      <3> QED
        BY <1>5, <2>3, <3>2, <3>3, Zenon DEF Work!Draining, Work!Queue!Process
    <2> QED
      BY <2>2, <2>3, Zenon
  <1>6. CASE Work!Polling
    <2>1. /\ UNCHANGED <<count, stage, w_consumer, loaded, w_head, w_tail>>
          /\ w_current = NoTask /\ w_current' \in Tasks
      BY <1>6, Zenon DEF Work!Polling, Work!Sem!Poll
    <2>2. step' \in [Tasks -> {"run", "enter", "test", "wait", "take"}]
      BY <1>6 DEF Work!Polling, Work!Sem!Poll
    <2>3. \A t \in Tasks : step'[t] = "take" => t = w_current' /\ count > 0
      BY <1>6, NoTaskAssumption DEF Work!Polling, Work!Sem!Poll
    <2> QED
      BY <2>1, <2>2, <2>3, Zenon
  <1>8. CASE Work!Resuming
    BY <1>8, Zenon DEF Work!Resuming, Work!Sem!Resume
  <1>7. CASE UNCHANGED Work!vars
    BY <1>7, Zenon DEF Work!vars
  <1> QED
    BY <1>1, <1>2, <1>3, <1>4, <1>5, <1>6, <1>7, <1>8, Zenon DEF Work!Next, Work!Runs

LEMMA WorkInvariance == Work!Spec => [](Work!Queue!QueueInv /\ Work!TokenInv)
  <1>1. Work!Queue!QueueInv /\ [Work!Next]_(Work!vars) => (Work!Queue!QueueInv)'
    BY WorkStepsQueue, QueueStep, Zenon
  <1>2. Work!TokenInv /\ [Work!Next]_(Work!vars) => (Work!TokenInv)'
    BY TokenStep, Zenon
  <1> QED
    BY WorkInit, <1>1, <1>2, PTL DEF Work!Spec

\* PT_SEM_WAIT takes no token that is not there, although it looks at the count outside the
\* critical section that takes it.
THEOREM TokensSuffice == Work!Spec => []NeverOverdrawn
  <1>1. Work!TokenInv => NeverOverdrawn
    BY Zenon DEF Work!TokenInv, NeverOverdrawn, Work!NeverOverdrawn, Work!Sem!NeverOverdrawn
  <1> QED
    BY WorkInvariance, <1>1, PTL

\* The task cannot go to sleep on work, wherever between its last look at the queue and its
\* test of the count the posts and the signals fall.
THEOREM WorkIsSignalled == Work!Spec => []WorkHasToken
  <1>1. Work!TokenInv => WorkHasToken
    BY Zenon DEF Work!TokenInv, WorkHasToken
  <1> QED
    BY WorkInvariance, <1>1, PTL

\* The slot of the i-th item.
WorkAt(i) == IF w_tail + i - 1 >= Capacity THEN w_tail + i - 1 - Capacity ELSE w_tail + i - 1

\* The contents of the work queue are a sequence of items.
LEMMA WorkContents ==
  ASSUME Work!Queue!QueueInv
  PROVE  /\ Work!Queue!Count \in 0 .. Capacity - 1
         /\ Work!Queue!Contents \in Seq(Items)
         /\ Len(Work!Queue!Contents) = Work!Queue!Count
         /\ \A i \in 1 .. Work!Queue!Count : Work!Queue!Contents[i] = w_buf[WorkAt(i)]
  <1> DEFINE n == Work!Queue!Count
  <1>1. n \in 0 .. Capacity - 1
    BY CapacityAssumption DEF Work!Queue!QueueInv, Work!Queue!TypeOK, Work!Queue!Slots, Work!Queue!Count
  <1>2. ASSUME NEW i \in 1 .. n PROVE w_buf[WorkAt(i)] \in Items
    BY <1>2, CapacityAssumption
    DEF WorkAt, Work!Queue!QueueInv, Work!Queue!TypeOK, Work!Queue!Slots, Work!Queue!Count, Work!Queue!Occupied
  <1>3. Work!Queue!Contents = [i \in 1 .. n |-> w_buf[WorkAt(i)]]
    BY Zenon DEF Work!Queue!Contents, WorkAt
  <1> HIDE DEF n
  <1>4. Work!Queue!Contents \in Seq(Items) /\ Len(Work!Queue!Contents) = n
    BY <1>1, <1>2, <1>3
  <1> QED
    BY <1>1, <1>3, <1>4, Zenon DEF n

\* syn_workqueue_post appends its item ...
LEMMA PostEnqueues ==
  ASSUME Work!Queue!QueueInv, NEW i \in Items, Work!Queue!Post(i)
  PROVE  Work!Queue!Fifo!Enqueue
  <1> DEFINE n == Work!Queue!Count
  <1>1. /\ n \in 0 .. Capacity - 2 /\ (Work!Queue!Count)' = n + 1
        /\ w_tail' = w_tail /\ w_buf' = [w_buf EXCEPT ![w_head] = i]
        /\ WorkAt(n + 1) = w_head /\ w_head \in DOMAIN w_buf
        /\ \A k \in 1 .. n : WorkAt(k) # w_head
    BY CapacityAssumption
    DEF Work!Queue!Post, Work!Queue!Full, Work!Queue!Advance, Work!Queue!QueueInv, Work!Queue!TypeOK,
        Work!Queue!Slots, Work!Queue!Count, WorkAt
  <1>2. (Work!Queue!Contents)' = [k \in 1 .. n + 1 |-> w_buf'[WorkAt(k)]]
    BY <1>1 DEF Work!Queue!Contents, WorkAt
  <1> DEFINE s == Work!Queue!Contents
  <1>3. /\ s \in Seq(Items) /\ Len(s) = n
        /\ \A k \in 1 .. n : s[k] = w_buf[WorkAt(k)]
    BY WorkContents, Zenon
  <1>4. Append(s, i) = [k \in 1 .. n + 1 |-> IF k = n + 1 THEN i ELSE s[k]]
    BY <1>3, AppendAsFunction
  <1>5. w_delivered' = w_delivered
    BY Zenon DEF Work!Queue!Post, Work!Queue!cvars
  <1> HIDE DEF n, s
  <1>6. \A k \in 1 .. n + 1 : w_buf'[WorkAt(k)] = IF k = n + 1 THEN i ELSE s[k]
    BY <1>1, <1>3
  <1>7. (Work!Queue!Contents)' = Append(s, i)
    BY <1>2, <1>4, <1>6, Zenon
  <1>8. Len(s) < Capacity - 1
    BY <1>1, <1>3, CapacityAssumption
  <1> QED
    BY <1>5, <1>7, <1>8, Zenon DEF s, Work!Queue!Fifo!Enqueue

\* ... and the pop hands out the oldest one, when it stores tail.
LEMMA ReleaseDequeuesWork ==
  ASSUME Work!Queue!QueueInv, Work!Queue!Release
  PROVE  Work!Queue!Fifo!Dequeue
  <1> DEFINE n == Work!Queue!Count
  <1>1. /\ n \in 1 .. Capacity - 1 /\ (Work!Queue!Count)' = n - 1
        /\ w_buf' = w_buf /\ w_delivered' = w_buf[w_tail]
        /\ WorkAt(1) = w_tail
        /\ \A k \in 1 .. n - 1 : WorkAt(k)' = WorkAt(k + 1)
    BY CapacityAssumption
    DEF Work!Queue!Release, Work!Queue!Advance, Work!Queue!QueueInv, Work!Queue!TypeOK,
        Work!Queue!Slots, Work!Queue!Count, WorkAt
  <1>2. (Work!Queue!Contents)' = [k \in 1 .. n - 1 |-> w_buf[WorkAt(k)']]
    BY <1>1, Zenon DEF Work!Queue!Contents, WorkAt
  <1> DEFINE s == Work!Queue!Contents
  <1>3. /\ s \in Seq(Items) /\ Len(s) = n
        /\ \A k \in 1 .. n : s[k] = w_buf[WorkAt(k)]
    BY WorkContents, Zenon
  <1> HIDE DEF n, s
  <1>4. s # << >> /\ Head(s) = w_buf[w_tail]
    BY <1>1, <1>3
  <1>5. Tail(s) = [k \in 1 .. n - 1 |-> s[k + 1]]
    BY <1>3, <1>4, TailAsFunction, Zenon
  <1>6. (Work!Queue!Contents)' = Tail(s)
    BY <1>1, <1>2, <1>3, <1>5
  <1> QED
    BY <1>1, <1>4, <1>6, Zenon DEF s, Work!Queue!Fifo!Dequeue

LEMMA QueueRefines ==
  ASSUME Work!Queue!QueueInv, [Work!Queue!Next]_(Work!queue_vars)
  PROVE  [Work!Queue!Fifo!Next]_(Work!Queue!Fifo!vars)
  <1>1. CASE \E i \in Items : Work!Queue!Post(i)
    BY <1>1, PostEnqueues, Zenon DEF Work!Queue!Fifo!Next
  <1>2. CASE Work!Queue!Release
    BY <1>2, ReleaseDequeuesWork, Zenon DEF Work!Queue!Fifo!Next
  <1>3. CASE \/ Work!Queue!PostFull \/ Work!Queue!Load \/ Work!Queue!Empty \/ Work!Queue!Copy
             \/ Work!Queue!Ran \/ UNCHANGED Work!queue_vars
    <2>1. UNCHANGED <<w_buf, w_head, w_tail, w_delivered>>
      BY <1>3, Zenon DEF Work!Queue!PostFull, Work!Queue!Load, Work!Queue!Empty, Work!Queue!Copy,
                  Work!Queue!Ran, Work!Queue!ring, Work!Queue!cvars, Work!queue_vars
    <2> QED
      BY <2>1, Zenon DEF Work!Queue!Fifo!vars, Work!Queue!Contents, Work!Queue!Count
  <1> QED
    BY <1>1, <1>2, <1>3, Zenon DEF Work!Queue!Next, Work!Queue!Process

\* The work queue is a bounded first-in first-out queue: what syn_workqueue_post accepts from
\* anywhere, syn_workqueue_process runs in that order, each item once.
THEOREM WorkRefinement == Work!Spec => WorkIsFifo
  <1>1. Work!Init => Work!Queue!Fifo!Init
    BY NoItemAssumption, CapacityAssumption
    DEF Work!Init, Work!Queue!Init, Work!Queue!Fifo!Init, Work!Queue!Contents, Work!Queue!Count
  <1>2. Work!Queue!QueueInv /\ [Work!Next]_(Work!vars) => [Work!Queue!Fifo!Next]_(Work!Queue!Fifo!vars)
    BY WorkStepsQueue, QueueRefines, Zenon
  <1> QED
    BY <1>1, <1>2, WorkInvariance, PTL
    DEF Work!Spec, WorkIsFifo, Work!IsFifo, Work!Queue!IsFifo, Work!Queue!Fifo!Spec
-----------------------------------------------------------------------------
(* The active object. *)

LEMMA ObjectInit == Object!Init => Object!IndInv
  BY Zenon DEF Object!Init, Object!IndInv

\* syn_ao_post, at any point of the task, wakes it.
LEMMA ObjectStep == Object!IndInv /\ [Object!Next]_(Object!vars) => Object!IndInv'
  <1> SUFFICES ASSUME Object!IndInv, [Object!Next]_(Object!vars) PROVE Object!IndInv'
    OBVIOUS
  <1> USE DEF Object!IndInv, Object!fsm_vars
  <1>1. CASE Object!Run \/ Object!Block
    BY <1>1, Zenon DEF Object!Run, Object!Block
  <1>2. CASE Object!CheckEmpty \/ Object!CheckNotEmpty
    BY <1>2, Zenon DEF Object!CheckEmpty, Object!CheckNotEmpty
  <1>3. CASE Object!Yield \/ Object!NoMatch \/ \E i \in DOMAIN Rows : Object!Match(i)
    BY <1>3, Zenon DEF Object!Yield, Object!NoMatch, Object!Match
  <1>4. CASE Object!FireExit \/ Object!Action \/ Object!FireEnter
    BY <1>4, Zenon DEF Object!FireExit, Object!Action, Object!FireEnter
  <1>5. CASE Object!Suspend \/ Object!Resume
    BY <1>5, Zenon DEF Object!Suspend, Object!Resume
  <1>6. CASE Object!Receive
    BY <1>6, Zenon DEF Object!Receive
  <1>7. ASSUME NEW s \in Signals, Object!Post(s) PROVE Object!IndInv'
    BY <1>7, Zenon DEF Object!Post
  <1>8. CASE UNCHANGED Object!vars
    BY <1>8, Zenon DEF Object!vars
  <1> QED
    BY <1>1, <1>2, <1>3, <1>4, <1>5, <1>6, <1>7, <1>8, Zenon DEF Object!Next, Object!Processor

LEMMA ObjectInvariance == Object!Init /\ [][Object!Next]_(Object!vars) => []Object!IndInv
  BY ObjectInit, ObjectStep, PTL

\* syn_ao_pt_run and syn_ao_post: the object never sleeps on an event, wherever between its
\* look at the mailbox and its yield the post falls.
THEOREM NeverStranded == Object!Spec => []NoStrandedEvent
  <1>1. Object!IndInv => NoStrandedEvent
    BY Zenon DEF Object!IndInv, Object!NoStrandedEvent, NoStrandedEvent
  <1> QED
    BY ObjectInvariance, <1>1, PTL DEF Object!Spec

-----------------------------------------------------------------------------
(* The channels side by side. *)

\* A step of one channel leaves the others alone.
LEMMA Components ==
  AllSpec => Spec /\ Work!Spec /\ Object!Init /\ [][Object!Next]_(Object!vars)
  <1>1. AllInit => Init /\ Work!Init /\ Object!Init
    BY Zenon DEF AllInit
  <1>2. [AllNext]_all_vars => [Next]_vars
    BY Zenon DEF AllNext, all_vars, UseMailbox, UseWork, UseObject
  <1>3. [AllNext]_all_vars => [Work!Next]_(Work!vars)
    BY Zenon DEF AllNext, all_vars, UseMailbox, UseWork, UseObject, work_vars, Work!vars,
           Work!queue_vars, Work!sem_vars
  <1>4. [AllNext]_all_vars => [Object!Next]_(Object!vars)
    BY Zenon DEF AllNext, all_vars, UseMailbox, UseWork, UseObject, object_vars, Object!vars,
           Object!fsm_vars
  <1> QED
    BY <1>1, <1>2, <1>3, <1>4, PTL DEF AllSpec, Spec, Work!Spec

\* What the run of the three channels checks on an instance, but for its liveness: in a system
\* that uses them all, each keeps its promises.
THEOREM AllCorrect ==
  AllSpec => /\ [](NoTornMessage /\ CountIsPromise) /\ PeekStable /\ IsFifo
             /\ [](NeverOverdrawn /\ WorkHasToken) /\ WorkIsFifo
             /\ []NoStrandedEvent
  <1>1. Object!IndInv => NoStrandedEvent
    BY Zenon DEF Object!IndInv, Object!NoStrandedEvent, NoStrandedEvent
  <1> QED
    BY Components, <1>1, WholeMessages, Promises, PeekedSlotHolds, MailboxRefinement,
       TokensSuffice, WorkIsSignalled, WorkRefinement, ObjectInvariance, PTL
=============================================================================
