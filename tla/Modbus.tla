-------------------------------- MODULE Modbus ---------------------------------
(***************************************************************************)
(* A Modbus RTU master and its slaves on one RS-485 line that may lose or  *)
(* garble frames.                                                          *)
(*                                                                         *)
(* The application either queues its requests and calls queue_step, or     *)
(* issues them itself and calls process.  Every node hears every frame but *)
(* its own.  The line and the main loops are timely: a frame is received   *)
(* in the tick it is sent, and the loop of node n runs at least every      *)
(* Lag[n] ticks.                                                           *)
(***************************************************************************)
EXTENDS ModbusMaster, ModbusSlave

CONSTANTS Queued,       \* the requests an application with a queue makes
          Direct,       \* the requests an application without one makes
          Lag,          \* ticks between two runs of a node's main loop, at most
          MaxRequests,  \* bound: requests
          MaxFaults     \* bound: frames lost or garbled, with a queue and without

Master == "master"
Nodes == Slaves \cup {Master}

ASSUME ModbusAssumption ==
    /\ Master \notin Slaves /\ Lag \in [Nodes -> Nat \ {0}] /\ MaxRequests \in Nat
    /\ \A s \in Slaves : Timeout > 2 * Lag[s] + Silence + Lag[Master] /\ Timeout + Lag[Master] < Clock
    /\ MaxFaults \in [{"queue", "direct"} -> Nat]

VARIABLES api,       \* "queue" or "direct": what the application uses
          late,      \* per node: ticks since its main loop ran
          faults,    \* frames lost or garbled
          made,      \* requests made
          answered,  \* history: requests answered, by a callback or a final state
          tries,     \* history: transmissions for the query at the head of the queue
          hit,       \* history: a frame was lost or garbled meanwhile
          acked,     \* history: the last acknowledged value of each register
          unsure     \* history: the values sent to each register since
hist == <<answered, tries, hit, acked, unsure>>
vars == <<now, line, cells, m, q, api, late, faults, made, hist>>

Init == /\ now = 0 /\ api \in {"queue", "direct"}
        /\ line = [s \in Slaves |-> EmptyLine] /\ cells = [s \in Slaves |-> [r \in Cells |-> 0]]
        /\ m = IdleMaster /\ q = EmptyQueue
        /\ late = [n \in Nodes |-> 0] /\ faults = 0 /\ made = 0
        /\ answered = 0 /\ tries = 0 /\ hit = FALSE
        /\ acked = [s \in Slaves |-> [r \in Cells |-> 0]]
        /\ unsure = [s \in Slaves |-> [r \in Cells |-> {}]]

\* What the others receive of a frame that is sent.
Received(f) ==
    {[frame |-> f, fault |-> FALSE]} \cup
    IF f = None \/ faults = MaxFaults[api] THEN {}
    ELSE {[frame |-> g, fault |-> TRUE] : g \in {None, Junk}}

Faulty(g) == /\ faults' = IF g.fault THEN faults + 1 ELSE faults

\* The slaves hear frame f of the master.
Broadcast(f) == line' = [s \in Slaves |-> Heard(s, line[s], f)]

\* The registers a request writes, for the history.
Writes(r, s) == IF r.fc \in {"single", "multi", "mask", "mcoils"} /\ r.to = s
                THEN Written(r) \cap Cells ELSE {}
Sent(r) == [s \in Slaves |-> [x \in Cells |->
                IF x \in Writes(r, s) THEN unsure[s][x] \cup {r.val} ELSE unsure[s][x]]]
Acked(r) == /\ acked' = [s \in Slaves |-> [x \in Cells |->
                            IF x \in Writes(r, s) THEN r.val ELSE acked[s][x]]]
            /\ unsure' = [s \in Slaves |-> [x \in Cells |->
                            IF x \in Writes(r, s) THEN {} ELSE unsure[s][x]]]
-----------------------------------------------------------------------------
(* The master's main loop. *)

\* Query r goes out, and process stamps it; one that is refused stays where it is.
Dispatch(r) ==
    \/ /\ Accepted(r)
       /\ \E g \in Received(Frame(m, r)) :
            /\ m' = Process(Request(m, r))
            /\ Broadcast(g.frame) /\ Faulty(g)
            /\ hit' = (g.fault \/ (hit /\ tries > 0)) /\ tries' = tries + 1
            /\ unsure' = Sent(r) /\ UNCHANGED <<acked, answered>>
    \/ ~Accepted(r) /\ m' = Process(m) /\ UNCHANGED <<line, faults, hist>>

\* syn_modbus_master_queue_step
QueueStep ==
    LET x == Process(m)
        head == Head(q.queries)
    IN  /\ api = "queue"
        /\ \/ /\ x.state = "IDLE" /\ q.queries # <<>>
              /\ Dispatch(head) /\ UNCHANGED q
           \/ /\ x.state = "COMPLETE" /\ q.queries # <<>>
              /\ m' = [x EXCEPT !.state = "IDLE"] /\ q' = Popped
              /\ answered' = answered + 1 /\ tries' = 0 /\ hit' = FALSE /\ Acked(head)
              /\ UNCHANGED <<line, faults>>
           \/ /\ x.state \in {"TIMEOUT", "ERROR"} /\ q.queries # <<>> /\ q.retry < MaxRetries
              /\ m' = [x EXCEPT !.state = "IDLE"] /\ q' = [q EXCEPT !.retry = @ + 1]
              /\ UNCHANGED <<line, faults, hist>>
           \/ /\ x.state \in {"TIMEOUT", "ERROR"} /\ q.queries # <<>> /\ q.retry >= MaxRetries
              /\ m' = [x EXCEPT !.state = "IDLE"] /\ q' = Popped
              /\ answered' = answered + 1 /\ tries' = 0 /\ hit' = FALSE
              /\ UNCHANGED <<line, faults, acked, unsure>>
           \/ /\ x.state = "WAITING" \/ q.queries = <<>>
              /\ m' = x /\ UNCHANGED <<line, faults, hist, q>>
        /\ late' = [late EXCEPT ![Master] = 0]
        /\ UNCHANGED <<now, cells, api, made>>

\* The loop of an application that calls process itself.
ProcessStep ==
    /\ api = "direct"
    /\ m' = Process(m)
    /\ late' = [late EXCEPT ![Master] = 0]
    /\ answered' = IF m.state = "WAITING" /\ m'.state # "WAITING" THEN answered + 1 ELSE answered
    /\ IF m.state = "WAITING" /\ m'.state = "COMPLETE"
       THEN Acked(m.req)
       ELSE UNCHANGED <<acked, unsure>>
    /\ UNCHANGED <<now, line, cells, q, api, faults, made, tries, hit>>

PushStep == \E r \in Queued :
    /\ api = "queue" /\ made < MaxRequests
    /\ Push([r EXCEPT !.id = made + 1])
    /\ made' = made + 1
    /\ UNCHANGED <<now, line, cells, m, api, late, faults, hist>>

\* The requests of the API, from an application that waits for the one before.
DirectStep == \E r \in Direct :
    /\ api = "direct" /\ made < MaxRequests /\ m.state # "WAITING"
    /\ made' = made + 1
    /\ LET d == [r EXCEPT !.id = made + 1] IN
         \E g \in Received(Frame(m, d)) :
            /\ m' = Request(m, d)
            /\ Broadcast(g.frame) /\ Faulty(g) /\ unsure' = Sent(d)
    /\ UNCHANGED <<now, cells, q, api, late, answered, tries, hit, acked>>
-----------------------------------------------------------------------------
(* The slaves' main loops, and time. *)

\* syn_modbus_poll or syn_modbus_process: take the buffer once it is followed by silence,
\* and answer.
SlaveStep(s) ==
    LET l == IF s \in Polled THEN Drained(line[s]) ELSE line[s]
        taken == IF s \in Polled THEN Complete(l) /\ Since(l.last) >= Silence ELSE Complete(l)
        done == [l EXCEPT !.rx = None, !.last = 0, !.ready = FALSE]
        h == Handle(l.rx, cells[s])
    IN  /\ late' = [late EXCEPT ![s] = 0]
        /\ \/ /\ ~taken
              /\ line' = [line EXCEPT ![s] = l]
              /\ UNCHANGED <<cells, m, faults, hit>>
           \/ /\ taken /\ ~ForMe(s, l.rx)
              /\ line' = [line EXCEPT ![s] = done]
              /\ UNCHANGED <<cells, m, faults, hit>>
           \/ /\ taken /\ ForMe(s, l.rx)
              /\ cells' = [cells EXCEPT ![s] = h.regs]
              /\ \E g \in Received(h.answer) :
                    /\ line' = [t \in Slaves |-> IF t = s THEN done ELSE Heard(t, line[t], g.frame)]
                    /\ m' = MasterFeed(m, g.frame)
                    /\ Faulty(g) /\ hit' = (hit \/ g.fault)
        /\ UNCHANGED <<now, q, api, made, answered, tries, acked, unsure>>

Tick == /\ \A n \in Nodes : late[n] < Lag[n]
        /\ now' = (now + 1) % Clock
        /\ late' = [n \in Nodes |-> late[n] + 1]
        /\ UNCHANGED <<line, cells, m, q, api, faults, made, hist>>

Progress == QueueStep \/ ProcessStep \/ (\E s \in Slaves : SlaveStep(s)) \/ Tick
Next == PushStep \/ DirectStep \/ Progress

\* Main loops run and time passes.
Spec == Init /\ [][Next]_vars /\ WF_vars(Progress)
-----------------------------------------------------------------------------
(* Properties. *)

TypeOK == /\ now \in 0..Clock - 1 /\ Len(q.queries) <= QueueSize /\ q.retry \in 0..MaxRetries
          /\ m.state \in {"IDLE", "WAITING", "COMPLETE", "TIMEOUT", "ERROR"}
          /\ m.tick \in 0..Clock - 1 /\ cells \in [Slaves -> [Cells -> Values]]

\* An answer syn_modbus_master_process accepts is the answer to the request it waits for,
\* although it compares only the slave and the function code (syn_modbus_master.c:314-332).
\* Requests that build their own frame are excepted after others: timed from an old stamp,
\* one may be given up at once, and its answer passes for that of the next.
OwnAnswer == m.took # 0 /\ ~m.hasty => m.took = m.req.id

\* A register holds the value of the last write that was reported as done, or one of a write
\* sent since that was not: no lost, repeated or refused write passes for done, and none is
\* applied after a later one (with the same exception).
AckedStands == m.hasty \/ \A s \in Slaves : \A r \in Cells :
                  cells[s][r] \in {acked[s][r]} \cup unsure[s][r]

\* queue_step calls a callback with SYN_ERROR only after max_retries + 1 transmissions, and
\* only if a frame was lost or garbled meanwhile, the slave refused, or the frame was never
\* whole: requests that run into other traffic, or into a slave that has not yet taken the
\* frame before, are saved by the retry (the master keeps no silence between frames, so
\* without retries, MaxRetries = 0, such a request is given up for no fault).
GivesUpForAReason ==
    [][(m.state = "WAITING" /\ m'.state = "IDLE" /\ Len(q'.queries) < Len(q.queries)
                            /\ Process(m).state # "COMPLETE")
          => /\ tries = MaxRetries + 1
             /\ hit \/ Process(m).exc \/ m.req.fc \notin Whole]_vars

\* Every request that is made is answered, by its callback or by the master's final state:
\* whatever is lost, the answers catch up with the requests, unless the head of the queue is a
\* query that queue_step cannot dispatch.  It ignores that status (syn_modbus_master.c:437-443):
\* the query is neither answered nor removed, and those behind it wait for ever.
Stuck == q.queries # <<>> /\ ~Accepted(Head(q.queries))
Answered == []<>(answered = made \/ Stuck)
=============================================================================
