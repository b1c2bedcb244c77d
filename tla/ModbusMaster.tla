----------------------------- MODULE ModbusMaster ------------------------------
(***************************************************************************)
(* The Modbus RTU master (proto/syn_modbus_master.c) and its transaction   *)
(* queue: one request at a time, a response timeout, and retries.          *)
(***************************************************************************)
EXTENDS ModbusLine, Sequences

CONSTANTS Timeout,    \* timeout_ms, in ticks
          MaxRetries, \* max_retries
          QueueSize   \* SYN_MODBUS_QUEUE_SIZE

ASSUME MasterAssumption ==
    Timeout \in Nat \ {0} /\ MaxRetries \in Nat /\ QueueSize \in Nat \ {0}

VARIABLES m,  \* SYN_ModbusMaster
          q   \* SYN_ModbusMasterQueue

\* syn_modbus_master_init.  sent: some tx_len was set.  History: took, the request whose
\* answer was taken; hasty, a request was timed from the stamp of an earlier one.
IdleMaster ==
    [state |-> "IDLE", req |-> None, rx |-> None, tick |-> 0, sent |-> FALSE, exc |-> FALSE,
     data |-> 0, took |-> 0, hasty |-> FALSE]

\* syn_modbus_master_queue_init
EmptyQueue == [queries |-> <<>>, retry |-> 0]

\* The function codes of the requests that build their own frame; they leave
\* request_tick_ms as it is.
OwnFrame == {"mcoils", "mask", "fifo", "id"}
\* The function codes for which a request is built whole; send_request stops after the
\* address for the others.
Whole == {"holding", "input", "single", "multi"} \cup OwnFrame

\* Mutant of Request: rx_len is not reset.
RequestKeepsRx(x, r) ==
    [x EXCEPT !.state = "WAITING", !.req = r, !.exc = FALSE, !.data = 0,
              !.tick = IF r.fc \in OwnFrame THEN @ ELSE 0,
              !.hasty = @ \/ (r.fc \in OwnFrame /\ x.tick # 0),
              !.sent = @ \/ r.fc \in Whole, !.took = 0]

\* send_request; syn_modbus_master_write_multiple_coils, mask_write_register,
\* read_fifo_queue, report_server_id
Request(x, r) ==
    [x EXCEPT !.state = "WAITING", !.req = r, !.exc = FALSE, !.data = 0,
              !.rx = None, !.tick = IF r.fc \in OwnFrame THEN @ ELSE 0,
              !.hasty = @ \/ (r.fc \in OwnFrame /\ x.tick # 0),
              !.sent = @ \/ r.fc \in Whole, !.took = 0]

\* The bytes that go out for r: what an unfinished frame is followed by in the buffer, up to
\* the tx_len of the last whole one.
Frame(x, r) == CASE r.fc \in Whole -> r
                             [] r.fc \notin Whole /\ x.sent -> Junk
                             [] r.fc \notin Whole /\ ~x.sent -> None

\* syn_modbus_master_feed, for the bytes f
MasterFeed(x, f) == IF x.state = "WAITING" THEN [x EXCEPT !.rx = Behind(@, f)] ELSE x

\* What process makes of a frame with a matching CRC.
Taken(x, f) ==
    CASE f.from # x.req.to -> [x EXCEPT !.state = "ERROR"]
      [] f.from = x.req.to /\ f.fc # x.req.fc -> [x EXCEPT !.state = "ERROR"]
      [] f.from = x.req.to /\ f.fc = x.req.fc /\ f.exc ->
            [x EXCEPT !.state = "ERROR", !.exc = TRUE, !.took = f.id]
      [] f.from = x.req.to /\ f.fc = x.req.fc /\ ~f.exc ->
            [x EXCEPT !.state = "COMPLETE", !.data = f.data, !.took = f.id]

\* Mutant of Process: a request that was never stamped is never late.
ProcessUnstamped(x) ==
    IF x.state # "WAITING" THEN x
    ELSE IF x.tick # 0 /\ Since(x.tick) >= Timeout THEN [x EXCEPT !.state = "TIMEOUT"]
         ELSE IF x.rx \in {None, Junk} THEN x ELSE Taken(x, x.rx)

\* syn_modbus_master_process.  A request_tick_ms of 0 stands for "not stamped yet".
Process(x) ==
    LET y == [x EXCEPT !.tick = IF @ = 0 THEN now ELSE @]
    IN  IF x.state # "WAITING" THEN x
        ELSE IF Since(y.tick) >= Timeout THEN [y EXCEPT !.state = "TIMEOUT"]
             ELSE IF y.rx \in {None, Junk} THEN y ELSE Taken(y, y.rx)

\* queue_step has a request for the query's function code, and the request takes its
\* parameters (a slave address of None is 0; a count out of range is refused alike).
Accepted(r) == r.fc \in {"holding", "input", "single", "coils", "discrete"} /\ r.to # None

\* syn_modbus_master_queue_push: whatever the query is.
Push(r) == /\ Len(q.queries) < QueueSize
           /\ q' = [q EXCEPT !.queries = Append(@, r)]

\* Mutant of Popped: the retries of one query count against the next.
PoppedKeepsRetry == [q EXCEPT !.queries = Tail(@)]
\* The query at the head is done with, its callback called.
Popped == [queries |-> Tail(q.queries), retry |-> 0]
=============================================================================
