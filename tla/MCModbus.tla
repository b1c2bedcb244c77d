------------------------------- MODULE MCModbus --------------------------------
(* An instance of Modbus: a slave fed by its ISR and a polled one. *)
EXTENDS Modbus

Ask(s, fc, a, v) == [to |-> s, fc |-> fc, addr |-> a, val |-> v, id |-> 0]

MCSlaves == {"fed", "polled"}
MCPolled == {"polled"}
MCLag == [n \in Nodes |-> 1]
\* One more than there are retries.
MCMaxFaults == [queue |-> 2, direct |-> 1]
\* Writes of one register that differ, a read, a refused write, a read of coils; a query with
\* a function code the queue does not know and one without a slave.
MCQueued == {Ask("fed", "single", 0, 1), Ask("fed", "single", 0, 0), Ask("polled", "holding", 0, 0),
             Ask("polled", "single", 2, 1), Ask("fed", "coils", 0, 0),
             Ask("fed", "multi", 0, 1), Ask(None, "holding", 0, 0)}
\* Two writes of one register, one of them a request with a frame of its own; a write of
\* coils, a read that is refused, and the server's name.
MCDirect == {Ask("fed", "multi", 0, 1), Ask("fed", "mask", 0, 0), Ask("polled", "mcoils", 0, 1),
             Ask("polled", "input", 3, 0), Ask("polled", "id", 0, 0)}
=============================================================================
