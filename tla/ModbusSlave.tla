------------------------------ MODULE ModbusSlave ------------------------------
(***************************************************************************)
(* The Modbus RTU slaves of one RS-485 line (proto/syn_modbus.c): how a    *)
(* frame is told from its neighbours by the silence around it, and what    *)
(* the handlers of the function codes this repository's master can issue   *)
(* do to the registers.                                                    *)
(***************************************************************************)
EXTENDS ModbusLine

CONSTANTS Polled,       \* the slaves that call syn_modbus_poll; the others are fed by their ISR
          HoldingCount, \* holding_count (coils_count and input_count likewise)
          Locked,       \* the holding registers on_write refuses
          Values,       \* register values
          Silence       \* silence_ms, in ticks

ASSUME SlaveAssumption ==
    /\ Polled \subseteq Slaves /\ HoldingCount \in Nat \ {0} /\ Locked \subseteq 0..HoldingCount - 1
    /\ Silence \in 1..Clock - 1 /\ 0 \in Values

VARIABLES line,     \* per slave: the frame buffer and the bytes its UART still holds
          cells     \* per slave: holding_regs and coils

Cells == {"holding", "coil"} \X (0..HoldingCount - 1)

\* syn_modbus_init.  last_byte_tick is dead while the buffer is empty.
EmptyLine == [rx |-> None, last |-> 0, ready |-> FALSE, uart |-> None]

\* syn_modbus_feed for the bytes of a frame: none is kept behind a frame that is complete.
Feed(l, f) == IF l.rx # None /\ Since(l.last) >= Silence
              THEN [l EXCEPT !.ready = TRUE]
              ELSE [l EXCEPT !.rx = Behind(@, f), !.last = now]

Heard(s, l, f) == CASE f = None -> l
                    [] f # None /\ s \in Polled -> [l EXCEPT !.uart = Behind(@, f)]
                    [] f # None /\ s \notin Polled -> Feed(l, f)

\* The receive loop of syn_modbus_poll: the tick is that of the poll, not of the byte.
Drained(l) == IF l.uart = None THEN l
              ELSE [l EXCEPT !.rx = Behind(@, l.uart), !.last = now, !.uart = None]

\* When syn_modbus_process takes the buffer; a last_byte_tick of 0 counts as silence.
Complete(l) == l.rx # None /\ (l.ready \/ l.last = 0 \/ Since(l.last) >= Silence)
-----------------------------------------------------------------------------
(* The handlers: the answer to a request, and the registers after it. *)

Answer(f, exc, data) == [from |-> f.to, fc |-> f.fc, exc |-> exc, data |-> data, id |-> f.id]

\* handle_read_regs for input_regs, handle_read_bits: what is read is the application's own.
ReadOther(f, regs) ==
    [regs |-> regs, answer |-> Answer(f, f.addr >= HoldingCount, 0)]

\* handle_read_regs for one of the holding_regs
ReadHolding(f, regs) ==
    [regs |-> regs,
     answer |-> IF f.addr >= HoldingCount THEN Answer(f, TRUE, 0)
                ELSE Answer(f, FALSE, regs[<<"holding", f.addr>>])]

\* handle_report_server_id, handle_read_fifo_queue of a slave that has a queue
Report(f, regs) == [regs |-> regs, answer |-> Answer(f, FALSE, 0)]

\* The registers or coils f writes: one, or two from f.addr for FC 0x10 and 0x0F.
Written(f) == {IF f.fc = "mcoils" THEN "coil" ELSE "holding"} \X
              (f.addr..(IF f.fc \in {"multi", "mcoils"} THEN f.addr + 1 ELSE f.addr))
Refused(f) == Written(f) \cap ({"holding"} \X Locked) # {}

Stored(f, regs) == [r \in DOMAIN regs |-> IF r \in Written(f) THEN f.val ELSE regs[r]]
WriteIf(allowed, f, regs) == [regs |-> IF allowed THEN Stored(f, regs) ELSE regs,
                              answer |-> Answer(f, ~allowed, 0)]

\* Mutant of Write: the answer goes out before on_write has its say.
WriteEager(f, regs) ==
    [regs |-> IF Written(f) \subseteq Cells /\ ~Refused(f) THEN Stored(f, regs) ELSE regs,
     answer |-> Answer(f, ~(Written(f) \subseteq Cells), 0)]

\* handle_write_single, handle_write_multiple
Write(f, regs) == WriteIf(Written(f) \subseteq Cells /\ ~Refused(f), f, regs)

\* handle_mask_write_register: a register stands for the bits the and_mask clears, which
\* take the values of the or_mask.
MaskWrite(f, regs) == WriteIf(f.addr < HoldingCount /\ ~Refused(f), f, regs)

\* handle_write_multiple_coils, which asks nobody
WriteCoils(f, regs) == WriteIf(Written(f) \subseteq Cells, f, regs)

Handle(f, regs) == CASE f.fc = "holding" -> ReadHolding(f, regs)
                     [] f.fc \in {"input", "coils", "discrete"} -> ReadOther(f, regs)
                     [] f.fc \in {"fifo", "id"} -> Report(f, regs)
                     [] f.fc \in {"single", "multi"} -> Write(f, regs)
                     [] f.fc = "mask" -> MaskWrite(f, regs)
                     [] f.fc = "mcoils" -> WriteCoils(f, regs)

\* Whether a slave handles the bytes it took: they are a request, and for it.
ForMe(s, f) == f \notin {None, Junk} /\ "to" \in DOMAIN f /\ f.to = s
=============================================================================
