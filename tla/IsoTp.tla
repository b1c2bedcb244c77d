--------------------------------- MODULE IsoTp ---------------------------------
(***************************************************************************)
(* Two ends of an ISO-TP link (proto/syn_isotp.c) on a CAN bus that may    *)
(* lose or repeat frames: segmentation, reassembly, flow control and the   *)
(* N_Bs and N_Cr timeouts, in both directions at once.                     *)
(*                                                                         *)
(* A message is its number and its length in frames: one frame is a single *)
(* frame (SF), more are a first frame (FF) and consecutive frames (CF),    *)
(* each carrying one unit: the message, its length and the position.       *)
(* syn_isotp_process_rx_frame is called by the CAN interrupt and the rest  *)
(* by the main loop (the example of syn_isotp.h:29), so a frame may arrive *)
(* inside a call: inside syn_isotp_receive or syn_isotp_step_us, which     *)
(* write what the interrupt writes, that is a step of its own; the other   *)
(* calls are atomic, as a frame inside them does what it would do before   *)
(* or after them.                                                          *)
(*                                                                         *)
(* Time is a tick of both ends' syn_isotp_step.  The bus and the main      *)
(* loops are timely: a frame is delivered and a frame that is due is sent  *)
(* within Lag ticks.                                                       *)
(***************************************************************************)
EXTENDS Integers, Sequences, FiniteSets

CONSTANTS Lengths,      \* lengths of the messages of each end, in frames
          RxSize,       \* rx_buf_size of each end, in frames
          SeqMod,       \* sequence numbers are taken modulo this (16)
          BlockSize,    \* rx_fc_bs of each end
          StMin,        \* rx_fc_stmin of each end, in ticks
          NBs, NCr,     \* n_bs_timeout, n_cr_timeout, in ticks
          Lag,          \* ticks a frame may be late
          MaxSent,      \* bound: messages each end sends
          MaxUpsets     \* bound: frames lost, repeated, or arriving inside a call

ASSUME IsoTpAssumption ==
    /\ {SeqMod, NBs, NCr, Lag, MaxUpsets} \subseteq Nat /\ SeqMod > 1 /\ NBs > 2 * Lag
    /\ \A e \in {"a", "b"} : Lengths[e] \subseteq Nat \ {0} /\ NCr > 3 * Lag + StMin[e]

Ends == {"a", "b"}
Peer(e) == IF e = "a" THEN "b" ELSE "a"
Unit(m, n, k) == <<m, n, k>>

VARIABLES tx,     \* the Tx channel of each end
          rx,     \* the Rx channel of each end
          wire,   \* frames on their way to each end
          wait,   \* ticks that frames for, or due from, each end have waited
          sent,   \* messages each end has sent
          recv,   \* what each end's receive saw in rx_buf; <<>>: not in receive
          got,    \* history: each end has received the last message of the other
          upsets  \* frames lost, repeated, or arriving inside a call
vars == <<tx, rx, wire, wait, sent, recv, got, upsets>>

TxIdle == [state |-> "IDLE", msg |-> 0, len |-> 0, off |-> 0, seq |-> 0, bs |-> 0, count |-> 0,
           stmin |-> 0, gap |-> 0, timer |-> 0]
\* The fields of an idle receiver but the pending flow control are dead.
RxIdle == [state |-> "IDLE", buf |-> <<>>, expected |-> 0, seq |-> 0, count |-> 0, timer |-> 0,
           fc |-> "none"]
Dropped(r) == [RxIdle EXCEPT !.fc = r.fc]

Init == /\ tx = [e \in Ends |-> TxIdle] /\ rx = [e \in Ends |-> RxIdle]
        /\ wire = [e \in Ends |-> <<>>] /\ wait = [e \in Ends |-> 0]
        /\ sent = [e \in Ends |-> 0] /\ recv = [e \in Ends |-> <<>>]
        /\ got = [e \in Ends |-> FALSE] /\ upsets = 0
-----------------------------------------------------------------------------
(* Transmission. *)

\* syn_isotp_send
Send(e, n) ==
    /\ recv[e] = <<>> /\ tx[e].state = "IDLE" /\ sent[e] < MaxSent[e]
    /\ sent' = [sent EXCEPT ![e] = @ + 1]
    /\ tx' = [tx EXCEPT ![e] = [TxIdle EXCEPT !.state = IF n = 1 THEN "SEND_SF" ELSE "SEND_FF",
                                              !.msg = sent[e] + 1, !.len = n, !.seq = 1]]
    /\ UNCHANGED <<rx, wire, wait, recv, got, upsets>>

\* What get_tx_frame makes of a transmission after a consecutive frame.
AfterCf(t) ==
    LET u == [t EXCEPT !.off = @ + 1, !.seq = (@ + 1) % SeqMod, !.gap = t.stmin,
                       !.count = IF t.bs > 0 THEN @ + 1 ELSE @]
    IN  CASE u.off >= u.len -> TxIdle
          [] u.off < u.len /\ t.bs > 0 /\ u.count >= t.bs ->
                [u EXCEPT !.count = 0, !.state = "WAIT_FC", !.timer = NBs]
          [] OTHER -> u

Due(t, r) == r.fc # "none" \/ t.state \in {"SEND_SF", "SEND_FF"} \/ (t.state = "SEND_CF" /\ t.gap = 0)

\* syn_isotp_get_tx_frame: flow control first.
GetTxFrame(e) ==
    LET t == tx[e]
        Emit(f) == wire' = [wire EXCEPT ![Peer(e)] = Append(@, f)]
    IN  /\ recv[e] = <<>> /\ Due(t, rx[e])
        /\ \/ /\ rx[e].fc # "none"
              /\ Emit([pci |-> "FC", status |-> rx[e].fc, bs |-> BlockSize[e], stmin |-> StMin[e]])
              /\ rx' = [rx EXCEPT ![e].fc = "none"] /\ UNCHANGED tx
           \/ /\ rx[e].fc = "none" /\ UNCHANGED rx
              /\ \/ /\ t.state = "SEND_SF"
                    /\ Emit([pci |-> "SF", unit |-> Unit(t.msg, 1, 1)])
                    /\ tx' = [tx EXCEPT ![e] = TxIdle]
                 \/ /\ t.state = "SEND_FF"
                    /\ Emit([pci |-> "FF", len |-> t.len, unit |-> Unit(t.msg, t.len, 1)])
                    /\ tx' = [tx EXCEPT ![e].off = 1, ![e].state = "WAIT_FC", ![e].timer = NBs]
                 \/ /\ t.state = "SEND_CF"
                    /\ Emit([pci |-> "CF", seq |-> t.seq, unit |-> Unit(t.msg, t.len, t.off + 1)])
                    /\ tx' = [tx EXCEPT ![e] = AfterCf(t)]
        /\ UNCHANGED <<sent, recv, got, upsets>>
-----------------------------------------------------------------------------
(* Reception: the cases of syn_isotp_process_rx_frame. *)

OnSF(r, f) == [RxIdle EXCEPT !.fc = r.fc, !.state = "COMPLETE", !.buf = <<f.unit>>]

OnFF(e, r, f) ==
    IF f.len > RxSize[e] THEN [RxIdle EXCEPT !.fc = "OVERFLOW"]
    ELSE [RxIdle EXCEPT !.state = "WAIT_CF", !.buf = <<f.unit>>, !.expected = f.len, !.seq = 1,
                        !.timer = NCr, !.fc = "CTS"]

\* Mutant of OnCF: the sequence number is not checked.
OnCFAnySeq(e, r, f) ==
    LET s == [r EXCEPT !.buf = Append(@, f.unit), !.seq = (@ + 1) % SeqMod, !.count = @ + 1]
    IN  CASE r.state # "WAIT_CF" -> r
          [] r.state = "WAIT_CF" ->
                IF Len(s.buf) >= s.expected
                THEN [RxIdle EXCEPT !.fc = r.fc, !.state = "COMPLETE", !.buf = s.buf]
                ELSE IF BlockSize[e] > 0 /\ s.count >= BlockSize[e]
                     THEN [s EXCEPT !.timer = NCr, !.count = 0, !.fc = "CTS"]
                     ELSE [s EXCEPT !.timer = NCr]

\* Mutant of OnCF: flow control is asked for one frame late.
OnCFLate(e, r, f) ==
    LET s == [r EXCEPT !.buf = Append(@, f.unit), !.seq = (@ + 1) % SeqMod, !.count = @ + 1]
    IN  CASE r.state # "WAIT_CF" -> r
          [] r.state = "WAIT_CF" /\ f.seq # r.seq -> Dropped(r)
          [] r.state = "WAIT_CF" /\ f.seq = r.seq ->
                IF Len(s.buf) >= s.expected
                THEN [RxIdle EXCEPT !.fc = r.fc, !.state = "COMPLETE", !.buf = s.buf]
                ELSE IF BlockSize[e] > 0 /\ s.count > BlockSize[e]
                     THEN [s EXCEPT !.timer = NCr, !.count = 0, !.fc = "CTS"]
                     ELSE [s EXCEPT !.timer = NCr]

OnCF(e, r, f) ==
    LET s == [r EXCEPT !.buf = Append(@, f.unit), !.seq = (@ + 1) % SeqMod, !.count = @ + 1]
    IN  CASE r.state # "WAIT_CF" -> r
          [] r.state = "WAIT_CF" /\ f.seq # r.seq -> Dropped(r)
          [] r.state = "WAIT_CF" /\ f.seq = r.seq ->
                IF Len(s.buf) >= s.expected
                THEN [RxIdle EXCEPT !.fc = r.fc, !.state = "COMPLETE", !.buf = s.buf]
                ELSE IF BlockSize[e] > 0 /\ s.count >= BlockSize[e]
                     THEN [s EXCEPT !.timer = NCr, !.count = 0, !.fc = "CTS"]
                     ELSE [s EXCEPT !.timer = NCr]

OnFC(t, f) ==
    CASE t.state = "WAIT_FC" /\ f.status = "CTS" ->
            [t EXCEPT !.bs = f.bs, !.stmin = f.stmin, !.gap = 0, !.timer = 0, !.state = "SEND_CF"]
      [] t.state = "WAIT_FC" /\ f.status = "WAIT" -> [t EXCEPT !.timer = NBs]
      [] t.state = "WAIT_FC" /\ f.status = "OVERFLOW" -> TxIdle
      [] OTHER -> t

\* What a frame makes of the two channels of the end it reaches.
RxAfter(e, f) ==
    CASE f.pci = "SF" -> OnSF(rx[e], f)
      [] f.pci = "FF" -> OnFF(e, rx[e], f)
      [] f.pci = "CF" -> OnCF(e, rx[e], f)
      [] f.pci = "FC" -> rx[e]
TxAfter(e, f) == IF f.pci = "FC" THEN OnFC(tx[e], f) ELSE tx[e]

\* syn_isotp_process_rx_frame, in the interrupt.  In the middle of a receive a frame that is not
\* a flow control is an upset.
ProcessRxFrame(e) ==
    LET f == Head(wire[e])
        inside == recv[e] # <<>> /\ f.pci # "FC"
    IN  /\ wire[e] # <<>> /\ wire' = [wire EXCEPT ![e] = Tail(@)]
        /\ rx' = [rx EXCEPT ![e] = RxAfter(e, f)] /\ tx' = [tx EXCEPT ![e] = TxAfter(e, f)]
        /\ inside => upsets < MaxUpsets
        /\ upsets' = IF inside THEN upsets + 1 ELSE upsets
        /\ UNCHANGED <<sent, recv, got>>

\* syn_isotp_receive: the test of rx_state, after which the copy begins ...
ReceiveBegin(e) ==
    /\ recv[e] = <<>> /\ rx[e].state = "COMPLETE"
    /\ recv' = [recv EXCEPT ![e] = rx[e].buf]
    /\ UNCHANGED <<tx, rx, wire, wait, sent, got, upsets>>

\* ... and its end: rx_state becomes idle whatever it is by now.  If rx_buf was written
\* meanwhile, the copy is of what was in it, of what is in it now, or of pieces of both (0).
ReceiveEnd(e) ==
    LET Number(b) == IF b = <<>> THEN 0 ELSE b[1][1]
        copies == {Number(recv[e])} \cup
                  (IF rx[e].state = "COMPLETE" /\ rx[e].buf = recv[e] THEN {} ELSE {Number(rx[e].buf), 0})
    IN  /\ recv[e] # <<>> /\ recv' = [recv EXCEPT ![e] = <<>>]
        /\ \E m \in copies : got' = [got EXCEPT ![e] = @ \/ m = MaxSent[Peer(e)]]
        /\ rx' = [rx EXCEPT ![e] = Dropped(@)]
        /\ UNCHANGED <<tx, wire, wait, sent, upsets>>

\* The bus loses a frame.
Lose(e) ==
    /\ wire[e] # <<>> /\ upsets < MaxUpsets
    /\ wire' = [wire EXCEPT ![e] = Tail(@)] /\ upsets' = upsets + 1
    /\ UNCHANGED <<tx, rx, sent, recv, got>>

\* The bus repeats a frame: its sender saw an error its receivers did not see.
Repeat(e) ==
    /\ wire[e] # <<>> /\ upsets < MaxUpsets
    /\ wire' = [wire EXCEPT ![e] = <<Head(@)>> \o @] /\ upsets' = upsets + 1
    /\ UNCHANGED <<tx, rx, sent, recv, got>>
-----------------------------------------------------------------------------
\* syn_isotp_step_us, for one tick: the separation time, N_Bs and N_Cr.
Count(gap) == IF gap > 0 THEN gap - 1 ELSE 0
StepTx(t) ==
    LET u == [t EXCEPT !.gap = Count(@)]
    IN  CASE t.state = "WAIT_FC" /\ t.timer = 1 -> TxIdle
          [] t.state = "WAIT_FC" /\ t.timer > 1 -> [u EXCEPT !.timer = @ - 1]
          [] OTHER -> u
\* Mutant of StepRx: the receiver has no N_Cr timeout.
StepRxForever(r) == r

StepRx(r) ==
    CASE r.state = "WAIT_CF" /\ r.timer = 1 -> Dropped(r)
      [] r.state = "WAIT_CF" /\ r.timer > 1 -> [r EXCEPT !.timer = @ - 1]
      [] OTHER -> r

Busy(e) == wire[e] # <<>> \/ Due(tx[e], rx[e])

Late == [e \in Ends |-> IF Busy(e) THEN wait[e] + 1 ELSE 0]

Tick == /\ \A e \in Ends : recv[e] = <<>> /\ (Busy(e) => wait[e] < Lag)
        /\ wait' = Late
        /\ tx' = [e \in Ends |-> StepTx(tx[e])] /\ rx' = [e \in Ends |-> StepRx(rx[e])]
        /\ UNCHANGED <<wire, sent, recv, got, upsets>>

\* The rest of syn_isotp_step_us for a channel that was c when its state and its timer were
\* tested, and which a frame has made d: the timer that is compared with the tick, and counted
\* down, is the one from before the frame or the one from after it.
Resumed(c, d, waiting, idle) ==
    IF c.state # waiting \/ c.timer = 0 THEN {d}
    ELSE {IF timer <= 1 THEN idle ELSE IF d.state = waiting THEN [d EXCEPT !.timer = timer - 1] ELSE d :
             timer \in {c.timer, d.timer}}

\* The same for a sender, whose separation time the step counts down first: flow control may
\* set it to 0 before that or be undone by it.  (The field is read once.  Code that reads it
\* again after the comparison may wrap it around; no separation time here is that long.)
ResumedTx(c, d) ==
    {[u EXCEPT !.gap = Count(@)] : u \in Resumed(c, d, "WAIT_FC", TxIdle)}
    \cup (IF d.state = "SEND_CF" THEN {[d EXCEPT !.gap = Count(c.gap)]} ELSE {})

\* A tick in which a frame arrives inside the step of e.
TickHit(e) ==
    LET f == Head(wire[e])
        r == RxAfter(e, f)
        t == TxAfter(e, f)
    IN  /\ \A d \in Ends : recv[d] = <<>> /\ (Busy(d) => wait[d] < Lag)
        /\ wire[e] # <<>> /\ wire' = [wire EXCEPT ![e] = Tail(@)]
        /\ upsets < MaxUpsets /\ upsets' = upsets + 1
        /\ \E s \in Resumed(rx[e], r, "WAIT_CF", Dropped(r)) :
              rx' = [d \in Ends |-> IF d = e THEN s ELSE StepRx(rx[d])]
        /\ \E u \in ResumedTx(tx[e], t) :
              tx' = [d \in Ends |-> IF d = e THEN u ELSE StepTx(tx[d])]
        /\ wait' = [d \in Ends |-> IF Busy(d)' THEN Late[d] ELSE 0]
        /\ UNCHANGED <<sent, recv, got>>

\* An end that has caught up is no longer late.
Settled == wait' = [e \in Ends |-> IF Busy(e)' THEN wait[e] ELSE 0]

Loop(e) == GetTxFrame(e) /\ Settled
Isr(e) == ProcessRxFrame(e) /\ Settled
\* What the two main loops, the interrupts and the clock do of themselves.
Progress == Tick \/ \E e \in Ends : Loop(e) \/ Isr(e) \/ ReceiveBegin(e) \/ ReceiveEnd(e)
Next == \/ Progress
        \/ \E e \in Ends : \/ (Lose(e) \/ Repeat(e)) /\ Settled
                           \/ TickHit(e)
                           \/ \E n \in Lengths[e] : Send(e, n)
Spec == Init /\ [][Next]_vars /\ WF_vars(Progress)
-----------------------------------------------------------------------------
\* Channels, frames and counters are those of the code; the buffer never overruns rx_buf_size.
TypeOK ==
    \A e \in Ends :
      /\ tx[e].state \in {"IDLE", "SEND_SF", "SEND_FF", "WAIT_FC", "SEND_CF"}
      /\ tx[e].off <= tx[e].len /\ tx[e].timer \in 0 .. NBs /\ tx[e].seq \in 0 .. SeqMod - 1
      /\ rx[e].state \in {"IDLE", "WAIT_CF", "COMPLETE"} /\ rx[e].timer \in 0 .. NCr
      /\ Len(rx[e].buf) <= RxSize[e] /\ wait[e] \in 0 .. Lag

\* A message that is complete in rx_buf is one message its sender sent, in full: with two frames
\* lost, repeated or arriving inside a receive or a step, and however the two sides time out and
\* start again, process_rx_frame never puts the pieces of two messages together.  (Three can
\* defeat it where sequence numbers wrap within a message: a repeated flow control puts the
\* sender a block ahead, the last frame of one message and the first of the next are lost, and a
\* frame of the second completes the first.  What receive copies out of rx_buf is that message
\* only if no frame arrives during the copy.)
NoTornMessage ==
    \A e \in Ends : rx[e].state = "COMPLETE" =>
        \E m \in 1 .. sent[Peer(e)] : \A k \in DOMAIN rx[e].buf : rx[e].buf[k] = Unit(m, Len(rx[e].buf), k)

\* Both ends come to rest: a lost frame, or one that arrives while step counts its timer down,
\* never leaves a sender waiting for flow control, or a receiver waiting for the next frame, for
\* ever.
AtRest == \A e \in Ends : tx[e].state = "IDLE" /\ rx[e].state # "WAIT_CF"
ComesToRest == ~AtRest ~> AtRest

\* If no frame is lost or repeated, and none arrives inside a receive or a step of its end, a
\* message that fits the receive buffer is received (the last one: a later one may take its
\* place in the buffer before it is read).  A frame that does arrive there can cost a message
\* with nothing lost on the bus: the code has no critical section, receive then idles a receiver
\* that the frame has just made complete or waiting, and step compares with its tick a timer that
\* the frame has just set to 0.
Fits(e) == tx[e].state # "IDLE" /\ tx[e].len <= RxSize[Peer(e)]
Arrives == \A e \in Ends : (Fits(e) /\ tx[e].msg = MaxSent[e])
                           ~> (got[Peer(e)] \/ upsets > 0)
=============================================================================
