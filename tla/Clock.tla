-------------------------------- MODULE Clock --------------------------------
(***************************************************************************)
(* The millisecond tick of the port (syn_port_get_tick_ms), an unsigned    *)
(* counter that wraps, and how the scheduler and the timers compare it     *)
(* with their deadlines.                                                   *)
(***************************************************************************)
EXTENDS Integers

CONSTANT Half           \* half the range of the tick (2^31)

ASSUME ClockAssumption == Half \in Nat \ {0}

Wrap == 2 * Half
Ticks == 0 .. Wrap - 1

\* (int32_t)(t - deadline) >= 0 and (int32_t)(t - u) < 0 in 32-bit arithmetic.
Due(t, deadline) == (t - deadline) % Wrap < Half
Before(t, u) == ~Due(t, u)

\* How far d is ahead of t, negative when it has passed: what invariants count in.
Ahead(t, d) == IF Due(t, d) THEN -((t - d) % Wrap) ELSE (d - t) % Wrap
=============================================================================
