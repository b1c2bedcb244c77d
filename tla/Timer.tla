-------------------------------- MODULE Timer --------------------------------
(***************************************************************************)
(* Software timers (sched/syn_timer.c) on a millisecond tick that wraps.   *)
(* The main loop starts, stops, re-times and services them; the tick moves *)
(* on between any two of these steps.                                      *)
(***************************************************************************)
EXTENDS Clock

CONSTANTS NTimers,      \* length of the timer array
          StartTicks,   \* values of the tick when the loop starts
          MaxPeriod,    \* longest period
          MaxLate       \* how late a timer may be serviced by a loop that is awake

ASSUME TimerAssumption == /\ NTimers \in Nat /\ MaxPeriod \in Nat \ {0} /\ MaxLate \in Nat
                          /\ 2 * MaxPeriod + MaxLate + 1 < Half
                          /\ StartTicks \subseteq 0 .. 2 * Half - 1

Max == Wrap - 1         \* UINT32_MAX, "no deadline"
Timers == 1 .. NTimers

VARIABLES tick,                         \* syn_port_get_tick_ms
          period, target, timer_active, periodic,  \* of each timer
          due                           \* history: milliseconds each has left to run

timer_vars == <<period, target, timer_active, periodic, due>>

\* syn_timer_init of every timer.
TimerInit == /\ tick \in StartTicks
             /\ period \in [Timers -> {MaxPeriod}]
             /\ target = [i \in Timers |-> 0]
             /\ timer_active = [i \in Timers |-> FALSE]
             /\ periodic \in [Timers -> BOOLEAN]
             /\ due = [i \in Timers |-> 0]
-----------------------------------------------------------------------------
Start(i) == /\ target' = [target EXCEPT ![i] = (tick + period[i]) % Wrap]
            /\ timer_active' = [timer_active EXCEPT ![i] = TRUE]
            /\ due' = [due EXCEPT ![i] = period[i]]
            /\ UNCHANGED <<period, periodic>>

Stop(i) == /\ timer_active' = [timer_active EXCEPT ![i] = FALSE]
           /\ due' = [due EXCEPT ![i] = 0]
           /\ UNCHANGED <<period, target, periodic>>

SetPeriod(i, p) == /\ period' = [period EXCEPT ![i] = p]
                   /\ UNCHANGED <<target, timer_active, periodic, due>>

\* Mutant of Rearm: each period is counted from the late service.
RearmDrifts(i) == (tick + period[i]) % Wrap

\* The next target of a periodic timer: a period after the last one, or after now
\* when that too has passed.
Rearm(i) == LET next == (target[i] + period[i]) % Wrap
            IN  IF Due(tick, next) THEN (tick + period[i]) % Wrap ELSE next

\* syn_timer_expired, of an active timer that is due.
Expire(i) == /\ timer_active[i] /\ Due(tick, target[i])
             /\ target' = IF periodic[i] THEN [target EXCEPT ![i] = Rearm(i)] ELSE target
             /\ timer_active' = [timer_active EXCEPT ![i] = periodic[i]]
             /\ due' = [due EXCEPT ![i] = IF ~periodic[i] THEN 0
                                          ELSE IF @ + period[i] > 0 THEN @ + period[i]
                                          ELSE period[i]]
             /\ UNCHANGED <<period, periodic>>

\* syn_timer_remaining
Remaining(i) == IF timer_active[i] /\ Before(tick, target[i]) THEN (target[i] - tick) % Wrap ELSE 0

\* The body of the loop of syn_timer_next_expiry, at a timer that is not due: the
\* earliest target so far, Max when there is none.
Nearer(earliest, n) ==
    IF /\ timer_active[n] /\ Before(tick, target[n])
       /\ Before(target[n], earliest) \/ earliest = Max
    THEN target[n] ELSE earliest

\* The earliest target still to come among the first n timers.
Earliest[n \in 0 .. NTimers] == IF n = 0 THEN Max ELSE Nearer(Earliest[n - 1], n)

NextExpiry == IF \E i \in Timers : timer_active[i] /\ Due(tick, target[i]) THEN tick
              ELSE Earliest[NTimers]

\* A millisecond passes.
TimersAge == due' = [i \in Timers |-> IF timer_active[i] THEN due[i] - 1 ELSE 0]
-----------------------------------------------------------------------------
(* Properties. *)

TimerTypeOK == /\ tick \in Ticks
               /\ period \in [Timers -> 1 .. MaxPeriod] /\ target \in [Timers -> Ticks]
               /\ timer_active \in [Timers -> BOOLEAN] /\ periodic \in [Timers -> BOOLEAN]
               /\ due \in [Timers -> -MaxLate - MaxPeriod .. MaxPeriod]

\* A timer expires when its time is up and not before, across the wrap of the tick:
\* a periodic one keeps its phase when serviced late by less than a period, and
\* starts a new one when serviced later, so that it does not expire again at once.
\* syn_timer_remaining says how long.
ExpiresOnTime == \A i \in Timers : timer_active[i] =>
    /\ Due(tick, target[i]) <=> due[i] <= 0
    /\ Remaining(i) = IF due[i] > 0 THEN due[i] ELSE 0
-----------------------------------------------------------------------------
(* The inductive invariant behind ExpiresOnTime. *)

\* The target of an active timer is as far ahead as the timer has left to run.
TimerInv == \A i \in Timers : timer_active[i] => Ahead(tick, target[i]) = due[i]
=============================================================================
