--------------------------- MODULE TicklessProofs ---------------------------
(***************************************************************************)
(* Proofs about the software timers (Timer) and the tickless loops         *)
(* (Tickless), for every width of the tick, any number of tasks and timers *)
(* and any periods and lateness that the width leaves room for.            *)
(***************************************************************************)
EXTENDS Tickless, WellFoundedInduction, TLAPS
-----------------------------------------------------------------------------
(* Arithmetic of the tick: what the comparisons of the timers tell about   *)
(* deadlines less than half the range away.                                *)

\* Reduction of what is less than two rounds away.
LEMMA Mod ==
  ASSUME NEW a \in Int, -Wrap <= a, a < 2 * Wrap
  PROVE  /\ a % Wrap \in Ticks
         /\ a % Wrap = IF a < 0 THEN a + Wrap ELSE IF a < Wrap THEN a ELSE a - Wrap
  <1> DEFINE b == IF a < 0 THEN a + Wrap ELSE IF a < Wrap THEN a ELSE a - Wrap
  <1>1. Wrap \in Nat \ {0}
    BY ClockAssumption DEF Wrap
  <1>2. b \in 0 .. Wrap - 1
    BY <1>1
  <1>3. b % Wrap = b /\ (b + Wrap) % Wrap = b /\ (b - Wrap) % Wrap = b
    BY <1>1, <1>2
  <1>4. a = b \/ a = b + Wrap \/ a = b - Wrap
    BY <1>1
  <1> HIDE DEF b
  <1>5. a % Wrap = b
    BY <1>3, <1>4, Zenon
  <1> QED
    BY <1>2, <1>5, Zenon DEF b, Ticks

\* The signed difference of two ticks.
LEMMA AheadIs ==
  ASSUME NEW t \in Ticks, NEW d \in Ticks
  PROVE  /\ Ahead(t, d) = IF d - t > Half THEN d - t - Wrap
                          ELSE IF d - t > -Half THEN d - t ELSE d - t + Wrap
         /\ Ahead(t, d) \in 1 - Half .. Half
         /\ Due(t, d) <=> Ahead(t, d) <= 0
         /\ ~Due(t, d) => (d - t) % Wrap = Ahead(t, d)
         /\ Due(t, d) => (t - d) % Wrap = -Ahead(t, d)
  <1>1. /\ t \in 0 .. Wrap - 1 /\ d \in 0 .. Wrap - 1 /\ Half \in Nat /\ Wrap = 2 * Half /\ Half > 0
    BY ClockAssumption DEF Ticks, Wrap
  <1>2. /\ (t - d) % Wrap = IF t - d < 0 THEN t - d + Wrap ELSE t - d
        /\ (d - t) % Wrap = IF d - t < 0 THEN d - t + Wrap ELSE d - t
    <2>1. /\ t - d \in Int /\ -Wrap <= t - d /\ t - d < Wrap /\ t - d < 2 * Wrap
          /\ d - t \in Int /\ -Wrap <= d - t /\ d - t < Wrap /\ d - t < 2 * Wrap
      BY <1>1
    <2> QED
      BY <2>1, Mod, Zenon
  <1> QED
    BY <1>1, <1>2 DEF Ahead, Due

\* It is what was added, unless that is half the range or more.
LEMMA AheadOf ==
  ASSUME NEW t \in Ticks, NEW k \in 1 - Half .. Half
  PROVE  (t + k) % Wrap \in Ticks /\ Ahead(t, (t + k) % Wrap) = k
  <1>1. /\ t \in 0 .. Wrap - 1 /\ Half \in Nat /\ Wrap = 2 * Half
    BY ClockAssumption, Zenon DEF Ticks, Wrap
  <1> DEFINE a == t + k
             b == a % Wrap
  <1>2. a \in Int /\ -Wrap <= a /\ a < 2 * Wrap /\ a = t + k
    BY <1>1
  <1> HIDE DEF a
  <1>3. b \in Ticks /\ b = IF a < 0 THEN a + Wrap ELSE IF a < Wrap THEN a ELSE a - Wrap
    BY <1>2, Mod, Zenon
  <1> HIDE DEF b
  <1>4. Ahead(t, b) = k
    BY <1>1, <1>2, <1>3, AheadIs
  <1> QED
    BY <1>3, <1>4, Zenon DEF a, b

\* A tick later it is one less.
LEMMA AheadLater ==
  ASSUME NEW t \in Ticks, NEW d \in Ticks, Ahead(t, d) > 1 - Half
  PROVE  (t + 1) % Wrap \in Ticks /\ Ahead((t + 1) % Wrap, d) = Ahead(t, d) - 1
  <1>1. /\ t \in 0 .. Wrap - 1 /\ d \in 0 .. Wrap - 1 /\ Half \in Nat /\ Wrap = 2 * Half /\ Half > 0
    BY ClockAssumption DEF Ticks, Wrap
  <1> DEFINE a == t + 1
             b == a % Wrap
  <1>2. a \in Int /\ -Wrap <= a /\ a < 2 * Wrap /\ a = t + 1
    BY <1>1
  <1> HIDE DEF a
  <1>3. b \in Ticks /\ b = IF a < 0 THEN a + Wrap ELSE IF a < Wrap THEN a ELSE a - Wrap
    BY <1>2, Mod, Zenon
  <1> HIDE DEF b
  <1>4. Ahead(b, d) = Ahead(t, d) - 1
    BY <1>1, <1>2, <1>3, AheadIs
  <1> QED
    BY <1>3, <1>4, Zenon DEF a, b

\* Of two ticks that are near, the code's comparison tells which is further ahead.
LEMMA DueByAhead ==
  ASSUME NEW t \in Ticks, NEW a \in Ticks, NEW b \in Ticks,
         Ahead(t, a) - Ahead(t, b) \in 1 - Half .. Half - 1
  PROVE  Due(a, b) <=> Ahead(t, b) <= Ahead(t, a)
  <1>1. /\ t \in 0 .. Wrap - 1 /\ a \in 0 .. Wrap - 1 /\ b \in 0 .. Wrap - 1
        /\ Half \in Nat /\ Wrap = 2 * Half
    BY ClockAssumption, Zenon DEF Ticks, Wrap
  <1>2. Due(a, b) <=> Ahead(a, b) <= 0
    BY AheadIs, Zenon
  <1>3. /\ Ahead(a, b) = IF b - a > Half THEN b - a - Wrap
                         ELSE IF b - a > -Half THEN b - a ELSE b - a + Wrap
        /\ Ahead(t, a) = IF a - t > Half THEN a - t - Wrap
                         ELSE IF a - t > -Half THEN a - t ELSE a - t + Wrap
        /\ Ahead(t, b) = IF b - t > Half THEN b - t - Wrap
                         ELSE IF b - t > -Half THEN b - t ELSE b - t + Wrap
    BY AheadIs, Zenon
  <1> QED
    BY <1>1, <1>2, <1>3

\* Distances add up.
LEMMA AheadPlus ==
  ASSUME NEW t \in Ticks, NEW a \in Ticks, NEW b \in Ticks,
         Ahead(t, a) + Ahead(a, b) \in 1 - Half .. Half
  PROVE  Ahead(t, b) = Ahead(t, a) + Ahead(a, b)
  <1>1. /\ t \in 0 .. Wrap - 1 /\ a \in 0 .. Wrap - 1 /\ b \in 0 .. Wrap - 1
        /\ Half \in Nat /\ Wrap = 2 * Half
    BY ClockAssumption, Zenon DEF Ticks, Wrap
  <1>2. /\ Ahead(a, b) = IF b - a > Half THEN b - a - Wrap
                         ELSE IF b - a > -Half THEN b - a ELSE b - a + Wrap
        /\ Ahead(t, a) = IF a - t > Half THEN a - t - Wrap
                         ELSE IF a - t > -Half THEN a - t ELSE a - t + Wrap
        /\ Ahead(t, b) = IF b - t > Half THEN b - t - Wrap
                         ELSE IF b - t > -Half THEN b - t ELSE b - t + Wrap
    BY AheadIs, Zenon
  <1> QED
    BY <1>1, <1>2
-----------------------------------------------------------------------------
(* Induction over the timers. *)

\* A set of naturals has a least element.
LEMMA Least ==
  ASSUME NEW T \in SUBSET Nat, T # {}
  PROVE  \E m \in T : \A k \in T : m <= k
  <1>1. IsWellFoundedOn(OpToRel(<, Nat), Nat)
    BY NatLessThanWellFounded, Zenon
  <1>2. PICK m \in T : \A k \in T : ~(<<k, m>> \in OpToRel(<, Nat))
    BY <1>1, WFMin, Zenon
  <1>3. \A k \in T : ~(k < m)
    BY <1>2, Zenon DEF OpToRel
  <1> QED
    BY <1>3

\* The function of the timers that syn_timer_next_expiry computes is well defined.
LEMMA EarliestDef ==
  ASSUME NTimers \in Nat
  PROVE  Earliest = [n \in 0 .. NTimers |-> IF n = 0 THEN Max ELSE Nearer(Earliest[n - 1], n)]
  <1> DEFINE Fits(h, m) == h = [n \in 0 .. m |-> IF n = 0 THEN Max ELSE Nearer(h[n - 1], n)]
             T == {m \in 0 .. NTimers : ~\E h : Fits(h, m)}
  <1>1. T = {}
    <2> SUFFICES ASSUME T # {} PROVE FALSE
      BY Zenon
    <2>1. PICK m \in T : \A k \in T : m <= k
      <3>1. T \in SUBSET Nat
        OBVIOUS
      <3> HIDE DEF T
      <3> QED
        BY <3>1, Least, Zenon
    <2>2. m \in 0 .. NTimers /\ ~\E h : Fits(h, m)
      BY Zenon
    <2>3. CASE m = 0
      <3>1. Fits([n \in 0 .. 0 |-> Max], 0)
        OBVIOUS
      <3> QED
        BY <2>2, <2>3, <3>1, Zenon
    <2>4. CASE m # 0
      <3>1. m - 1 \in 0 .. NTimers /\ m - 1 \notin T
        BY <2>1, <2>2, <2>4
      <3>2. PICK h : Fits(h, m - 1)
        BY <3>1, Zenon
      <3> DEFINE g == [n \in 0 .. m |-> IF n = m THEN Nearer(h[m - 1], m) ELSE h[n]]
      <3>3. \A n \in 0 .. m - 1 : g[n] = IF n = 0 THEN Max ELSE Nearer(g[n - 1], n)
        <4>1. \A n \in 0 .. m - 1 : h[n] = IF n = 0 THEN Max ELSE Nearer(h[n - 1], n)
          BY <3>2, Zenon
        <4>2. \A n \in 0 .. m - 1 : g[n] = h[n]
          BY <2>2
        <4> HIDE DEF g
        <4>3. \A n \in 1 .. m - 1 : g[n - 1] = h[n - 1]
          BY <4>2, <2>2
        <4> QED
          BY <4>1, <4>2, <4>3, <2>2
      <3>4. g[m] = Nearer(g[m - 1], m)
        BY <2>2, <2>4
      <3>5. Fits(g, m)
        <4>1. \A n \in 0 .. m : g[n] = IF n = 0 THEN Max ELSE Nearer(g[n - 1], n)
          BY <3>3, <3>4, <2>2, <2>4
        <4>2. g = [n \in 0 .. m |-> g[n]]
          BY Zenon
        <4> HIDE DEF g
        <4> QED
          BY <4>1, <4>2, Zenon
      <3> QED
        BY <2>2, <3>5, Zenon
    <2> QED
      BY <2>3, <2>4, Zenon
  <1>2. Earliest = CHOOSE h : Fits(h, NTimers)
    BY Zenon DEF Earliest
  <1> HIDE DEF Fits
  <1>3. \E h : Fits(h, NTimers)
    BY <1>1
  <1>4. Fits(CHOOSE h : Fits(h, NTimers), NTimers)
    BY <1>3, Zenon
  <1> QED
    BY <1>2, <1>4, Zenon DEF Fits
-----------------------------------------------------------------------------
(* The timers. *)

\* The room that the width of the tick leaves.
LEMMA Room ==
  /\ MaxPeriod \in Nat \ {0} /\ MaxLate \in Nat /\ Half \in Nat /\ Wrap = 2 * Half /\ Max = Wrap - 1
  /\ 2 * MaxPeriod + MaxLate + 1 < Half /\ Ticks = 0 .. Wrap - 1 /\ Max \in Ticks
  BY ClockAssumption, TimerAssumption DEF Wrap, Max, Ticks

\* A millisecond does not take what is left out of the window.
LEMMA Window ==
  ASSUME NEW x \in -MaxLate - MaxPeriod .. MaxPeriod, -x < MaxLate + MaxPeriod
  PROVE  x > 1 - Half /\ x - 1 \in -MaxLate - MaxPeriod .. MaxPeriod
  BY Room

\* What is left of an active timer says whether it is due.
LEMMA TimerAhead ==
  ASSUME TimerTypeOK, TimerInv, NEW i \in Timers, timer_active[i]
  PROVE  /\ tick \in Ticks /\ target[i] \in Ticks /\ period[i] \in 1 .. MaxPeriod
         /\ due[i] \in -MaxLate - MaxPeriod .. MaxPeriod /\ Ahead(tick, target[i]) = due[i]
         /\ Due(tick, target[i]) <=> due[i] <= 0
         /\ Before(tick, target[i]) <=> due[i] > 0
  <1>1. /\ tick \in Ticks /\ target[i] \in Ticks /\ period[i] \in 1 .. MaxPeriod
        /\ due[i] \in -MaxLate - MaxPeriod .. MaxPeriod /\ Ahead(tick, target[i]) = due[i]
    BY Zenon DEF TimerTypeOK, TimerInv
  <1>2. Due(tick, target[i]) <=> due[i] <= 0
    BY <1>1, AheadIs, Zenon
  <1>3. due[i] <= 0 <=> ~(due[i] > 0)
    BY <1>1, Room
  <1> QED
    BY <1>1, <1>2, <1>3, Zenon DEF Before

\* syn_timer_start, syn_timer_stop and a new period keep the targets of the active timers.
LEMMA TimerCall ==
  ASSUME TimerTypeOK, TimerInv, tick' = tick, NEW i \in Timers,
         Start(i) \/ Stop(i) \/ \E p \in 1 .. MaxPeriod : SetPeriod(i, p)
  PROVE  TimerTypeOK' /\ TimerInv'
  <1> USE DEF TimerTypeOK, TimerInv
  <1>1. CASE Start(i)
    <2>1. period[i] \in 1 - Half .. Half /\ period[i] \in 1 .. MaxPeriod /\ tick \in Ticks
      BY Room
    <2> DEFINE d == (tick + period[i]) % Wrap
    <2>2. d \in Ticks /\ Ahead(tick, d) = period[i]
      BY <2>1, AheadOf, Zenon
    <2>3. /\ target' = [target EXCEPT ![i] = d] /\ timer_active' = [timer_active EXCEPT ![i] = TRUE]
          /\ due' = [due EXCEPT ![i] = period[i]] /\ period' = period /\ periodic' = periodic
      BY <1>1, Zenon DEF Start
    <2> HIDE DEF d
    <2>4. TimerTypeOK'
      BY <2>1, <2>2, <2>3, Room
    <2>5. TimerInv'
      BY <2>2, <2>3, Zenon
    <2> QED
      BY <2>4, <2>5, Zenon
  <1>2. CASE Stop(i)
    BY <1>2, Room DEF Stop
  <1>3. ASSUME NEW p \in 1 .. MaxPeriod, SetPeriod(i, p) PROVE TimerTypeOK' /\ TimerInv'
    BY <1>3, Zenon DEF SetPeriod
  <1> QED
    BY <1>1, <1>2, <1>3, Zenon

\* syn_timer_expired re-arms a periodic timer in phase, or anew when it is too late for that.
LEMMA TimerExpires ==
  ASSUME TimerTypeOK, TimerInv, tick' = tick, NEW i \in Timers, Expire(i)
  PROVE  TimerTypeOK' /\ TimerInv'
  <1> USE DEF TimerTypeOK, TimerInv
  <1>1. /\ timer_active[i] /\ target[i] \in Ticks /\ tick \in Ticks /\ period[i] \in 1 .. MaxPeriod
        /\ due[i] \in -MaxLate - MaxPeriod .. 0 /\ Ahead(tick, target[i]) = due[i]
        /\ period[i] \in 1 - Half .. Half
    <2>1. timer_active[i] /\ Due(tick, target[i])
      BY Zenon DEF Expire
    <2>2. /\ tick \in Ticks /\ target[i] \in Ticks /\ period[i] \in 1 .. MaxPeriod
          /\ due[i] \in -MaxLate - MaxPeriod .. MaxPeriod /\ Ahead(tick, target[i]) = due[i]
          /\ due[i] <= 0
      BY <2>1, TimerAhead, Zenon
    <2> HIDE DEF TimerTypeOK, TimerInv
    <2> QED
      BY <2>1, <2>2, Room
  <1>2. CASE ~periodic[i]
    BY <1>1, <1>2, Room DEF Expire
  <1>3. CASE periodic[i]
    <2> DEFINE n == (target[i] + period[i]) % Wrap
               r == (tick + period[i]) % Wrap
    <2>0. r \in Ticks /\ Ahead(tick, r) = period[i]
      BY <1>1, AheadOf, Zenon
    <2>1. r \in Ticks /\ Ahead(tick, r) = period[i] /\ period[i] \in -MaxLate - MaxPeriod .. MaxPeriod
      BY <1>1, <2>0, Room
    <2>2. n \in Ticks /\ Ahead(target[i], n) = period[i]
      BY <1>1, AheadOf, Zenon
    <2> HIDE DEF n, r
    <2>3. Ahead(tick, n) = due[i] + period[i]
      <3>1. Ahead(tick, target[i]) + Ahead(target[i], n) \in 1 - Half .. Half
        BY <1>1, <2>2, Room
      <3> QED
        BY <1>1, <2>2, <3>1, AheadPlus
    <2>4. Due(tick, n) <=> due[i] + period[i] <= 0
      BY <1>1, <2>2, <2>3, AheadIs
    <2>5. /\ target' = [target EXCEPT ![i] = IF Due(tick, n) THEN r ELSE n]
          /\ timer_active' = [timer_active EXCEPT ![i] = TRUE]
          /\ due' = [due EXCEPT ![i] = IF due[i] + period[i] > 0 THEN due[i] + period[i] ELSE period[i]]
          /\ period' = period /\ periodic' = periodic
      BY <1>3, Zenon DEF Expire, Rearm, n, r
    <2>6. CASE Due(tick, n)
      <3>1. target' = [target EXCEPT ![i] = r] /\ due' = [due EXCEPT ![i] = period[i]]
        <4>1. due[i] + period[i] \in Int /\ due[i] + period[i] <= 0
          BY <1>1, <2>4, <2>6
        <4>2. ~(due[i] + period[i] > 0)
          BY <4>1
        <4> QED
          BY <2>5, <2>6, <4>2, Zenon
      <3> QED
        BY <1>1, <2>1, <2>5, <3>1
    <2>7. CASE ~Due(tick, n)
      <3>1. target' = [target EXCEPT ![i] = n] /\ due' = [due EXCEPT ![i] = due[i] + period[i]]
        <4>1. due[i] + period[i] > 0
          BY <1>1, <2>4, <2>7
        <4> QED
          BY <2>5, <2>7, <4>1, Zenon
      <3>2. due[i] + period[i] \in -MaxLate - MaxPeriod .. MaxPeriod
        BY <1>1, Room
      <3> QED
        BY <1>1, <2>2, <2>3, <2>5, <3>1, <3>2
    <2> QED
      BY <2>6, <2>7, Zenon
  <1> QED
    BY <1>2, <1>3, Zenon

\* A millisecond takes one off what each has left.
LEMMA TimersTick ==
  ASSUME TimerTypeOK, TimerInv, tick' = (tick + 1) % Wrap, TimersAge,
         UNCHANGED <<period, target, timer_active, periodic>>,
         \A i \in Timers : -due[i] < MaxLate + MaxPeriod
  PROVE  TimerTypeOK' /\ TimerInv'
  <1>1. ASSUME NEW i \in Timers, timer_active[i]
        PROVE  due'[i] \in -MaxLate - MaxPeriod .. MaxPeriod /\ Ahead(tick', target'[i]) = due'[i]
    <2>1. /\ tick \in Ticks /\ target[i] \in Ticks /\ Ahead(tick, target[i]) = due[i]
          /\ due[i] \in -MaxLate - MaxPeriod .. MaxPeriod /\ -due[i] < MaxLate + MaxPeriod
          /\ due'[i] = due[i] - 1
      BY <1>1, Zenon DEF TimerTypeOK, TimerInv, TimersAge
    <2>2. due[i] > 1 - Half /\ due[i] - 1 \in -MaxLate - MaxPeriod .. MaxPeriod
      BY <2>1, Window, Zenon
    <2>3. Ahead(tick', target[i]) = Ahead(tick, target[i]) - 1
      BY <2>1, <2>2, AheadLater, Zenon
    <2> QED
      BY <2>1, <2>2, <2>3, Zenon
  <1>2. ASSUME NEW i \in Timers, ~timer_active[i] PROVE due'[i] \in -MaxLate - MaxPeriod .. MaxPeriod
    BY <1>2, Room DEF TimersAge
  <1>3. tick' \in Ticks
    <2>1. tick \in Ticks /\ Ahead(tick, tick) > 1 - Half
      BY AheadIs, Room DEF TimerTypeOK
    <2> QED
      BY <2>1, AheadLater, Zenon
  <1> QED
    BY <1>1, <1>2, <1>3, Zenon DEF TimerTypeOK, TimerInv, TimersAge

\* What the loop of syn_timer_next_expiry has found after n timers: a target that is still to
\* come, if any, and the first of them unless one is at the mark for none.
LEMMA EarliestIs ==
  ASSUME TimerTypeOK, TimerInv, NEW n \in 0 .. NTimers
  PROVE  /\ \/ Earliest[n] = Max
            \/ \E i \in 1 .. n : timer_active[i] /\ Before(tick, target[i]) /\ Earliest[n] = target[i]
         /\ NoTargetAtMax => \A j \in 1 .. n : timer_active[j] /\ Before(tick, target[j]) =>
              Earliest[n] # Max /\ Ahead(tick, Earliest[n]) <= Ahead(tick, target[j])
  <1> DEFINE From(m) == \E i \in 1 .. m : timer_active[i] /\ Before(tick, target[i]) /\ Earliest[m] = target[i]
             First(m) == \A j \in 1 .. m : timer_active[j] /\ Before(tick, target[j]) =>
                           Earliest[m] # Max /\ Ahead(tick, Earliest[m]) <= Ahead(tick, target[j])
             Good(m) == (Earliest[m] = Max \/ From(m)) /\ (NoTargetAtMax => First(m))
             T == {m \in 0 .. NTimers : ~Good(m)}
  <1> USE DEF Timers
  <1>0. NTimers \in Nat
    BY TimerAssumption, Zenon
  <1>1. /\ Earliest[0] = Max
        /\ \A m \in 1 .. NTimers : Earliest[m] = Nearer(Earliest[m - 1], m)
    BY <1>0, EarliestDef
  <1>2. ASSUME NEW i \in Timers, timer_active[i], Before(tick, target[i])
        PROVE  target[i] \in Ticks /\ Ahead(tick, target[i]) \in 1 .. MaxPeriod
    <2>1. /\ target[i] \in Ticks /\ Ahead(tick, target[i]) = due[i] /\ due[i] > 0
          /\ due[i] \in -MaxLate - MaxPeriod .. MaxPeriod
      BY <1>2, TimerAhead, Zenon
    <2> QED
      BY <2>1, Room
  <1>3. ASSUME NEW m \in 1 .. NTimers, Good(m - 1) PROVE Good(m)
    <2> DEFINE e == Earliest[m - 1]
    <2>1. Earliest[m] = Nearer(e, m) /\ m \in Timers
      BY <1>1, Zenon
    <2>2. e = Max \/ (e \in Ticks /\ Ahead(tick, e) \in 1 .. MaxPeriod)
      <3>1. CASE e = Max
        BY <3>1, Zenon
      <3>2. CASE From(m - 1)
        <4>1. PICK i \in 1 .. m - 1 : timer_active[i] /\ Before(tick, target[i]) /\ e = target[i]
          BY <3>2, Zenon
        <4>2. i \in Timers
          BY <1>0, <4>1
        <4> QED
          BY <1>2, <4>1, <4>2, Zenon
      <3> QED
        BY <1>3, <3>1, <3>2, Zenon
    <2>3. CASE timer_active[m] /\ Before(tick, target[m])
      <3>1. target[m] \in Ticks /\ Ahead(tick, target[m]) \in 1 .. MaxPeriod
        BY <1>2, <2>1, <2>3, Zenon
      <3>2. e # Max => (Before(target[m], e) <=> Ahead(tick, target[m]) < Ahead(tick, e))
        <4> SUFFICES ASSUME e # Max
                     PROVE  Before(target[m], e) <=> Ahead(tick, target[m]) < Ahead(tick, e)
          BY Zenon
        <4> HIDE DEF e
        <4>1. tick \in Ticks /\ e \in Ticks /\ Ahead(tick, e) \in 1 .. MaxPeriod
          BY <2>2, Zenon DEF TimerTypeOK
        <4>2. Ahead(tick, target[m]) - Ahead(tick, e) \in 1 - Half .. Half - 1
          BY <3>1, <4>1, Room
        <4>3. Due(target[m], e) <=> Ahead(tick, e) <= Ahead(tick, target[m])
          BY <3>1, <4>1, <4>2, DueByAhead, Zenon
        <4> QED
          BY <3>1, <4>1, <4>3, Room DEF Before
      <3>3. CASE Before(target[m], e) \/ e = Max
        <4>1. Earliest[m] = target[m]
          BY <2>1, <2>3, <3>3, Zenon DEF Nearer
        <4>2. From(m)
          BY <2>3, <4>1
        <4>3. NoTargetAtMax => First(m)
          <5> SUFFICES ASSUME NoTargetAtMax, NEW j \in 1 .. m, timer_active[j], Before(tick, target[j])
                       PROVE  target[m] # Max /\ Ahead(tick, target[m]) <= Ahead(tick, target[j])
            BY <4>1, Zenon
          <5>1. target[m] # Max
            BY <2>1, <2>3, Zenon DEF NoTargetAtMax
          <5>2. CASE j = m
            BY <5>1, <5>2, <3>1
          <5>3. CASE j # m
            <6>1. j \in 1 .. m - 1 /\ j \in Timers
              BY <5>3, <1>0
            <6>2. e # Max /\ Ahead(tick, e) <= Ahead(tick, target[j])
              BY <1>3, <6>1, Zenon
            <6>3. Ahead(tick, target[m]) < Ahead(tick, e)
              BY <3>2, <3>3, <6>2, Zenon
            <6>4. Ahead(tick, target[j]) \in 1 .. MaxPeriod
              BY <1>2, <6>1, Zenon
            <6> HIDE DEF e
            <6> QED
              BY <5>1, <6>2, <6>3, <6>4, <3>1, <2>2, Room
          <5> QED
            BY <5>2, <5>3, Zenon
        <4> QED
          BY <4>2, <4>3, Zenon
      <3>4. CASE ~(Before(target[m], e) \/ e = Max)
        <4>1. Earliest[m] = e
          BY <2>1, <3>4, Zenon DEF Nearer
        <4>2. From(m)
          BY <1>3, <3>4, <4>1
        <4>3. NoTargetAtMax => First(m)
          BY <1>3, <2>2, <3>1, <3>2, <3>4, <4>1, Room
        <4> QED
          BY <4>2, <4>3
      <3> QED
        BY <3>3, <3>4, Zenon
    <2>4. CASE ~(timer_active[m] /\ Before(tick, target[m]))
      <3>1. Earliest[m] = e
        BY <2>1, <2>4, Zenon DEF Nearer
      <3>2. e = Max \/ From(m)
        BY <1>3, <3>1
      <3>3. NoTargetAtMax => First(m)
        BY <1>3, <2>4, <3>1
      <3> QED
        BY <3>1, <3>2, <3>3, Zenon
    <2> QED
      BY <2>3, <2>4, Zenon
  <1>4. Good(0)
    BY <1>1
  <1> HIDE DEF Good
  <1>5. T = {}
    <2> SUFFICES ASSUME T # {} PROVE FALSE
      BY Zenon
    <2>1. PICK m \in T : \A k \in T : m <= k
      <3>1. T \in SUBSET Nat
        BY <1>0
      <3> HIDE DEF T
      <3> QED
        BY <3>1, Least, Zenon
    <2>2. m \in 1 .. NTimers /\ m - 1 \in 0 .. NTimers
      BY <1>0, <1>4
    <2>3. Good(m - 1)
      BY <2>1, <2>2
    <2> QED
      BY <1>3, <2>2, <2>3, Zenon
  <1> QED
    BY <1>5, Zenon DEF Good

\* syn_timer_next_expiry: no later than any active timer, outside the exceptions.
LEMMA NextExpiryIs ==
  ASSUME TimerTypeOK, TimerInv
  PROVE  /\ NextExpiry \in Ticks
         /\ NextExpiry # Max => Ahead(tick, NextExpiry) \in 0 .. MaxPeriod
         /\ NoTargetAtMax /\ tick # Max => \A i \in Timers : timer_active[i] =>
              /\ NextExpiry # Max
              /\ Ahead(tick, NextExpiry) <= 0 \/ Ahead(tick, NextExpiry) <= Ahead(tick, target[i])
  <1>1. tick \in Ticks /\ NTimers \in Nat
    BY TimerAssumption, Zenon DEF TimerTypeOK
  <1>2. CASE \E i \in Timers : timer_active[i] /\ Due(tick, target[i])
    <2>1. NextExpiry = tick
      BY <1>2, Zenon DEF NextExpiry
    <2>2. Ahead(tick, tick) = 0
      BY <1>1, AheadIs, Room
    <2> QED
      BY <1>1, <2>1, <2>2, Room
  <1>3. CASE ~\E i \in Timers : timer_active[i] /\ Due(tick, target[i])
    <2>1. NextExpiry = Earliest[NTimers]
      BY <1>3, Zenon DEF NextExpiry
    <2>2. \A i \in Timers : timer_active[i] =>
            /\ Before(tick, target[i]) /\ target[i] \in Ticks
            /\ Ahead(tick, target[i]) \in 1 .. MaxPeriod
      <3> SUFFICES ASSUME NEW i \in Timers, timer_active[i]
                   PROVE  /\ Before(tick, target[i]) /\ target[i] \in Ticks
                          /\ Ahead(tick, target[i]) \in 1 .. MaxPeriod
        BY Zenon
      <3>1. Before(tick, target[i])
        BY <1>3, Zenon DEF Before
      <3>2. target[i] \in Ticks /\ Ahead(tick, target[i]) = due[i] /\ due[i] > 0
            /\ due[i] \in -MaxLate - MaxPeriod .. MaxPeriod
        BY <3>1, TimerAhead, Zenon
      <3> QED
        BY <3>1, <3>2, Room
    <2>3. NTimers \in 0 .. NTimers
      BY <1>1
    <2>4. /\ \/ NextExpiry = Max
             \/ \E i \in Timers : timer_active[i] /\ Before(tick, target[i]) /\ NextExpiry = target[i]
          /\ NoTargetAtMax => \A j \in Timers : timer_active[j] /\ Before(tick, target[j]) =>
               NextExpiry # Max /\ Ahead(tick, NextExpiry) <= Ahead(tick, target[j])
      BY <2>1, <2>3, EarliestIs, Zenon DEF Timers
    <2>5. NextExpiry \in Ticks /\ (NextExpiry # Max => Ahead(tick, NextExpiry) \in 0 .. MaxPeriod)
      BY <2>2, <2>4, Room
    <2> QED
      BY <2>2, <2>4, <2>5, Zenon
  <1> QED
    BY <1>2, <1>3, Zenon

\* The earlier of two deadlines is no later than either.
LEMMA EarlierIs ==
  ASSUME NEW a \in Ticks, NEW b \in Ticks, tick \in Ticks,
         a # Max => Ahead(tick, a) \in -MaxLate .. MaxPeriod + 1,
         b # Max => Ahead(tick, b) \in 0 .. MaxPeriod
  PROVE  /\ Earlier(a, b) \in {a, b}
         /\ a # Max => Earlier(a, b) # Max /\ Ahead(tick, Earlier(a, b)) <= Ahead(tick, a)
         /\ b # Max => Earlier(a, b) # Max /\ Ahead(tick, Earlier(a, b)) <= Ahead(tick, b)
  <1>1. CASE a = Max \/ b = Max
    BY <1>1, Room DEF Earlier
  <1>2. CASE a # Max /\ b # Max
    <2>1. /\ Ahead(tick, a) \in -MaxLate .. MaxPeriod + 1 /\ Ahead(tick, b) \in 0 .. MaxPeriod
          /\ Ahead(tick, b) - Ahead(tick, a) \in 1 - Half .. Half - 1
      BY <1>2, Room
    <2>2. Due(b, a) <=> Ahead(tick, a) <= Ahead(tick, b)
      BY <2>1, DueByAhead, Zenon
    <2> QED
      BY <1>2, <2>1, <2>2, Room DEF Earlier, Before
  <1> QED
    BY <1>1, <1>2, Zenon
-----------------------------------------------------------------------------
(* The tasks. *)

\* syn_task_delay and a timeout: ahead by what was asked, or one more at the wrap.
LEMMA DeadlineIs ==
  ASSUME tick \in Ticks, NEW p \in 1 .. MaxPeriod
  PROVE  Deadline(p) \in Ticks /\ Ahead(tick, Deadline(p)) \in 1 .. MaxPeriod + 1
  <1> DEFINE w == (tick + p) % Wrap
  <1>1. p \in 1 - Half .. Half
    BY Room
  <1>2. w \in Ticks /\ Ahead(tick, w) = p
    BY <1>1, AheadOf, Zenon
  <1>3. Deadline(p) = IF w = 0 THEN 1 ELSE w
    BY Zenon DEF Deadline
  <1> HIDE DEF w
  <1>4. CASE w = 0
    <2>1. 0 \in Ticks /\ 1 \in Ticks
      BY Room
    <2>2. Ahead(0, 1) = 1
      BY <2>1, AheadIs, Room
    <2>3. Ahead(tick, 0) + Ahead(0, 1) \in 1 - Half .. Half
      BY <1>2, <1>4, <2>2, Room
    <2>4. Ahead(tick, 1) = p + 1
      BY <1>2, <1>4, <2>1, <2>2, <2>3, AheadPlus
    <2> QED
      BY <1>3, <1>4, <2>1, <2>4, Room
  <1>5. CASE w # 0
    BY <1>2, <1>3, <1>5, Room
  <1> QED
    BY <1>4, <1>5, Zenon

\* A deadline moved away from the mark for none is still not in the past.
LEMMA CapIs ==
  ASSUME tick \in Ticks, NEW d \in Ticks, Ahead(tick, d) \in 1 .. MaxPeriod + 1
  PROVE  /\ Cap(d) \in Ticks /\ Cap(d) # Max /\ Ahead(tick, Cap(d)) \in 0 .. MaxPeriod + 1
         /\ Ahead(tick, Cap(d)) <= Ahead(tick, d)
  <1>1. CASE d = Max
    <2> DEFINE c == Max - 1
    <2>1. c \in Ticks /\ c = d - 1
      BY <1>1, Room
    <2>2. Ahead(d, c) = -1
      <3> HIDE DEF c
      <3> QED
        BY <2>1, AheadIs, Room
    <2>3. Cap(d) = c /\ c # Max
      BY <1>1, Room DEF Cap
    <2> HIDE DEF c
    <2>4. Ahead(tick, d) + Ahead(d, c) \in 1 - Half .. Half
      BY <2>2, Room
    <2>5. Ahead(tick, c) = Ahead(tick, d) - 1
      BY <2>1, <2>2, <2>4, AheadPlus
    <2> QED
      BY <2>1, <2>3, <2>5, Room
  <1>2. CASE d # Max
    BY <1>2, Room DEF Cap
  <1> QED
    BY <1>1, <1>2, Zenon

\* How far ahead a delay or a timeout is says whether it has passed.
LEMMA DelayAhead ==
  ASSUME TicklessTypeOK, DelayInv, NEW t \in Tasks, delay_until[t] # 0
  PROVE  /\ tick \in Ticks /\ delay_until[t] \in Ticks
         /\ Ahead(tick, delay_until[t]) \in -(MaxLate + MaxPeriod) .. MaxPeriod + 1
         /\ Due(tick, delay_until[t]) <=> Ahead(tick, delay_until[t]) <= 0
  <1>1. /\ tick \in Ticks /\ delay_until[t] \in Ticks
        /\ Ahead(tick, delay_until[t]) \in -(MaxLate + MaxPeriod) .. MaxPeriod + 1
    BY Zenon DEF TicklessTypeOK, TimerTypeOK, DelayInv
  <1> QED
    BY <1>1, AheadIs, Zenon

\* syn_sched_next_wakeup: now, when a task is to run; else no later than any deadline.
LEMMA NextWakeupIs ==
  ASSUME TicklessTypeOK, DelayInv
  PROVE  /\ NextWakeup \in Ticks
         /\ NextWakeup # Max => Ahead(tick, NextWakeup) \in 0 .. MaxPeriod + 1
         /\ tick # Max => \A t \in Tasks :
              /\ Runnable(t) => NextWakeup # Max /\ Ahead(tick, NextWakeup) <= 0
              /\ delay_until[t] # 0 /\ ~Due(tick, delay_until[t]) =>
                   NextWakeup # Max /\ Ahead(tick, NextWakeup) <= Ahead(tick, delay_until[t])
  <1> DEFINE Ahd(t) == Ahead(tick, delay_until[t])
             Waits(t) == delay_until[t] # 0 /\ ~Due(tick, delay_until[t])
  <1>1. tick \in Ticks /\ Ahead(tick, tick) = 0
    BY AheadIs, Room DEF TicklessTypeOK, TimerTypeOK
  <1>2. ASSUME NEW t \in Tasks, Waits(t)
        PROVE  /\ delay_until[t] \in Ticks /\ Ahd(t) \in 1 .. MaxPeriod + 1
               /\ Cap(delay_until[t]) \in Ticks /\ Cap(delay_until[t]) # Max
               /\ Ahead(tick, Cap(delay_until[t])) \in 0 .. MaxPeriod + 1
               /\ Ahead(tick, Cap(delay_until[t])) <= Ahd(t)
    <2>1. /\ delay_until[t] \in Ticks /\ Ahd(t) \in -(MaxLate + MaxPeriod) .. MaxPeriod + 1
          /\ ~(Ahd(t) <= 0)
      BY <1>2, DelayAhead, Zenon
    <2>2. Ahd(t) \in 1 .. MaxPeriod + 1
      BY <2>1, Room
    <2> QED
      BY <1>1, <2>1, <2>2, CapIs, Zenon
  <1>3. CASE \E t \in Tasks : Runnable(t)
    <2>1. NextWakeup = tick
      BY <1>3, Zenon DEF NextWakeup
    <2>2. \A t \in Tasks : Waits(t) => 0 <= Ahd(t)
      BY <1>2, Room
    <2> QED
      BY <1>1, <2>1, <2>2, Room
  <1>4. CASE ~(\E t \in Tasks : Runnable(t)) /\ Pending = {}
    <2>1. NextWakeup = Max
      BY <1>4, Zenon DEF NextWakeup
    <2>2. ~\E t \in Tasks : Waits(t)
      BY <1>4, Zenon DEF Pending
    <2> QED
      BY <1>4, <2>1, <2>2, Room, Zenon
  <1>5. CASE ~(\E t \in Tasks : Runnable(t)) /\ Pending # {}
    <2> DEFINE Dist == {Ahead(tick, d) : d \in Pending}
               IsFirst(d) == d \in Pending /\ \A e \in Pending : ~Before(e, d)
    <2>1. \A d \in Pending : d \in Ticks /\ d # Max /\ Ahead(tick, d) \in 0 .. MaxPeriod + 1
      BY <1>2, Zenon DEF Pending
    <2>2. \A d \in Pending : \A e \in Pending : ~Before(e, d) <=> Ahead(tick, d) <= Ahead(tick, e)
      <3> SUFFICES ASSUME NEW d \in Pending, NEW e \in Pending
                   PROVE  Due(e, d) <=> Ahead(tick, d) <= Ahead(tick, e)
        BY Zenon DEF Before
      <3>1. d \in Ticks /\ e \in Ticks /\ Ahead(tick, e) - Ahead(tick, d) \in 1 - Half .. Half - 1
        BY <2>1, Room
      <3> QED
        BY <1>1, <3>1, DueByAhead, Zenon
    <2>3. \E d : IsFirst(d)
      <3>1. Dist \in SUBSET Nat /\ Dist # {}
        BY <1>5, <2>1, Room
      <3>2. PICK m \in Dist : \A k \in Dist : m <= k
        <4> HIDE DEF Dist
        <4> QED
          BY <3>1, Least, Zenon
      <3>3. PICK d \in Pending : m = Ahead(tick, d)
        BY Zenon
      <3> QED
        BY <2>2, <3>2, <3>3
    <2>4. NextWakeup = CHOOSE d \in Pending : \A e \in Pending : ~Before(e, d)
      BY <1>5, Zenon DEF NextWakeup
    <2>5. IsFirst(NextWakeup)
      BY <2>3, <2>4, Zenon
    <2>6. \A t \in Tasks : Waits(t) =>
            NextWakeup # Max /\ Ahead(tick, NextWakeup) <= Ahead(tick, Cap(delay_until[t]))
      <3> SUFFICES ASSUME NEW t \in Tasks, Waits(t)
                   PROVE  NextWakeup # Max
                          /\ Ahead(tick, NextWakeup) <= Ahead(tick, Cap(delay_until[t]))
        BY Zenon
      <3>1. Cap(delay_until[t]) \in Pending
        BY Zenon DEF Pending
      <3> QED
        BY <2>1, <2>2, <2>5, <3>1, Zenon
    <2>7. \A t \in Tasks : Waits(t) => NextWakeup # Max /\ Ahead(tick, NextWakeup) <= Ahd(t)
      <3> SUFFICES ASSUME NEW t \in Tasks, Waits(t)
                   PROVE  NextWakeup # Max /\ Ahead(tick, NextWakeup) <= Ahd(t)
        BY Zenon
      <3>1. /\ Ahead(tick, Cap(delay_until[t])) \in 0 .. MaxPeriod + 1 /\ Ahd(t) \in 1 .. MaxPeriod + 1
            /\ Ahead(tick, Cap(delay_until[t])) <= Ahd(t)
        BY <1>2, Zenon
      <3>2. NextWakeup # Max /\ Ahead(tick, NextWakeup) <= Ahead(tick, Cap(delay_until[t]))
        BY <2>6, Zenon
      <3>3. Ahead(tick, NextWakeup) \in 0 .. MaxPeriod + 1
        BY <2>1, <2>5, Zenon
      <3> QED
        BY <3>1, <3>2, <3>3, Room
    <2> QED
      BY <1>5, <2>1, <2>5, <2>7, Zenon
  <1> QED
    BY <1>3, <1>4, <1>5, Zenon
-----------------------------------------------------------------------------
(* The inductive invariant. *)

LEMMA InitIndInv == TicklessInit => TicklessInv
  <1> SUFFICES ASSUME TicklessInit PROVE TicklessInv
    BY Zenon
  <1>1. /\ 0 \in Ticks /\ StartTicks \subseteq Ticks /\ NTimers \in Nat /\ MaxPeriod \in 1 .. MaxPeriod
        /\ 0 \in -MaxLate - MaxPeriod .. MaxPeriod /\ Max \in Ticks /\ 1 \in 1 .. NTimers + 1
    BY TimerAssumption, Room DEF Wrap
  <1>2. TimerTypeOK
    BY <1>1, Zenon DEF TicklessInit, TimerInit, TimerTypeOK
  <1>3. TicklessTypeOK
    BY <1>1, <1>2, Zenon DEF TicklessInit, TicklessTypeOK, Phases
  <1>4. TimerInv /\ LoopInv /\ DelayInv /\ TaskCover /\ TimerCover
    BY Zenon DEF TicklessInit, TimerInit, TimerInv, LoopInv, DelayInv, TaskCover, TimerCover
  <1> QED
    BY <1>3, <1>4, Zenon DEF TicklessInv

\* While the loop is not deciding or sleeping, nothing is said of its decision.
LEMMA NotDeciding ==
  ASSUME phase' \in {"run", "service"}
  PROVE  LoopInv' /\ TaskCover' /\ TimerCover'
  BY Zenon DEF LoopInv, TaskCover, TimerCover

\* What a step that leaves the tick, the timers and the tasks alone keeps.
LEMMA DataFrame ==
  ASSUME TicklessInv, UNCHANGED <<tick, timer_vars, task_vars>>
  PROVE  /\ TimerTypeOK' /\ TimerInv' /\ DelayInv'
         /\ state' \in [Tasks -> {"READY", "BLOCKED"}] /\ delay_until' \in [Tasks -> Ticks]
  BY Zenon DEF TicklessInv, TicklessTypeOK, TimerTypeOK, TimerInv, DelayInv, timer_vars, task_vars

LEMMA DecisionFrame ==
  ASSUME TicklessInv, UNCHANGED <<tick, timer_vars, task_vars, locked, phase, now, wake, at_max, masked>>
  PROVE  LoopInv' /\ TaskCover' /\ TimerCover'
  <1>1. LoopInv'
    BY Zenon DEF TicklessInv, LoopInv
  <1>2. TaskCover'
    BY Zenon DEF TicklessInv, TaskCover, Runnable, task_vars
  <1>3. TimerCover'
    BY Zenon DEF TicklessInv, TimerCover, NoTargetAtMax, timer_vars
  <1> QED
    BY <1>1, <1>2, <1>3, Zenon

LEMMA RunTaskStep ==
  ASSUME TicklessInv, NEW t \in Tasks, RunTask(t)
  PROVE  TicklessInv'
  <1>1. TicklessTypeOK /\ TimerTypeOK /\ TimerInv /\ DelayInv /\ tick \in Ticks /\ tick' = tick
    BY Zenon DEF TicklessInv, TicklessTypeOK, TimerTypeOK, RunTask
  <1>2. TimerTypeOK' /\ TimerInv'
    <2>1. CASE UNCHANGED timer_vars
      BY <1>1, <2>1, Zenon DEF TimerTypeOK, TimerInv, timer_vars
    <2>2. CASE \E i \in Timers : Start(i) \/ Stop(i) \/ \E p \in 1 .. MaxPeriod : SetPeriod(i, p)
      BY <1>1, <2>2, TimerCall, Zenon
    <2> QED
      BY <2>1, <2>2, Zenon DEF RunTask
  <1>3. PICK d \in {0} \cup {Deadline(p) : p \in 1 .. MaxPeriod} :
          delay_until' = [delay_until EXCEPT ![t] = d]
    BY Zenon DEF RunTask
  <1>4. d \in Ticks /\ (d # 0 => Ahead(tick, d) \in -(MaxLate + MaxPeriod) .. MaxPeriod + 1)
    <2>1. CASE d = 0
      BY <2>1, Room
    <2>2. CASE d # 0
      <3>1. d \in Ticks /\ Ahead(tick, d) \in 1 .. MaxPeriod + 1
        BY <1>1, <1>3, <2>2, DeadlineIs, Zenon
      <3> QED
        BY <3>1, Room
    <2> QED
      BY <2>1, <2>2, Zenon
  <1>5. TicklessTypeOK'
    BY <1>1, <1>2, <1>3, <1>4, Zenon DEF TicklessTypeOK, RunTask, irq_vars, Phases
  <1>6. DelayInv'
    BY <1>1, <1>3, <1>4, Zenon DEF DelayInv, TicklessTypeOK
  <1>7. LoopInv' /\ TaskCover' /\ TimerCover'
    BY NotDeciding, Zenon DEF RunTask
  <1> QED
    BY <1>2, <1>5, <1>6, <1>7, Zenon DEF TicklessInv

LEMMA ServiceStep ==
  ASSUME TicklessInv, RunNothing \/ Service
  PROVE  TicklessInv'
  <1>1. TicklessTypeOK /\ TimerTypeOK /\ TimerInv /\ DelayInv /\ tick' = tick /\ UNCHANGED task_vars
    BY Zenon DEF TicklessInv, TicklessTypeOK, RunNothing, Service
  <1>2. TimerTypeOK' /\ TimerInv'
    <2>1. CASE UNCHANGED timer_vars
      BY <1>1, <2>1, Zenon DEF TimerTypeOK, TimerInv, timer_vars
    <2>2. CASE Service /\ Expire(index)
      <3>1. index \in Timers
        BY <1>1, <2>2, TimerAssumption DEF Service, TicklessTypeOK, Timers
      <3> QED
        BY <1>1, <2>2, <3>1, TimerExpires, Zenon
    <2> QED
      BY <2>1, <2>2, Zenon DEF RunNothing, Service
  <1>3. TicklessTypeOK'
    <2>1. index' \in 1 .. NTimers + 1
      BY <1>1, TimerAssumption DEF TicklessTypeOK, RunNothing, Service
    <2> QED
      BY <1>1, <1>2, <2>1, Zenon DEF TicklessTypeOK, RunNothing, Service, task_vars, sleep_vars, irq_vars, Phases
  <1>4. DelayInv'
    BY <1>1, Zenon DEF DelayInv, task_vars
  <1>5. LoopInv' /\ TaskCover' /\ TimerCover'
    BY NotDeciding, Zenon DEF RunNothing, Service
  <1> QED
    BY <1>2, <1>3, <1>4, <1>5, Zenon DEF TicklessInv

\* The loop goes round, from its decision or from its sleep.
LEMMA AgainStep ==
  ASSUME TicklessInv, Again, UNCHANGED <<tick, timer_vars, task_vars, sleep_vars, index, pending>>
  PROVE  TicklessInv'
  <1>0. 0 \in Ticks /\ Max \in Ticks
    BY Room
  <1>1. TicklessTypeOK' /\ TimerInv' /\ DelayInv'
    BY <1>0, DataFrame, Zenon DEF TicklessInv, Again, TicklessTypeOK, Phases, sleep_vars
  <1>2. LoopInv' /\ TaskCover' /\ TimerCover'
    BY NotDeciding, Zenon DEF Again
  <1> QED
    BY <1>1, <1>2, Zenon DEF TicklessInv

\* The loop masks the interrupts and reads the tick, and then reads the tasks' deadline.
LEMMA MaskStep ==
  ASSUME TicklessInv, Mask
  PROVE  TicklessInv'
  <1>1. TicklessTypeOK' /\ TimerInv' /\ DelayInv'
    <2>1. tick \in Ticks /\ 1 \in 1 .. NTimers + 1
      BY TimerAssumption DEF TicklessInv, TicklessTypeOK, TimerTypeOK
    <2> QED
      BY <2>1, DataFrame, Zenon DEF TicklessInv, Mask, TicklessTypeOK, Phases, sleep_vars
  <1>2. tick \in Ticks /\ Ahead(tick, tick) = 0
    BY AheadIs, Room DEF TicklessInv, TicklessTypeOK, TimerTypeOK
  <1>3. LoopInv' /\ TaskCover' /\ TimerCover'
    BY <1>2, Room DEF Mask, LoopInv, TaskCover, TimerCover
  <1> QED
    BY <1>1, <1>3, Zenon DEF TicklessInv

LEMMA TaskWakeStep ==
  ASSUME TicklessInv, TaskWake
  PROVE  TicklessInv'
  <1>1. TicklessTypeOK /\ DelayInv /\ tick' = tick /\ UNCHANGED task_vars /\ wake' = NextWakeup
        /\ at_max' = (tick = Max) /\ phase = "tasks" /\ phase' = "timers" /\ now' = now /\ masked' = masked
    BY Zenon DEF TicklessInv, TaskWake, irq_vars
  <1>2. /\ NextWakeup \in Ticks
        /\ NextWakeup # Max => Ahead(tick, NextWakeup) \in 0 .. MaxPeriod + 1
        /\ tick # Max => \A t \in Tasks :
              /\ Runnable(t) => NextWakeup # Max /\ Ahead(tick, NextWakeup) <= 0
              /\ delay_until[t] # 0 /\ ~Due(tick, delay_until[t]) =>
                   NextWakeup # Max /\ Ahead(tick, NextWakeup) <= Ahead(tick, delay_until[t])
    BY <1>1, NextWakeupIs, Zenon
  <1>3. TicklessTypeOK' /\ TimerInv' /\ DelayInv'
    BY <1>1, <1>2, DataFrame, Zenon DEF TicklessInv, TaskWake, TicklessTypeOK, Phases, sleep_vars, irq_vars
  <1>4. LoopInv'
    <2>1. masked /\ Ahead(tick, now) \in -MaxLate .. 0
      BY <1>1, Zenon DEF TicklessInv, LoopInv
    <2> QED
      BY <1>1, <1>2, <2>1, Room DEF LoopInv
  <1>5. TaskCover'
    BY <1>1, <1>2, Zenon DEF TaskCover, Runnable, task_vars
  <1>6. TimerCover'
    BY <1>1, Zenon DEF TimerCover
  <1> QED
    BY <1>3, <1>4, <1>5, <1>6, Zenon DEF TicklessInv

\* The decision takes the earlier of the tasks' and the timers' deadline.
LEMMA DecideStep ==
  ASSUME TicklessInv, Decide
  PROVE  TicklessInv'
  <1> DEFINE w == Earlier(wake, NextExpiry)
  <1>1. /\ TicklessTypeOK /\ TimerTypeOK /\ TimerInv /\ LoopInv /\ TaskCover
        /\ UNCHANGED <<tick, timer_vars, task_vars, sleep_vars, index, pending>>
        /\ phase = "timers" /\ tick \in Ticks /\ wake \in Ticks
    BY Zenon DEF TicklessInv, Decide, TicklessTypeOK, TimerTypeOK
  <1>2. CASE ~(w # now /\ ~locked)
    BY <1>1, <1>2, AgainStep, Zenon DEF Decide
  <1>3. CASE w # now /\ ~locked
    <2>1. /\ phase' = "enter" /\ wake' = w /\ at_max' = (at_max \/ tick = Max)
          /\ now' = now /\ masked' = masked
      BY <1>3, Zenon DEF Decide
    <2>2. /\ masked /\ Ahead(tick, now) \in -MaxLate .. 0
          /\ wake # Max => Ahead(tick, now) <= Ahead(tick, wake)
          /\ wake # Max => Ahead(tick, wake) \in -MaxLate .. MaxPeriod + 1
      BY <1>1, Zenon DEF LoopInv
    <2>3. /\ NextExpiry \in Ticks
          /\ NextExpiry # Max => Ahead(tick, NextExpiry) \in 0 .. MaxPeriod
          /\ NoTargetAtMax /\ tick # Max => \A i \in Timers : timer_active[i] =>
               /\ NextExpiry # Max
               /\ Ahead(tick, NextExpiry) <= 0 \/ Ahead(tick, NextExpiry) <= Ahead(tick, target[i])
      BY <1>1, NextExpiryIs, Zenon
    <2>4. /\ w \in {wake, NextExpiry}
          /\ wake # Max => w # Max /\ Ahead(tick, w) <= Ahead(tick, wake)
          /\ NextExpiry # Max => w # Max /\ Ahead(tick, w) <= Ahead(tick, NextExpiry)
      BY <1>1, <2>2, <2>3, EarlierIs, Zenon
    <2> HIDE DEF w
    <2>5. w # Max => Ahead(tick, w) \in -MaxLate .. MaxPeriod + 1 /\ Ahead(tick, now) <= Ahead(tick, w)
      <3>1. CASE w = wake
        BY <2>2, <3>1, Zenon
      <3>2. CASE w = NextExpiry
        BY <2>2, <2>3, <3>2, Room
      <3> QED
        BY <2>4, <3>1, <3>2, Zenon
    <2>6. TicklessTypeOK' /\ TimerInv' /\ DelayInv'
      <3>1. w \in Ticks
        BY <1>1, <2>3, <2>4, Zenon
      <3> QED
        BY <1>1, <2>1, <3>1, DataFrame, Zenon DEF TicklessTypeOK, Phases, sleep_vars
    <2>7. LoopInv'
      BY <1>1, <1>3, <2>1, <2>2, <2>5, Zenon DEF LoopInv, sleep_vars
    <2>8. TaskCover'
      <3> SUFFICES ASSUME ~at_max, NEW t \in Tasks
                   PROVE  /\ Runnable(t) => w # Max /\ Ahead(tick, w) <= 0
                          /\ delay_until[t] # 0 /\ ~Due(tick, delay_until[t]) =>
                               w # Max /\ Ahead(tick, w) <= Ahead(tick, delay_until[t])
        BY <1>1, <2>1, Zenon DEF TaskCover, Runnable, task_vars
      <3>1. /\ Runnable(t) => wake # Max /\ Ahead(tick, wake) <= 0
            /\ delay_until[t] # 0 /\ ~Due(tick, delay_until[t]) =>
                 wake # Max /\ Ahead(tick, wake) <= Ahead(tick, delay_until[t])
        BY <1>1, Zenon DEF TaskCover
      <3>2. CASE wake = Max
        BY <3>1, <3>2, Zenon
      <3>3. CASE wake # Max
        <4>1. /\ Ahead(tick, w) \in Int /\ Ahead(tick, wake) \in Int
              /\ w # Max /\ Ahead(tick, w) <= Ahead(tick, wake)
          BY <2>2, <2>4, <2>5, <3>3, Room
        <4>2. delay_until[t] # 0 => Ahead(tick, delay_until[t]) \in Int
          BY <1>1, DelayAhead, Room DEF TicklessInv
        <4> QED
          BY <3>1, <4>1, <4>2
      <3> QED
        BY <3>2, <3>3, Zenon
    <2>9. TimerCover'
      <3> SUFFICES ASSUME ~at_max, tick # Max, NoTargetAtMax, NEW i \in Timers, timer_active[i]
                   PROVE  w # Max /\ (Ahead(tick, w) <= 0 \/ Ahead(tick, w) <= Ahead(tick, target[i]))
        BY <1>1, <2>1, Zenon DEF TimerCover, NoTargetAtMax, timer_vars
      <3>1. /\ NextExpiry # Max /\ Ahead(tick, NextExpiry) \in 0 .. MaxPeriod
            /\ Ahead(tick, NextExpiry) <= 0 \/ Ahead(tick, NextExpiry) <= Ahead(tick, target[i])
        BY <2>3, Zenon
      <3>2. w # Max /\ Ahead(tick, w) \in Int /\ Ahead(tick, w) <= Ahead(tick, NextExpiry)
        BY <2>4, <2>5, <3>1, Room
      <3>3. Ahead(tick, target[i]) \in Int
        <4>1. Ahead(tick, target[i]) = due[i] /\ due[i] \in -MaxLate - MaxPeriod .. MaxPeriod
          BY <1>1, TimerAhead, Zenon
        <4> QED
          BY <4>1, Room
      <3> QED
        BY <3>1, <3>2, <3>3, Room
    <2> QED
      BY <2>6, <2>7, <2>8, <2>9 DEF TicklessInv
  <1> QED
    BY <1>2, <1>3, Zenon

LEMMA EnterStep ==
  ASSUME TicklessInv, Enter
  PROVE  TicklessInv'
  <1>1. CASE wake = Max /\ (~enabled \/ locked)
    BY <1>1, AgainStep, Zenon DEF Enter
  <1>2. CASE ~(wake = Max /\ (~enabled \/ locked))
    <2>1. /\ phase = "enter" /\ phase' = "asleep"
          /\ UNCHANGED <<tick, timer_vars, task_vars, sleep_vars, index, pending, now, wake, at_max, masked>>
      BY <1>2, Zenon DEF Enter
    <2>2. TicklessTypeOK' /\ TimerInv' /\ DelayInv'
      BY <2>1, DataFrame, Zenon DEF TicklessInv, TicklessTypeOK, Phases, sleep_vars
    <2>3. LoopInv'
      BY <2>1, Zenon DEF TicklessInv, LoopInv, sleep_vars
    <2>4. TaskCover'
      BY <2>1, Zenon DEF TicklessInv, TaskCover, Runnable, task_vars
    <2>5. TimerCover'
      BY <2>1, Zenon DEF TicklessInv, TimerCover, NoTargetAtMax, timer_vars
    <2> QED
      BY <2>2, <2>3, <2>4, <2>5 DEF TicklessInv
  <1> QED
    BY <1>1, <1>2, Zenon

\* Interrupts are handled only while the loop does not decide.
LEMMA InterruptStep ==
  ASSUME TicklessInv, NEW t \in Tasks, Raise(t) \/ Handle(t)
  PROVE  TicklessInv'
  <1>1. CASE Raise(t)
    <2>1. UNCHANGED <<tick, timer_vars, task_vars, sleep_vars, loop_vars, masked>>
      BY <1>1, Zenon DEF Raise
    <2>2. TicklessTypeOK' /\ TimerInv' /\ DelayInv'
      <3>1. pending' \subseteq Tasks
        BY <1>1, Zenon DEF Raise, TicklessInv, TicklessTypeOK
      <3> QED
        BY <2>1, <3>1, DataFrame, Zenon DEF TicklessInv, TicklessTypeOK, sleep_vars, loop_vars
    <2>3. LoopInv' /\ TaskCover' /\ TimerCover'
      BY <2>1, DecisionFrame, Zenon DEF sleep_vars, loop_vars
    <2> QED
      BY <2>2, <2>3, Zenon DEF TicklessInv
  <1>2. CASE Handle(t)
    <2>1. TicklessTypeOK' /\ TimerInv' /\ DelayInv'
      BY <1>2, Zenon DEF Handle, TicklessInv, TicklessTypeOK, TimerTypeOK, TimerInv, DelayInv, Phases, timer_vars, loop_vars
    <2>2. phase' \in {"run", "service"}
      BY <1>2, Zenon DEF Handle, TicklessInv, LoopInv, TicklessTypeOK, Phases, loop_vars
    <2> QED
      BY <2>1, <2>2, NotDeciding, Zenon DEF TicklessInv
  <1> QED
    BY <1>1, <1>2, Zenon

\* A millisecond brings everything nearer by one, and nothing out of the window.
LEMMA TickStep ==
  ASSUME TicklessInv, Tick
  PROVE  TicklessInv'
  <1>1. /\ TicklessTypeOK /\ TimerTypeOK /\ TimerInv /\ LoopInv /\ DelayInv /\ TaskCover /\ TimerCover
        /\ tick \in Ticks /\ now \in Ticks /\ wake \in Ticks
    BY Zenon DEF TicklessInv, TicklessTypeOK, TimerTypeOK
  <1>2. /\ tick' = (tick + 1) % Wrap /\ TimersAge
        /\ UNCHANGED <<period, target, timer_active, periodic>>
        /\ state' = state /\ delay_until' = delay_until /\ locked' = locked /\ enabled' = enabled
        /\ phase' = phase /\ index' = index /\ now' = now /\ wake' = wake /\ at_max' = at_max
        /\ masked' = masked /\ pending' = pending
    BY Zenon DEF Tick, task_vars, sleep_vars, loop_vars, irq_vars
  <1>3. ASSUME NEW d \in Ticks, Ahead(tick, d) \in -(MaxLate + MaxPeriod) .. MaxPeriod + 1
        PROVE  Ahead(tick', d) = Ahead(tick, d) - 1
    <2>1. Ahead(tick, d) > 1 - Half
      BY <1>3, Room
    <2> QED
      BY <1>1, <1>2, <2>1, AheadLater, Zenon
  <1>4. TimerTypeOK' /\ TimerInv'
    <2>1. \A i \in Timers : -due[i] < MaxLate + MaxPeriod
      <3> SUFFICES ASSUME NEW i \in Timers PROVE -due[i] < MaxLate + MaxPeriod
        BY Zenon
      <3>1. due[i] \in -MaxLate - MaxPeriod .. MaxPeriod
        BY <1>1, Zenon DEF TimerTypeOK
      <3>2. -due[i] < MaxLate + MaxPeriod \/ -due[i] < MaxLate
        BY Zenon DEF Tick
      <3> QED
        BY <3>1, <3>2, Room
    <2> QED
      BY <1>1, <1>2, <2>1, TimersTick, Zenon
  <1>5. TicklessTypeOK'
    BY <1>1, <1>2, <1>4, Zenon DEF TicklessTypeOK
  <1>6. ASSUME NEW t \in Tasks, delay_until[t] # 0
        PROVE  /\ Ahead(tick', delay_until[t]) = Ahead(tick, delay_until[t]) - 1
               /\ Ahead(tick', delay_until[t]) \in -(MaxLate + MaxPeriod) .. MaxPeriod + 1
    <2>1. /\ delay_until[t] \in Ticks
          /\ Ahead(tick, delay_until[t]) \in -(MaxLate + MaxPeriod) .. MaxPeriod + 1
          /\ Due(tick, delay_until[t]) <=> Ahead(tick, delay_until[t]) <= 0
      BY <1>1, <1>6, DelayAhead, Zenon
    <2>2. Ahead(tick', delay_until[t]) = Ahead(tick, delay_until[t]) - 1
      BY <1>3, <2>1, Zenon
    <2>3. Ahead(tick, delay_until[t]) > -(MaxLate + MaxPeriod)
      <3>1. CASE Before(tick, delay_until[t])
        BY <2>1, <3>1, Room DEF Before
      <3>2. CASE ~Before(tick, delay_until[t])
        <4>1. Late(t) = -Ahead(tick, delay_until[t])
          BY <1>1, <1>6, <2>1, <3>2, AheadIs, Zenon DEF Late, Before
        <4>2. Late(t) < MaxLate + MaxPeriod \/ Late(t) < MaxLate \/ Late(t) = 0
          BY Zenon DEF Tick
        <4> QED
          BY <2>1, <4>1, <4>2, Room
      <3> QED
        BY <3>1, <3>2, Zenon
    <2> QED
      BY <2>1, <2>2, <2>3, Room
  <1>7. DelayInv'
    BY <1>2, <1>6, Zenon DEF DelayInv
  <1>8. ASSUME phase \in {"tasks", "timers", "enter"}
        PROVE  /\ Ahead(tick', now) = Ahead(tick, now) - 1
               /\ Ahead(tick, now) \in 1 - MaxLate .. 0 /\ Ahead(tick', now) \in -MaxLate .. 0
    <2>1. Ahead(tick, now) \in -MaxLate .. 0 /\ (tick - now) % Wrap < MaxLate
      BY <1>1, <1>8, Zenon DEF LoopInv, Tick
    <2>2. (tick - now) % Wrap = -Ahead(tick, now)
      BY <1>1, <2>1, AheadIs
    <2>3. Ahead(tick, now) \in 1 - MaxLate .. 0
          /\ Ahead(tick, now) \in -(MaxLate + MaxPeriod) .. MaxPeriod + 1
      BY <2>1, <2>2, Room
    <2>4. Ahead(tick', now) = Ahead(tick, now) - 1
      BY <1>1, <1>3, <2>3, Zenon
    <2> QED
      BY <2>3, <2>4, Room
  <1>9. ASSUME phase \in {"timers", "enter", "asleep"}, wake # Max
        PROVE  /\ Ahead(tick, wake) \in 1 - MaxLate .. MaxPeriod + 1
               /\ Ahead(tick', wake) = Ahead(tick, wake) - 1
    <2>1. Ahead(tick, wake) \in -MaxLate .. MaxPeriod + 1
      BY <1>1, <1>9, Zenon DEF LoopInv
    <2>2. Ahead(tick, wake) \in 1 - MaxLate .. MaxPeriod + 1
      <3>1. CASE phase \in {"timers", "enter"}
        <4>1. Ahead(tick, now) <= Ahead(tick, wake) /\ Ahead(tick, now) \in 1 - MaxLate .. 0
          BY <1>1, <1>8, <1>9, <3>1, Zenon DEF LoopInv
        <4> QED
          BY <2>1, <4>1, Room
      <3>2. CASE phase = "asleep"
        <4>1. ~Due(tick, wake)
          BY <1>9, <3>2, Zenon DEF Tick, Awake
        <4>2. ~(Ahead(tick, wake) <= 0)
          BY <1>1, <4>1, AheadIs, Zenon
        <4> QED
          BY <2>1, <4>2, Room
      <3> QED
        BY <1>9, <3>1, <3>2, Zenon
    <2>3. Ahead(tick, wake) \in -(MaxLate + MaxPeriod) .. MaxPeriod + 1
      BY <2>1, Room
    <2> QED
      BY <1>1, <1>3, <2>2, <2>3, Zenon
  <1>10. LoopInv'
    <2>1. phase \in {"tasks", "timers", "enter"} => Ahead(tick', now) \in -MaxLate .. 0
      BY <1>8, Zenon
    <2>2. phase \in {"timers", "enter"} /\ wake # Max => Ahead(tick', now) <= Ahead(tick', wake)
      <3> SUFFICES ASSUME phase \in {"timers", "enter"}, wake # Max
                   PROVE  Ahead(tick', now) <= Ahead(tick', wake)
        BY Zenon
      <3>1. /\ Ahead(tick', now) = Ahead(tick, now) - 1 /\ Ahead(tick', wake) = Ahead(tick, wake) - 1
            /\ Ahead(tick, now) \in 1 - MaxLate .. 0 /\ Ahead(tick, wake) \in 1 - MaxLate .. MaxPeriod + 1
        BY <1>8, <1>9, Zenon
      <3>2. Ahead(tick, now) <= Ahead(tick, wake)
        BY <1>1, Zenon DEF LoopInv
      <3> QED
        BY <3>1, <3>2, Room
    <2>3. phase \in {"timers", "enter", "asleep"} /\ wake # Max =>
            Ahead(tick', wake) \in -MaxLate .. MaxPeriod + 1
      BY <1>9, Room
    <2>4. /\ phase \in {"tasks", "timers", "enter", "asleep"} => masked
          /\ phase \in {"enter", "asleep"} => ~locked
      BY <1>1, Zenon DEF LoopInv
    <2> QED
      BY <1>2, <2>1, <2>2, <2>3, <2>4, Zenon DEF LoopInv
  <1>11. TaskCover'
    <2> SUFFICES ASSUME phase \in {"timers", "enter", "asleep"}, ~at_max, NEW t \in Tasks
                 PROVE  /\ Runnable(t)' => wake # Max /\ Ahead(tick', wake) <= 0
                        /\ delay_until[t] # 0 /\ ~Due(tick', delay_until[t]) =>
                             wake # Max /\ Ahead(tick', wake) <= Ahead(tick', delay_until[t])
      BY <1>2, Zenon DEF TaskCover
    <2>1. /\ Runnable(t) => wake # Max /\ Ahead(tick, wake) <= 0
          /\ delay_until[t] # 0 /\ ~Due(tick, delay_until[t]) =>
               wake # Max /\ Ahead(tick, wake) <= Ahead(tick, delay_until[t])
      BY <1>1, Zenon DEF TaskCover
    <2>2. wake # Max => /\ Ahead(tick, wake) \in Int /\ Ahead(tick', wake) = Ahead(tick, wake) - 1
      BY <1>9, Room
    <2>3. CASE delay_until[t] = 0
      <3>1. Runnable(t)' => Runnable(t)
        BY <1>2, <2>3, Zenon DEF Runnable
      <3> QED
        BY <2>1, <2>2, <2>3, <3>1
    <2>4. CASE delay_until[t] # 0
      <3>1. /\ Ahead(tick, delay_until[t]) \in Int
            /\ Ahead(tick', delay_until[t]) = Ahead(tick, delay_until[t]) - 1
            /\ Due(tick, delay_until[t]) <=> Ahead(tick, delay_until[t]) <= 0
        BY <1>1, <1>6, <2>4, DelayAhead, Room
      <3>2. Due(tick', delay_until[t]) <=> Ahead(tick', delay_until[t]) <= 0
        <4>1. tick' \in Ticks /\ delay_until[t] \in Ticks
          BY <1>1, <1>4, Zenon DEF TicklessTypeOK, TimerTypeOK
        <4> QED
          BY <4>1, AheadIs, Zenon
      <3>3. Runnable(t)' => Due(tick', delay_until[t])
        BY <1>2, <2>4, Zenon DEF Runnable
      <3>4. Due(tick, delay_until[t]) => Runnable(t)
        BY <1>1, <2>4, Zenon DEF Runnable, TicklessTypeOK
      <3>5. CASE Ahead(tick, delay_until[t]) <= 0
        BY <2>1, <2>2, <3>1, <3>2, <3>4, <3>5
      <3>6. CASE ~(Ahead(tick, delay_until[t]) <= 0)
        <4>1. wake # Max /\ Ahead(tick, wake) <= Ahead(tick, delay_until[t])
          BY <2>1, <2>4, <3>1, <3>6, Zenon
        <4>2. Ahead(tick', wake) <= Ahead(tick', delay_until[t])
          BY <2>2, <3>1, <4>1
        <4>3. Runnable(t)' => Ahead(tick', wake) <= 0
          BY <2>2, <3>1, <3>2, <3>3, <4>1, <4>2
        <4> QED
          BY <4>1, <4>2, <4>3, Zenon
      <3> QED
        BY <3>5, <3>6, Zenon
    <2> QED
      BY <2>3, <2>4, Zenon
  <1>12. TimerCover'
    <2> SUFFICES ASSUME phase \in {"enter", "asleep"}, ~at_max, NoTargetAtMax, NEW i \in Timers, timer_active[i]
                 PROVE  wake # Max /\ (\/ Ahead(tick', wake) <= 0
                                       \/ Ahead(tick', wake) <= Ahead(tick', target[i]))
      BY <1>2, Zenon DEF TimerCover, NoTargetAtMax
    <2>1. wake # Max /\ (Ahead(tick, wake) <= 0 \/ Ahead(tick, wake) <= Ahead(tick, target[i]))
      BY <1>1, Zenon DEF TimerCover
    <2>2. Ahead(tick, wake) \in Int /\ Ahead(tick', wake) = Ahead(tick, wake) - 1
      BY <1>9, <2>1, Room
    <2>3. target[i] \in Ticks /\ Ahead(tick, target[i]) \in -(MaxLate + MaxPeriod) .. MaxPeriod + 1
      <3>1. /\ target[i] \in Ticks /\ Ahead(tick, target[i]) = due[i]
            /\ due[i] \in -MaxLate - MaxPeriod .. MaxPeriod
        BY <1>1, TimerAhead, Zenon
      <3> QED
        BY <3>1, Room
    <2>4. Ahead(tick', target[i]) = Ahead(tick, target[i]) - 1 /\ Ahead(tick, target[i]) \in Int
      BY <1>3, <2>3, Room
    <2>5. CASE Ahead(tick, wake) <= 0
      BY <2>1, <2>2, <2>5
    <2>6. CASE Ahead(tick, wake) <= Ahead(tick, target[i])
      BY <2>1, <2>2, <2>4, <2>6
    <2> QED
      BY <2>1, <2>5, <2>6, Zenon
  <1> QED
    BY <1>4, <1>5, <1>7, <1>10, <1>11, <1>12, Zenon DEF TicklessInv

\* Of the loop, of syn_timer_service and of the interrupts, in any order: what each deadline
\* is ahead of the tick stays in the window, and the tick to sleep until covers them all.
THEOREM TicklessInvariance == TicklessSpec => []TicklessInv
  <1>1. TicklessInit => TicklessInv
    BY InitIndInv, Zenon
  <1>2. TicklessInv /\ [TicklessNext]_tickless_vars => TicklessInv'
    <2> SUFFICES ASSUME TicklessInv, [TicklessNext]_tickless_vars PROVE TicklessInv'
      BY Zenon
    <2>1. ASSUME NEW t \in Tasks, RunTask(t) PROVE TicklessInv'
      BY <2>1, RunTaskStep, Zenon
    <2>2. ASSUME NEW t \in Tasks, Raise(t) \/ Handle(t) PROVE TicklessInv'
      BY <2>2, InterruptStep, Zenon
    <2>3. CASE RunNothing \/ Service
      BY <2>3, ServiceStep, Zenon
    <2>4. CASE Mask
      BY <2>4, MaskStep, Zenon
    <2>5. CASE TaskWake
      BY <2>5, TaskWakeStep, Zenon
    <2>6. CASE Decide
      BY <2>6, DecideStep
    <2>7. CASE Enter
      BY <2>7, EnterStep
    <2>8. CASE WakeUp
      BY <2>8, AgainStep, Zenon DEF WakeUp
    <2>9. CASE Tick
      BY <2>9, TickStep
    <2>10. CASE UNCHANGED tickless_vars
      <3>1. TicklessTypeOK' /\ TimerInv' /\ DelayInv'
        BY <2>10, DataFrame, Zenon DEF TicklessInv, TicklessTypeOK, tickless_vars, sleep_vars, loop_vars, irq_vars
      <3>2. LoopInv' /\ TaskCover' /\ TimerCover'
        BY <2>10, DecisionFrame, Zenon DEF tickless_vars, sleep_vars, loop_vars, irq_vars
      <3> QED
        BY <3>1, <3>2, Zenon DEF TicklessInv
    <2> QED
      BY <2>1, <2>2, <2>3, <2>4, <2>5, <2>6, <2>7, <2>8, <2>9, <2>10, Zenon DEF TicklessNext
  <1> QED
    BY <1>1, <1>2, PTL DEF TicklessSpec

\* syn_timer_expired and syn_timer_remaining tell the time of every timer across the wrap of
\* the tick, for timers that are started, stopped, re-timed and serviced late.
THEOREM TimersOnTime == TicklessSpec => []ExpiresOnTime
  <1>1. TicklessInv => ExpiresOnTime
    <2> SUFFICES ASSUME TicklessInv, NEW i \in Timers, timer_active[i]
                 PROVE  /\ Due(tick, target[i]) <=> due[i] <= 0
                        /\ Remaining(i) = IF due[i] > 0 THEN due[i] ELSE 0
      BY Zenon DEF ExpiresOnTime
    <2>1. TimerTypeOK /\ TimerInv
      BY Zenon DEF TicklessInv, TicklessTypeOK
    <2>2. /\ tick \in Ticks /\ target[i] \in Ticks /\ Ahead(tick, target[i]) = due[i]
          /\ Due(tick, target[i]) <=> due[i] <= 0
          /\ Before(tick, target[i]) <=> due[i] > 0
      BY <2>1, TimerAhead, Zenon
    <2>3. Before(tick, target[i]) => (target[i] - tick) % Wrap = due[i]
      BY <2>2, AheadIs, Zenon DEF Before
    <2> QED
      BY <2>2, <2>3, Zenon DEF Remaining
  <1> QED
    BY <1>1, TicklessInvariance, PTL

\* The port is told to sleep only to a tick that is reached before any task is to run.
THEOREM TasksServed == TicklessSpec => []NoTaskLeftBehind
  <1>1. TicklessInv => NoTaskLeftBehind
    <2> SUFFICES ASSUME TicklessInv, Sleeping, ~at_max, NEW t \in Tasks, Runnable(t) PROVE FALSE
      BY Zenon DEF NoTaskLeftBehind
    <2>1. wake # Max /\ Ahead(tick, wake) <= 0
      BY Zenon DEF TicklessInv, TaskCover, Sleeping
    <2>2. tick \in Ticks /\ wake \in Ticks
      BY Zenon DEF TicklessInv, TicklessTypeOK, TimerTypeOK
    <2>3. Due(tick, wake)
      BY <2>1, <2>2, AheadIs, Zenon
    <2> QED
      BY <2>1, <2>3, Zenon DEF Sleeping, Awake
  <1> QED
    BY <1>1, TicklessInvariance, PTL

\* Nor past a timer, while no timer's target is UINT32_MAX.
THEOREM TimersServed == TicklessSpec => []NoTimerLeftBehind
  <1>1. TicklessInv => NoTimerLeftBehind
    <2> SUFFICES ASSUME TicklessInv, Sleeping, ~at_max, NoTargetAtMax,
                        NEW i \in Timers, timer_active[i], Due(tick, target[i])
                 PROVE  FALSE
      BY Zenon DEF NoTimerLeftBehind
    <2>1. wake # Max /\ (Ahead(tick, wake) <= 0 \/ Ahead(tick, wake) <= Ahead(tick, target[i]))
      BY Zenon DEF TicklessInv, TimerCover, Sleeping
    <2>2. tick \in Ticks /\ wake \in Ticks /\ TimerTypeOK /\ TimerInv
      BY Zenon DEF TicklessInv, TicklessTypeOK, TimerTypeOK
    <2>3. Ahead(tick, target[i]) = due[i] /\ due[i] <= 0 /\ due[i] \in -MaxLate - MaxPeriod .. MaxPeriod
      BY <2>2, TimerAhead, Zenon
    <2>4. Ahead(tick, wake) \in 1 - Half .. Half /\ (Due(tick, wake) <=> Ahead(tick, wake) <= 0)
      BY <2>2, AheadIs, Zenon
    <2>5. Ahead(tick, wake) <= 0
      BY <2>1, <2>3, <2>4, Room
    <2> QED
      BY <2>1, <2>4, <2>5, Zenon DEF Sleeping, Awake
  <1> QED
    BY <1>1, TicklessInvariance, PTL

\* syn_sleep_lock, called by a task or by an interrupt handler, holds off the sleep: the
\* locks are read with interrupts masked, and they stay masked until the processor wakes.
THEOREM LocksHonoured == TicklessSpec => []LockKeepsAwake
  <1>1. TicklessInv => LockKeepsAwake
    BY Zenon DEF TicklessInv, LoopInv, LockKeepsAwake
  <1> QED
    BY <1>1, TicklessInvariance, PTL
=============================================================================
