---------------------------- MODULE SettingsProofs ----------------------------
(***************************************************************************)
(* Proofs about the settings manager on the parameter store, for any       *)
(* number of slots in two or more sectors, any width of the sequence       *)
(* numbers that is more than twice that, any settings and any number of    *)
(* power cuts and flash errors.  First the ring of slots, the wrap of the  *)
(* sequence numbers, and what the scan of a boot finds; then the saves.    *)
(***************************************************************************)
EXTENDS Settings, WellFoundedInduction, TLAPS

Ring == Sectors * Slots
Range == 2 * SeqHalf
-----------------------------------------------------------------------------
(* Arithmetic of the ring of slots, and of the sequence numbers. *)

\* The ring fits in half the range of the sequence numbers.
LEMMA Sizes ==
  /\ Sectors \in Nat \ {0} /\ Slots \in Nat \ {0} /\ Ring \in Nat \ {0} /\ Slots <= Ring
  /\ SeqHalf \in Nat /\ Ring < SeqHalf /\ Range \in Nat \ {0} /\ Range = 2 * SeqHalf
  /\ Positions = 0 .. Ring - 1 /\ Seqs = 0 .. Range - 1 /\ 0 \in Positions
  <1>1. /\ Sectors \in Nat /\ Sectors >= 1 /\ Slots \in Nat /\ Slots >= 1
        /\ SeqHalf \in Nat /\ Ring < SeqHalf
    BY StoreAssumption DEF Ring
  <1>2. Ring \in Nat /\ Ring >= Slots
    BY <1>1 DEF Ring
  <1> QED
    BY <1>1, <1>2 DEF Ring, Range, Positions, Seqs

\* A position is its sector and a place in it.
LEMMA Places ==
  ASSUME NEW p \in Positions
  PROVE  /\ SectorOf(p) \in 0 .. Sectors - 1 /\ p % Slots \in 0 .. Slots - 1
         /\ p = Slots * SectorOf(p) + (p % Slots)
  <1>1. p \in Int /\ 0 <= p /\ p < Sectors * Slots /\ Slots \in Nat \ {0} /\ Sectors \in Nat
    BY Sizes DEF Ring
  <1>2. p = Slots * SectorOf(p) + (p % Slots) /\ SectorOf(p) \in Int /\ p % Slots \in 0 .. Slots - 1
    BY <1>1 DEF SectorOf
  <1>3. SectorOf(p) >= 0
    BY <1>1, <1>2
  <1>4. SectorOf(p) < Sectors
    BY <1>1, <1>2
  <1> QED
    BY <1>1, <1>2, <1>3, <1>4

\* A later sector begins at least a sector later.
LEMMA SectorStarts == ASSUME NEW s \in Int, NEW t \in Int, s < t PROVE Slots * s + Slots <= Slots * t
  <1>1. Slots \in Nat
    BY Sizes, Zenon
  <1> QED
    BY <1>1

\* The slots of a later sector come later.
LEMMA SectorsInOrder ==
  ASSUME NEW p \in Positions, NEW r \in Positions, SectorOf(p) < SectorOf(r)
  PROVE  p < r
  <1>1. /\ SectorOf(p) \in Int /\ p % Slots \in 0 .. Slots - 1 /\ p = Slots * SectorOf(p) + (p % Slots)
        /\ SectorOf(r) \in Int /\ r % Slots \in 0 .. Slots - 1 /\ r = Slots * SectorOf(r) + (r % Slots)
    BY Places
  <1>2. Slots \in Nat
    BY Sizes, Zenon
  <1>3. Slots * SectorOf(p) + Slots <= Slots * SectorOf(r)
    BY <1>1, SectorStarts, Zenon
  <1> QED
    BY <1>1, <1>2, <1>3

\* A place in a sector belongs to no other.
LEMMA OneSector ==
  ASSUME NEW s \in Int, NEW t \in Int, NEW i \in 0 .. Slots - 1, NEW j \in 0 .. Slots - 1,
         Slots * s + i = Slots * t + j
  PROVE  s = t
  <1>1. Slots \in Nat \ {0}
    BY Sizes, Zenon
  <1>2. s < t => Slots * s + Slots <= Slots * t
    BY SectorStarts, Zenon
  <1>3. t < s => Slots * t + Slots <= Slots * s
    BY SectorStarts, Zenon
  <1> QED
    BY <1>1, <1>2, <1>3

\* The slot after a is in its sector, or the first of the next one.
LEMMA AfterIs ==
  ASSUME NEW a \in Positions
  PROVE  /\ After(a) \in Positions
         /\ After(a) % Slots # 0 => After(a) = a + 1 /\ SectorOf(After(a)) = SectorOf(a)
         /\ After(a) % Slots = 0 =>
              \/ After(a) = a + 1 /\ SectorOf(After(a)) = SectorOf(a) + 1
              \/ a = Ring - 1 /\ After(a) = 0 /\ SectorOf(a) = Sectors - 1 /\ SectorOf(0) = 0
  <1>1. /\ Sectors \in Nat \ {0} /\ Slots \in Nat \ {0} /\ Ring \in Nat \ {0} /\ Ring = Slots * Sectors
        /\ Positions = 0 .. Ring - 1
    BY Sizes DEF Ring
  <1>2. SectorOf(a) \in Int /\ a % Slots \in 0 .. Slots - 1 /\ a = Slots * SectorOf(a) + (a % Slots)
    BY Places
  <1>3. After(a) = (a + 1) % Ring /\ a \in 0 .. Ring - 1
    BY <1>1, Zenon DEF After, Ring
  <1>4. CASE a + 1 = Ring
    <2>1. After(a) = 0 /\ a = Ring - 1
      BY <1>1, <1>3, <1>4
    <2>2. 0 % Slots = 0 /\ SectorOf(0) = 0
      BY <1>1 DEF SectorOf
    <2>3. Slots * SectorOf(a) + (a % Slots) = Slots * (Sectors - 1) + (Slots - 1)
      BY <1>1, <1>2, <2>1
    <2>4. Slots - 1 \in 0 .. Slots - 1 /\ Sectors - 1 \in Int
      BY <1>1
    <2>5. SectorOf(a) = Sectors - 1
      BY <1>2, <2>3, <2>4, OneSector, Zenon
    <2>6. 0 \in Positions
      BY Sizes, Zenon
    <2> QED
      BY <2>1, <2>2, <2>5, <2>6, Zenon
  <1>5. CASE a + 1 # Ring
    <2> DEFINE c == a + 1
    <2>1. c \in Positions /\ After(a) = c
      BY <1>1, <1>3, <1>5
    <2>2. SectorOf(c) \in Int /\ c % Slots \in 0 .. Slots - 1 /\ c = Slots * SectorOf(c) + (c % Slots)
      BY <2>1, Places
    <2>3. c = a + 1
      BY Zenon
    <2> HIDE DEF c
    <2>4. CASE c % Slots # 0
      <3>1. Slots * SectorOf(a) + (a % Slots) = Slots * SectorOf(c) + ((c % Slots) - 1)
        <4> DEFINE x == Slots * SectorOf(c)
                   i == c % Slots
        <4>1. x \in Int /\ i \in Int /\ a \in Int
          BY <1>1, <1>3, <2>2
        <4>2. c = x + i /\ c = a + 1 /\ a = Slots * SectorOf(a) + (a % Slots)
          BY <1>2, <2>2, <2>3, Zenon
        <4> HIDE DEF x, i
        <4>3. a = x + (i - 1)
          BY ONLY <4>1, <4>2
        <4> QED
          BY <4>2, <4>3, Zenon DEF x, i
      <3>2. (c % Slots) - 1 \in 0 .. Slots - 1
        <4> DEFINE i == c % Slots
        <4>1. i \in 0 .. Slots - 1 /\ i # 0 /\ Slots \in Nat
          BY <1>1, <2>2, <2>4, Zenon
        <4> HIDE DEF i
        <4>2. i - 1 \in 0 .. Slots - 1
          BY ONLY <4>1
        <4> QED
          BY <4>2, Zenon DEF i
      <3>3. SectorOf(a) = SectorOf(c)
        BY <1>2, <2>2, <3>1, <3>2, OneSector, Zenon
      <3> QED
        BY <2>1, <2>3, <2>4, <3>3, Zenon
    <2>5. CASE c % Slots = 0
      <3>0. Slots * (SectorOf(c) - 1) = Slots * SectorOf(c) - Slots
        BY <1>1, <2>2
      <3>1. Slots * SectorOf(a) + (a % Slots) = Slots * (SectorOf(c) - 1) + (Slots - 1)
        <4> DEFINE x == Slots * SectorOf(c)
                   y == Slots * (SectorOf(c) - 1)
        <4>1. x \in Int /\ Slots \in Int /\ a \in Int
          BY <1>1, <1>3, <2>2
        <4>2. y = x - Slots /\ c = x + (c % Slots) /\ c = a + 1 /\ c % Slots = 0
          BY <2>2, <2>3, <2>5, <3>0, Zenon
        <4>3. a = Slots * SectorOf(a) + (a % Slots)
          BY <1>2, Zenon
        <4> HIDE DEF x, y
        <4>4. a = y + (Slots - 1)
          BY ONLY <4>1, <4>2
        <4> QED
          BY <4>3, <4>4, Zenon DEF y
      <3>2. Slots - 1 \in 0 .. Slots - 1 /\ SectorOf(c) - 1 \in Int
        BY <1>1, <2>2
      <3>3. SectorOf(a) = SectorOf(c) - 1
        BY <1>2, <3>1, <3>2, OneSector, Zenon
      <3>4. SectorOf(c) = SectorOf(a) + 1
        BY <2>2, <3>3
      <3> QED
        BY <2>1, <2>3, <2>5, <3>4, Zenon
    <2> QED
      BY <2>4, <2>5, Zenon
  <1> QED
    BY <1>4, <1>5, Zenon

\* With two sectors or more, it is another slot, and if the first of a sector in another one.
LEMMA AfterApart ==
  ASSUME NEW a \in Positions, Sectors >= 2
  PROVE  /\ After(a) # a
         /\ After(a) % Slots = 0 => SectorOf(After(a)) # SectorOf(a)
         /\ After(a) % Slots # 0 => After(a) = a + 1 /\ SectorOf(After(a)) = SectorOf(a)
  <1>1. a \in Int /\ SectorOf(a) \in Int /\ Sectors \in Nat
    BY Sizes, Places
  <1>2. /\ After(a) % Slots # 0 => After(a) = a + 1 /\ SectorOf(After(a)) = SectorOf(a)
        /\ After(a) % Slots = 0 => SectorOf(After(a)) # SectorOf(a)
    BY <1>1, AfterIs
  <1> QED
    BY <1>1, <1>2

\* The slots of a's sector have the turns around its own; the others had theirs before.
LEMMA Turns ==
  ASSUME NEW a \in Positions, NEW p \in Positions
  PROVE  /\ Turn(a, p) \in -Ring .. Ring
         /\ SectorOf(p) = SectorOf(a) => Turn(a, p) = p - a - 1
         /\ SectorOf(p) # SectorOf(a) => Turn(a, p) < -1
         /\ \A r \in Positions : SectorOf(p) # SectorOf(a) /\ SectorOf(r) = SectorOf(a) =>
              Turn(a, p) < Turn(a, r)
  <1>1. a \in 0 .. Ring - 1 /\ p \in 0 .. Ring - 1 /\ Ring \in Nat
    BY Sizes, Zenon
  <1>2. \A r \in Positions : r \in 0 .. Ring - 1 /\ SectorOf(r) \in Int
    BY Sizes, Places
  <1>3. SectorOf(a) \in Int /\ SectorOf(p) \in Int
    BY <1>2, Zenon
  <1>4. \A r \in Positions : SectorOf(r) = SectorOf(a) => Turn(a, r) = r - a - 1
    BY <1>2 DEF Turn
  <1>5. CASE SectorOf(p) = SectorOf(a)
    BY <1>1, <1>4, <1>5
  <1>6. CASE SectorOf(p) > SectorOf(a)
    <2>1. a < p
      BY <1>6, SectorsInOrder, Zenon
    <2>2. Turn(a, p) = p - Ring - a - 1
      BY <1>6, Zenon DEF Turn, Ring
    <2> QED
      BY <1>1, <1>2, <1>4, <1>6, <2>1, <2>2
  <1>7. CASE SectorOf(p) < SectorOf(a)
    <2>1. \A r \in Positions : SectorOf(r) = SectorOf(a) => p < r
      BY <1>7, SectorsInOrder, Zenon
    <2>2. Turn(a, p) = p - a - 1
      BY <1>3, <1>7 DEF Turn
    <2> QED
      BY <1>1, <1>2, <1>4, <1>7, <2>1, <2>2
  <1> QED
    BY <1>3, <1>5, <1>6, <1>7

\* Seen from another slot of the sector, turns differ by the distance.
LEMMA TurnWithin ==
  ASSUME NEW a \in Positions, NEW b \in Positions, NEW p \in Positions, SectorOf(b) = SectorOf(a)
  PROVE  Turn(b, p) = Turn(a, p) + a - b
  <1>1. a \in Int /\ b \in Int /\ p \in Int /\ Sectors * Slots \in Int
    BY Sizes DEF Ring
  <1> QED
    BY <1>1 DEF Turn

\* Seen from the slot after a, every turn is one earlier, but for the rest of a sector entered anew.
LEMMA TurnShift ==
  ASSUME NEW a \in Positions, NEW p \in Positions, Sectors >= 2,
         After(a) % Slots # 0 \/ SectorOf(p) # SectorOf(After(a))
  PROVE  Turn(After(a), p) = Turn(a, p) - 1
  <1>0. a \in 0 .. Ring - 1 /\ p \in 0 .. Ring - 1 /\ Ring \in Nat /\ After(a) \in Positions
    BY Sizes, AfterIs, Zenon
  <1>1. SectorOf(a) \in Int /\ SectorOf(p) \in 0 .. Sectors - 1 /\ Sectors \in Nat
    <2>1. SectorOf(a) \in 0 .. Sectors - 1 /\ SectorOf(p) \in 0 .. Sectors - 1
      BY Places, Zenon
    <2>2. Sectors \in Nat
      BY Sizes, Zenon
    <2> QED
      BY <2>1, <2>2
  <1>2. CASE After(a) % Slots # 0
    <2>1. After(a) = a + 1 /\ SectorOf(After(a)) = SectorOf(a)
      BY <1>2, AfterIs, Zenon
    <2>2. Turn(After(a), p) = Turn(a, p) + a - After(a)
      BY <1>0, <2>1, TurnWithin, Zenon
    <2>3. Turn(a, p) \in Int
      BY Turns, <1>0
    <2> QED
      BY <1>0, <2>1, <2>2, <2>3
  <1>3. CASE After(a) % Slots = 0 /\ After(a) = a + 1 /\ SectorOf(After(a)) = SectorOf(a) + 1
    <2>1. SectorOf(p) > SectorOf(After(a)) <=> SectorOf(p) > SectorOf(a)
      BY <1>1, <1>3
    <2> QED
      BY <1>0, <1>3, <2>1 DEF Turn, Ring
  <1>4. CASE /\ After(a) % Slots = 0
             /\ a = Ring - 1 /\ After(a) = 0 /\ SectorOf(a) = Sectors - 1 /\ SectorOf(0) = 0
    <2>1. SectorOf(p) > SectorOf(After(a)) /\ ~(SectorOf(p) > SectorOf(a))
      BY <1>1, <1>4
    <2> QED
      BY <1>0, <1>4, <2>1 DEF Turn, Ring
  <1> QED
    BY <1>2, <1>3, <1>4, AfterIs, Zenon

\* The number of a save a few before or after the one with number q.
LEMMA NumberIs ==
  ASSUME NEW q \in Seqs, NEW n \in -SeqHalf .. SeqHalf
  PROVE  /\ Number(q, n) \in Seqs
         /\ Number(q, n) = IF q + n < 0 THEN q + n + Range ELSE IF q + n < Range THEN q + n ELSE q + n - Range
  <1>1. /\ q \in 0 .. Range - 1 /\ Range \in Nat \ {0} /\ Range = 2 * SeqHalf /\ SeqHalf \in Nat
        /\ Seqs = 0 .. Range - 1
    BY Sizes, Zenon
  <1> DEFINE m == q + n
             b == IF m < 0 THEN m + Range ELSE IF m < Range THEN m ELSE m - Range
  <1>2. b \in 0 .. Range - 1 /\ (m = b \/ m = b + Range \/ m = b - Range)
    BY <1>1
  <1>3. Number(q, n) = m % Range
    BY Zenon DEF Number, Range
  <1> HIDE DEF m, b
  <1>4. b % Range = b /\ (b + Range) % Range = b /\ (b - Range) % Range = b
    BY <1>1, <1>2
  <1>5. Number(q, n) = b
    BY <1>2, <1>3, <1>4, Zenon
  <1> QED
    BY <1>1, <1>2, <1>5 DEF b, m

\* Numbers add up.
LEMMA NumberOfNumber ==
  ASSUME NEW q \in Seqs, NEW i \in -SeqHalf .. SeqHalf, NEW j \in -SeqHalf .. SeqHalf,
         i + j \in -SeqHalf .. SeqHalf
  PROVE  Number(Number(q, i), j) = Number(q, i + j)
  <1>1. q \in 0 .. Range - 1 /\ Range \in Nat \ {0} /\ Range = 2 * SeqHalf /\ SeqHalf \in Nat
    BY Sizes, Zenon
  <1> DEFINE t == Number(q, i)
  <1>2. t \in Seqs /\ t = IF q + i < 0 THEN q + i + Range ELSE IF q + i < Range THEN q + i ELSE q + i - Range
    BY NumberIs, Zenon
  <1> HIDE DEF t
  <1>3. Number(t, j) = IF t + j < 0 THEN t + j + Range ELSE IF t + j < Range THEN t + j ELSE t + j - Range
    BY <1>2, NumberIs, Zenon
  <1>4. Number(q, i + j) = IF q + (i + j) < 0 THEN q + (i + j) + Range
                           ELSE IF q + (i + j) < Range THEN q + (i + j) ELSE q + (i + j) - Range
    BY NumberIs, Zenon
  <1>5. t \in 0 .. Range - 1
    BY <1>2, Sizes, Zenon
  <1>6. Number(t, j) = Number(q, i + j)
    BY <1>1, <1>2, <1>3, <1>4, <1>5
  <1> QED
    BY <1>6, Zenon DEF t

\* Different turns have different numbers.
LEMMA NumbersDiffer ==
  ASSUME NEW q \in Seqs, NEW i \in -SeqHalf .. SeqHalf, NEW j \in -SeqHalf .. SeqHalf,
         i - j < Range, j - i < Range, Number(q, i) = Number(q, j)
  PROVE  i = j
  <1>1. q \in 0 .. Range - 1 /\ Range \in Nat \ {0} /\ Range = 2 * SeqHalf /\ SeqHalf \in Nat
    BY Sizes, Zenon
  <1>2. /\ Number(q, i) = IF q + i < 0 THEN q + i + Range ELSE IF q + i < Range THEN q + i ELSE q + i - Range
        /\ Number(q, j) = IF q + j < 0 THEN q + j + Range ELSE IF q + j < Range THEN q + j ELSE q + j - Range
    BY NumberIs, Zenon
  <1> DEFINE t == Number(q, i)
  <1>3. t \in {q + i + Range, q + i, q + i - Range} /\ t \in {q + j + Range, q + j, q + j - Range}
    BY <1>2, Zenon
  <1> HIDE DEF t
  <1> QED
    BY <1>1, <1>3

\* The comparison of syn_param_init is right across the wrap.
LEMMA NewerIs ==
  ASSUME NEW q \in Seqs, NEW i \in -Ring .. 0, NEW j \in -Ring .. 0
  PROVE  Newer(Number(q, i), Number(q, j)) <=> i > j
  <1>1. /\ q \in 0 .. Range - 1 /\ Range \in Nat \ {0} /\ Range = 2 * SeqHalf /\ SeqHalf \in Nat
        /\ Ring \in Nat /\ Ring < SeqHalf
    BY Sizes, Zenon
  <1>2. i \in -SeqHalf .. SeqHalf /\ j \in -SeqHalf .. SeqHalf
    BY <1>1
  <1> DEFINE s == Number(q, i)
             t == Number(q, j)
             d == s - t
  <1>3. /\ s = IF q + i < 0 THEN q + i + Range ELSE IF q + i < Range THEN q + i ELSE q + i - Range
        /\ t = IF q + j < 0 THEN q + j + Range ELSE IF q + j < Range THEN q + j ELSE q + j - Range
    BY <1>2, NumberIs, Zenon
  <1> HIDE DEF s, t
  <1>4. /\ d = i - j \/ d = i - j + Range \/ d = i - j - Range
        /\ d \in Int /\ -Range < d /\ d < Range
    BY <1>1, <1>3
  <1>5. Newer(s, t) <=> d % Range \in 1 .. SeqHalf - 1
    BY Zenon DEF Newer, Range
  <1> HIDE DEF d
  <1>6. d % Range = IF d < 0 THEN d + Range ELSE d
    <2>1. CASE d < 0
      <3>1. d + Range \in 0 .. Range - 1 /\ d = (d + Range) - Range
        BY <1>1, <1>4, <2>1
      <3> DEFINE b == d + Range
      <3>2. b \in 0 .. Range - 1 /\ d = b - Range
        BY <3>1, Zenon
      <3> HIDE DEF b
      <3>3. (b - Range) % Range = b
        BY <1>1, <3>2
      <3> QED
        BY <2>1, <3>2, <3>3, Zenon DEF b
    <2>2. CASE ~(d < 0)
      BY <1>1, <1>4, <2>2
    <2> QED
      BY <2>1, <2>2, Zenon
  <1>7. Newer(s, t) <=> i > j
    BY <1>1, <1>4, <1>5, <1>6
  <1> QED
    BY <1>7, Zenon DEF s, t
-----------------------------------------------------------------------------
(* The scan of syn_param_init. *)

\* A set of naturals has a least element.
LEMMA Least ==
  ASSUME NEW T \in SUBSET Nat, T # {}
  PROVE  \E m \in T : \A k \in T : m <= k
  <1>1. IsWellFoundedOn(OpToRel(<, Nat), Nat)
    BY NatLessThanWellFounded, Zenon
  <1>2. PICK m \in T : \A k \in T : ~(<<k, m>> \in OpToRel(<, Nat))
    BY <1>1, WFMin, Zenon
  <1>3. \A k \in T : ~(k < m)
    BY <1>2, Zenon DEF OpToRel
  <1> QED
    BY <1>3

\* The function the scan computes is well defined.
LEMMA BestDef == Best = [n \in 0 .. Ring |-> IF n = 0 THEN NoSlot ELSE Better(Best[n - 1], n - 1)]
  <1> DEFINE Fits(h, m) == h = [n \in 0 .. m |-> IF n = 0 THEN NoSlot ELSE Better(h[n - 1], n - 1)]
             T == {m \in 0 .. Ring : ~\E h : Fits(h, m)}
  <1>0. Ring \in Nat
    BY Sizes, Zenon
  <1>1. T = {}
    <2> SUFFICES ASSUME T # {} PROVE FALSE
      BY Zenon
    <2>1. PICK m \in T : \A k \in T : m <= k
      <3>1. T \in SUBSET Nat
        BY <1>0
      <3> HIDE DEF T
      <3> QED
        BY <3>1, Least, Zenon
    <2>2. m \in 0 .. Ring /\ ~\E h : Fits(h, m)
      BY Zenon
    <2>3. CASE m = 0
      <3>1. Fits([n \in 0 .. 0 |-> NoSlot], 0)
        OBVIOUS
      <3> QED
        BY <2>2, <2>3, <3>1, Zenon
    <2>4. CASE m # 0
      <3>1. m - 1 \in 0 .. Ring /\ m - 1 \notin T
        BY <1>0, <2>1, <2>2, <2>4
      <3>2. PICK h : Fits(h, m - 1)
        BY <3>1, Zenon
      <3> DEFINE g == [n \in 0 .. m |-> IF n = m THEN Better(h[m - 1], m - 1) ELSE h[n]]
      <3>3. \A n \in 0 .. m - 1 : g[n] = IF n = 0 THEN NoSlot ELSE Better(g[n - 1], n - 1)
        <4>1. \A n \in 0 .. m - 1 : h[n] = IF n = 0 THEN NoSlot ELSE Better(h[n - 1], n - 1)
          BY <3>2, Zenon
        <4>2. \A n \in 0 .. m - 1 : g[n] = h[n]
          BY <2>2
        <4> HIDE DEF g
        <4>3. \A n \in 1 .. m - 1 : g[n - 1] = h[n - 1]
          BY <4>2, <2>2
        <4> QED
          BY <4>1, <4>2, <4>3, <2>2
      <3>4. g[m] = Better(g[m - 1], m - 1)
        BY <2>2, <2>4
      <3>5. Fits(g, m)
        <4>1. \A n \in 0 .. m : g[n] = IF n = 0 THEN NoSlot ELSE Better(g[n - 1], n - 1)
          BY <3>3, <3>4, <2>2, <2>4
        <4>2. g = [n \in 0 .. m |-> g[n]]
          BY Zenon
        <4> HIDE DEF g
        <4> QED
          BY <4>1, <4>2, Zenon
      <3> QED
        BY <2>2, <3>5, Zenon
    <2> QED
      BY <2>3, <2>4, Zenon
  <1>2. Best = CHOOSE h : Fits(h, Ring)
    BY Zenon DEF Best, Ring
  <1> HIDE DEF Fits
  <1>3. \E h : Fits(h, Ring)
    BY <1>0, <1>1
  <1>4. Fits(CHOOSE h : Fits(h, Ring), Ring)
    BY <1>3, Zenon
  <1> QED
    BY <1>2, <1>4, Zenon DEF Fits

\* It finds a valid slot written last, if there is a valid one: f gives the order of the valid
\* slots, of which no two are more than a lap apart.
LEMMA ScanIs ==
  ASSUME NEW q \in Seqs, NEW f,
         \A p \in Positions : Valid(p) => f[p] \in -Ring .. 0 /\ flash[p].hdr.seq = Number(q, f[p])
  PROVE  \/ Scan = NoSlot /\ \A p \in Positions : ~Valid(p)
         \/ Scan \in Positions /\ Valid(Scan) /\ \A p \in Positions : Valid(p) => f[p] <= f[Scan]
  <1> DEFINE None(n) == Best[n] = NoSlot /\ \A p \in 0 .. n - 1 : ~Valid(p)
             Some(n) == /\ Best[n] \in 0 .. n - 1 /\ Valid(Best[n])
                        /\ \A p \in 0 .. n - 1 : Valid(p) => f[p] <= f[Best[n]]
             T == {m \in 0 .. Ring : ~(None(m) \/ Some(m))}
  <1>0. Ring \in Nat \ {0} /\ Positions = 0 .. Ring - 1
    BY Sizes, Zenon
  <1>1. Best[0] = NoSlot /\ \A m \in 1 .. Ring : Best[m] = Better(Best[m - 1], m - 1)
    BY <1>0, BestDef
  <1>2. ASSUME NEW m \in 1 .. Ring, None(m - 1) \/ Some(m - 1) PROVE None(m) \/ Some(m)
    <2> DEFINE r == m - 1
               b == Best[r]
    <2>1. Best[m] = Better(b, r) /\ r \in Positions /\ r \in Int /\ r \in 0 .. m - 1
      BY <1>0, <1>1
    <2>2. \A p \in 0 .. m - 1 : p \in 0 .. r - 1 \/ p = r
      OBVIOUS
    <2>3. \/ b = NoSlot /\ \A p \in 0 .. r - 1 : ~Valid(p)
          \/ b \in 0 .. r - 1 /\ Valid(b) /\ \A p \in 0 .. r - 1 : Valid(p) => f[p] <= f[b]
      BY <1>2, Zenon
    <2>4. b \in 0 .. r - 1 => b \in Positions /\ b # NoSlot /\ b \in 0 .. m - 1
      BY <1>0, <2>1 DEF NoSlot
    <2> HIDE DEF r, b
    <2>5. CASE ~Valid(r)
      <3>1. Best[m] = b
        BY <2>1, <2>5, Zenon DEF Better
      <3> QED
        BY <2>2, <2>3, <2>4, <2>5, <3>1, Zenon
    <2>6. CASE Valid(r) /\ b = NoSlot
      <3>1. Best[m] = r
        BY <2>1, <2>6, Zenon DEF Better
      <3>2. \A p \in 0 .. r - 1 : ~Valid(p)
        BY <2>3, <2>4, <2>6, Zenon
      <3>3. f[r] <= f[r]
        BY <2>1, <2>6
      <3> QED
        BY <2>1, <2>2, <2>6, <3>1, <3>2, <3>3, Zenon
    <2>7. CASE Valid(r) /\ b # NoSlot
      <3>1. b \in Positions /\ Valid(b) /\ (\A p \in 0 .. r - 1 : Valid(p) => f[p] <= f[b])
        BY <2>3, <2>4, <2>7, Zenon
      <3>2. /\ f[b] \in -Ring .. 0 /\ flash[b].hdr.seq = Number(q, f[b])
            /\ f[r] \in -Ring .. 0 /\ flash[r].hdr.seq = Number(q, f[r])
        BY <2>1, <2>7, <3>1, Zenon
      <3>3. Newer(flash[r].hdr.seq, flash[b].hdr.seq) <=> f[r] > f[b]
        BY <3>2, NewerIs, Zenon
      <3>4. CASE f[r] > f[b]
        <4>1. Best[m] = r
          BY <2>1, <2>7, <3>3, <3>4, Zenon DEF Better
        <4>2. \A p \in 0 .. m - 1 : Valid(p) => f[p] <= f[r]
          <5> SUFFICES ASSUME NEW p \in 0 .. m - 1, Valid(p) PROVE f[p] <= f[r]
            BY Zenon
          <5>1. p \in Positions
            BY <1>0
          <5>2. f[p] \in Int /\ (p = r \/ f[p] <= f[b])
            BY <2>2, <3>1, <5>1
          <5> QED
            BY <3>2, <3>4, <5>2
        <4> QED
          BY <2>1, <2>7, <4>1, <4>2, Zenon
      <3>5. CASE ~(f[r] > f[b])
        <4>1. Best[m] = b
          BY <2>1, <2>7, <3>3, <3>5, Zenon DEF Better
        <4>2. f[r] <= f[b]
          BY <3>2, <3>5
        <4>3. b \in 0 .. m - 1
          BY <2>3, <2>4, <2>7, Zenon
        <4> QED
          BY <2>2, <3>1, <4>1, <4>2, <4>3, Zenon
      <3> QED
        BY <3>4, <3>5, Zenon
    <2> QED
      BY <2>5, <2>6, <2>7, Zenon
  <1>3. T = {}
    <2> SUFFICES ASSUME T # {} PROVE FALSE
      BY Zenon
    <2>1. PICK m \in T : \A k \in T : m <= k
      <3>1. T \in SUBSET Nat
        BY <1>0
      <3> HIDE DEF T
      <3> QED
        BY <3>1, Least, Zenon
    <2>2. m \in 0 .. Ring /\ ~None(m) /\ ~Some(m)
      BY <2>1, Zenon
    <2>3. None(0)
      BY <1>1
    <2> HIDE DEF None, Some
    <2>4. m \in 1 .. Ring /\ m - 1 \in 0 .. Ring /\ m - 1 \notin T
      <3>1. m # 0
        BY <2>2, <2>3, Zenon
      <3> QED
        BY <1>0, <2>1, <2>2, <3>1
    <2>5. None(m - 1) \/ Some(m - 1)
      BY <2>4, Zenon
    <2> QED
      BY <1>2, <2>2, <2>4, <2>5, Zenon
  <1>4. None(Ring) \/ Some(Ring)
    <2> HIDE DEF None, Some
    <2> QED
      BY <1>0, <1>3
  <1>5. Scan = Best[Ring]
    BY Zenon DEF Scan, Ring
  <1> QED
    BY <1>0, <1>4, <1>5, Zenon
-----------------------------------------------------------------------------
(* What an anchored store holds. *)

\* The turns in which the headers were written.
Turned(a, q) == [p \in Positions |-> IF p = After(a) /\ Crossed(a, q) THEN 0 ELSE Turn(a, p)]

\* Every header has the number of its turn; a valid one was written in the next turn at the latest.
LEMMA AnchorTurns ==
  ASSUME NEW a \in Positions, NEW q \in Seqs, Sectors >= 2, Anchor(a, q), NEW p \in Positions
  PROVE  /\ Turned(a, q)[p] \in -Ring .. Ring
         /\ HasHeader(p) => flash[p].hdr.seq = Number(q, Turned(a, q)[p])
         /\ Valid(p) => Turned(a, q)[p] <= 0
         /\ HasHeader(p) /\ Turned(a, q)[p] = 0 => p = After(a) /\ flash[p].hdr.seq = q
         /\ p = After(a) /\ HasHeader(p) /\ flash[p].hdr.seq = q => Turned(a, q)[p] = 0
         /\ Turned(a, q)[p] = -1 <=> p = a
  <1>0. /\ a \in Int /\ p \in Int /\ Ring \in Nat /\ Ring < SeqHalf /\ SeqHalf \in Nat /\ Range = 2 * SeqHalf
        /\ q \in 0 .. Range - 1
    BY Sizes
  <1>1. Number(q, 0) = q
    <2>1. 0 \in -SeqHalf .. SeqHalf
      BY <1>0
    <2> QED
      BY <1>0, <2>1, NumberIs
  <1>2. /\ After(a) # a
        /\ After(a) % Slots = 0 => SectorOf(After(a)) # SectorOf(a)
        /\ After(a) % Slots # 0 => After(a) = a + 1 /\ SectorOf(After(a)) = SectorOf(a)
    BY AfterApart, Zenon
  <1>3. /\ Turn(a, p) \in -Ring .. Ring
        /\ SectorOf(p) = SectorOf(a) => Turn(a, p) = p - a - 1
        /\ SectorOf(p) # SectorOf(a) => Turn(a, p) < -1
    BY Turns, Zenon
  <1>4. CASE p = After(a) /\ Crossed(a, q)
    <2>1. Turned(a, q)[p] = 0
      BY <1>4, Zenon DEF Turned
    <2>2. HasHeader(p) /\ flash[p].hdr.seq = q
      BY <1>4, Zenon DEF Crossed, Valid
    <2> QED
      BY <1>0, <1>1, <1>2, <1>4, <2>1, <2>2
  <1>5. CASE ~(p = After(a) /\ Crossed(a, q))
    <2>1. Turned(a, q)[p] = Turn(a, p)
      BY <1>5, Zenon DEF Turned
    <2>2. HasHeader(p) => flash[p].hdr.seq = Number(q, Turn(a, p))
      BY <1>5, Zenon DEF Anchor, InSequence
    <2>3. Valid(p) => Turn(a, p) <= 0
      <3>1. SectorOf(p) = SectorOf(a) /\ p > a + 1 => ~Valid(p)
        BY Zenon DEF Anchor
      <3> QED
        BY <1>0, <1>3, <3>1
    <2>4. Turn(a, p) = 0 => p = After(a)
      <3> SUFFICES ASSUME Turn(a, p) = 0 PROVE p = After(a)
        BY Zenon
      <3>1. SectorOf(p) = SectorOf(a) /\ p = a + 1
        BY <1>0, <1>3
      <3>2. After(a) = a + 1
        <4>1. a + 1 \in 0 .. Ring - 1
          BY <3>1, Sizes, Zenon
        <4>2. (a + 1) % Ring = a + 1
          BY <1>0, <4>1
        <4> QED
          BY <4>2, Zenon DEF After, Ring
      <3> QED
        BY <3>1, <3>2, Zenon
    <2>5. p = After(a) /\ HasHeader(p) /\ flash[p].hdr.seq = q => Turn(a, p) = 0
      <3> SUFFICES ASSUME p = After(a), HasHeader(p), flash[p].hdr.seq = q PROVE Turn(a, p) = 0
        BY Zenon
      <3>1. Number(q, Turn(a, p)) = Number(q, 0)
        BY <1>1, <2>2, Zenon
      <3>2. /\ Turn(a, p) \in -SeqHalf .. SeqHalf /\ 0 \in -SeqHalf .. SeqHalf
            /\ Turn(a, p) - 0 < Range /\ 0 - Turn(a, p) < Range
        BY <1>0, <1>3
      <3> QED
        BY <3>1, <3>2, NumbersDiffer, Zenon
    <2>6. Turn(a, p) = -1 <=> p = a
      BY <1>0, <1>3
    <2>7. HasHeader(p) /\ Turn(a, p) = 0 => flash[p].hdr.seq = q
      BY <1>1, <2>2, Zenon
    <2> QED
      BY <1>3, <2>1, <2>2, <2>3, <2>4, <2>5, <2>6, <2>7, Zenon
  <1> QED
    BY <1>4, <1>5, Zenon

\* A boot finds the slot after a, if that was written in the next turn, or else a, if it is valid.
LEMMA NewestIs ==
  ASSUME NEW a \in Positions, NEW q \in Seqs, Sectors >= 2, Anchor(a, q)
  PROVE  /\ Scan \in Positions /\ Valid(Scan)
         /\ \A p \in Positions : Valid(p) => Turned(a, q)[p] <= Turned(a, q)[Scan]
         /\ Valid(After(a)) /\ flash[After(a)].hdr.seq = q => Scan = After(a)
         /\ ~(Valid(After(a)) /\ flash[After(a)].hdr.seq = q) /\ Valid(a) => Scan = a
  <1> DEFINE f == Turned(a, q)
  <1>0. Ring \in Nat
    BY Sizes, Zenon
  <1>1. \A p \in Positions :
          /\ f[p] \in -Ring .. Ring
          /\ Valid(p) => flash[p].hdr.seq = Number(q, f[p])
          /\ Valid(p) => f[p] <= 0
          /\ Valid(p) /\ f[p] = 0 => p = After(a) /\ flash[p].hdr.seq = q
          /\ p = After(a) /\ Valid(p) /\ flash[p].hdr.seq = q => f[p] = 0
          /\ f[p] = -1 <=> p = a
    <2> SUFFICES ASSUME NEW p \in Positions
                 PROVE  /\ f[p] \in -Ring .. Ring
                        /\ Valid(p) => flash[p].hdr.seq = Number(q, f[p])
                        /\ Valid(p) => f[p] <= 0
                        /\ Valid(p) /\ f[p] = 0 => p = After(a) /\ flash[p].hdr.seq = q
                        /\ p = After(a) /\ Valid(p) /\ flash[p].hdr.seq = q => f[p] = 0
                        /\ f[p] = -1 <=> p = a
      BY Zenon
    <2>1. Valid(p) => HasHeader(p)
      BY Zenon DEF Valid
    <2> QED
      BY <2>1, AnchorTurns
  <1> HIDE DEF f
  <1>2. \A p \in Positions : Valid(p) => f[p] \in -Ring .. 0 /\ flash[p].hdr.seq = Number(q, f[p])
    BY <1>0, <1>1
  <1>3. \E p \in Positions : Valid(p)
    BY Zenon DEF Anchor
  <1>4. Scan \in Positions /\ Valid(Scan) /\ \A p \in Positions : Valid(p) => f[p] <= f[Scan]
    BY <1>2, <1>3, ScanIs, Zenon
  <1>5. After(a) \in Positions
    BY AfterIs, Zenon
  <1>6. ASSUME Valid(After(a)), flash[After(a)].hdr.seq = q PROVE Scan = After(a)
    <2>1. f[After(a)] = 0 /\ f[After(a)] <= f[Scan] /\ f[Scan] <= 0 /\ f[Scan] \in -Ring .. Ring
      BY <1>1, <1>4, <1>5, <1>6, Zenon
    <2>2. f[Scan] = 0
      BY <1>0, <2>1
    <2> QED
      BY <1>1, <1>4, <2>2, Zenon
  <1>7. ASSUME ~(Valid(After(a)) /\ flash[After(a)].hdr.seq = q), Valid(a) PROVE Scan = a
    <2>1. f[a] = -1 /\ f[a] <= f[Scan] /\ f[Scan] <= 0 /\ f[Scan] \in -Ring .. Ring
      BY <1>1, <1>4, <1>7, Zenon
    <2>2. f[Scan] # 0
      BY <1>1, <1>4, <1>7, Zenon
    <2>3. f[Scan] = -1
      BY <1>0, <2>1, <2>2
    <2> QED
      BY <1>1, <1>4, <2>3, Zenon
  <1> QED
    BY <1>4, <1>6, <1>7, Zenon DEF f

\* A slot written last, with nothing newer in the store and nothing cut off after it.
Last(b, n) ==
  /\ Valid(b) /\ InSequence(b, n)
  /\ \A p \in Positions : SectorOf(p) = SectorOf(b) /\ p > b + 1 => ~Valid(p)
  /\ ~(Valid(After(b)) /\ flash[After(b)].hdr.seq = n)

\* What a boot finds in an anchored store is such a slot.
LEMMA ScanIsLast ==
  ASSUME NEW a \in Positions, NEW q \in Seqs, Sectors >= 2, Anchor(a, q),
         NEW b \in Positions, b = Scan
  PROVE  Last(b, Number(flash[b].hdr.seq, 1))
  <1> DEFINE f == Turned(a, q)
             n == Number(flash[b].hdr.seq, 1)
  <1>0. /\ Ring \in Nat /\ Ring < SeqHalf /\ SeqHalf \in Nat /\ Range = 2 * SeqHalf
        /\ a \in Int /\ b \in Int
    BY Sizes
  <1>1. Valid(b) /\ HasHeader(b) /\ \A p \in Positions : Valid(p) => f[p] <= f[b]
    BY NewestIs, Zenon DEF Valid
  <1>2. \A p \in Positions : f[p] \in -Ring .. Ring /\ (HasHeader(p) => flash[p].hdr.seq = Number(q, f[p]))
    BY AnchorTurns
  <1>3. f[b] \in -Ring .. 0
    <2>1. f[b] <= 0
      BY <1>1, AnchorTurns, Zenon
    <2> QED
      BY <1>0, <1>2, <2>1
  <1>4. n = Number(q, f[b] + 1)
    <2> HIDE DEF f
    <2>1. /\ f[b] \in -SeqHalf .. SeqHalf /\ 1 \in -SeqHalf .. SeqHalf /\ f[b] + 1 \in -SeqHalf .. SeqHalf
      BY <1>0, <1>3
    <2> QED
      BY <1>1, <1>2, <2>1, NumberOfNumber
  <1>5. ASSUME NEW p \in Positions, HasHeader(p) PROVE Turn(b, p) = f[p] - f[b] - 1
    <2>1. CASE Crossed(a, q)
      <3>1. b = After(a)
        BY <2>1, NewestIs, Zenon DEF Crossed
      <3>2. f[b] = 0
        BY <2>1, <3>1, Zenon DEF Turned
      <3>3. CASE p = b
        <4>1. Turn(b, p) = p - b - 1
          BY <3>3, Turns, Zenon
        <4> QED
          BY <1>0, <3>2, <3>3, <4>1
      <3>4. CASE p # b
        <4>1. SectorOf(p) # SectorOf(After(a))
          BY <1>5, <2>1, <3>1, <3>4, Zenon DEF Crossed
        <4>2. Turn(b, p) = Turn(a, p) - 1
          BY <3>1, <4>1, TurnShift, Zenon
        <4>3. f[p] = Turn(a, p) /\ f[p] \in Int
          BY <3>1, <3>4, <1>2 DEF Turned
        <4> QED
          BY <3>2, <4>2, <4>3
      <3> QED
        BY <3>3, <3>4, Zenon
    <2>2. CASE ~Crossed(a, q)
      <3>1. f[p] = Turn(a, p) /\ f[b] = Turn(a, b)
        BY <2>2, Zenon DEF Turned
      <3>2. SectorOf(b) = SectorOf(a)
        <4>1. PICK r \in Positions : SectorOf(r) = SectorOf(a) /\ Valid(r)
          BY Zenon DEF Anchor
        <4>2. f[r] <= f[b] /\ f[r] = Turn(a, r)
          BY <1>1, <2>2, <4>1, Zenon DEF Turned
        <4>3. SectorOf(b) # SectorOf(a) => Turn(a, b) < Turn(a, r)
          BY <4>1, Turns, Zenon
        <4>4. f[r] \in Int /\ f[b] \in Int
          BY <1>2
        <4> QED
          BY <3>1, <4>2, <4>3, <4>4
      <3>3. Turn(b, p) = Turn(a, p) + a - b
        BY <3>2, TurnWithin, Zenon
      <3>4. Turn(a, b) = b - a - 1
        BY <3>2, Turns, Zenon
      <3>5. Turn(a, p) \in Int
        BY <1>2, <3>1
      <3> QED
        BY <1>0, <3>1, <3>3, <3>4, <3>5
    <2> QED
      BY <2>1, <2>2, Zenon
  <1> HIDE DEF f
  <1>6. InSequence(b, n)
    <2> SUFFICES ASSUME NEW p \in Positions, HasHeader(p) PROVE flash[p].hdr.seq = Number(n, Turn(b, p))
      BY Zenon DEF InSequence
    <2>1. Turn(b, p) = f[p] - f[b] - 1 /\ f[p] \in -Ring .. Ring /\ flash[p].hdr.seq = Number(q, f[p])
      BY <1>2, <1>5, Zenon
    <2>2. Turn(b, p) \in -Ring .. Ring
      BY Turns, Zenon
    <2> DEFINE i == f[b] + 1
    <2>3. /\ i \in -SeqHalf .. SeqHalf /\ Turn(b, p) \in -SeqHalf .. SeqHalf
          /\ i + Turn(b, p) = f[p] /\ f[p] \in -SeqHalf .. SeqHalf
      BY <1>0, <1>3, <2>1, <2>2
    <2>4. n = Number(q, i)
      BY <1>4, Zenon
    <2> HIDE DEF i, n
    <2>5. i + Turn(b, p) \in -SeqHalf .. SeqHalf
      BY <2>3, Zenon
    <2>6. Number(Number(q, i), Turn(b, p)) = Number(q, i + Turn(b, p))
      BY <2>3, <2>5, NumberOfNumber, Zenon
    <2>7. Number(n, Turn(b, p)) = Number(q, f[p])
      BY <2>3, <2>4, <2>6, Zenon
    <2> QED
      BY <2>1, <2>7, Zenon
  <1>7. ASSUME NEW p \in Positions, SectorOf(p) = SectorOf(b), p > b + 1, Valid(p) PROVE FALSE
    <2>1. Turn(b, p) = f[p] - f[b] - 1 /\ Turn(b, p) = p - b - 1 /\ f[p] <= f[b]
      BY <1>1, <1>5, <1>7, Turns, Zenon DEF Valid
    <2>2. f[p] \in Int /\ f[b] \in Int /\ p \in Int
      BY <1>2, Sizes
    <2> QED
      BY <1>0, <1>7, <2>1, <2>2
  <1>8. ASSUME Valid(After(b)), flash[After(b)].hdr.seq = n PROVE FALSE
    <2> DEFINE c == After(b)
    <2>1. c \in Positions /\ HasHeader(c)
      BY <1>8, AfterIs, Zenon DEF Valid
    <2>2. f[c] <= f[b] /\ f[c] \in -Ring .. Ring /\ Number(q, f[c]) = Number(q, f[b] + 1)
      BY <1>1, <1>2, <1>4, <1>8, <2>1, Zenon
    <2> DEFINE i == f[b] + 1
    <2>3. /\ i \in -SeqHalf .. SeqHalf /\ f[c] \in -SeqHalf .. SeqHalf
          /\ f[c] - i < Range /\ i - f[c] < Range
      BY <1>0, <1>3, <2>2
    <2>4. Number(q, f[c]) = Number(q, i)
      BY <2>2, Zenon
    <2> HIDE DEF i
    <2>5. f[c] = i
      BY <2>3, <2>4, NumbersDiffer, Zenon
    <2> QED
      BY <1>0, <1>3, <2>2, <2>5 DEF i
  <1> QED
    BY <1>1, <1>6, <1>7, <1>8, Zenon DEF Last

\* Before the first save has succeeded there is nothing, or what was written last is at the start.
LEMMA FirstIsLast ==
  ASSUME Sectors >= 2, FirstInv
  PROVE  \/ Scan = NoSlot /\ \A p \in Positions : ~HasHeader(p)
         \/ Scan = 0 /\ flash[0].hdr.seq = 1 /\ Last(0, Number(1, 1))
  <1>0. /\ Ring \in Nat \ {0} /\ Ring < SeqHalf /\ SeqHalf \in Nat /\ Range = 2 * SeqHalf
        /\ Seqs = 0 .. Range - 1 /\ 0 \in Positions /\ Positions = 0 .. Ring - 1
    BY Sizes, Zenon
  <1>1. 1 \in Seqs /\ 0 \in -SeqHalf .. SeqHalf /\ 1 \in -SeqHalf .. SeqHalf /\ -1 \in -SeqHalf .. SeqHalf
    BY <1>0
  <1>2. Number(1, 0) = 1
    BY <1>0, <1>1, NumberIs
  <1> DEFINE f == [p \in Positions |-> 0]
  <1>3. \A p \in Positions : Valid(p) => p = 0 /\ f[p] \in -Ring .. 0 /\ flash[p].hdr.seq = Number(1, f[p])
    BY <1>0, <1>2 DEF FirstInv, Valid
  <1> HIDE DEF f
  <1>4. \/ Scan = NoSlot /\ \A p \in Positions : ~Valid(p)
        \/ Scan = 0 /\ Valid(0)
    BY <1>1, <1>3, ScanIs, Zenon
  <1>5. CASE Scan = NoSlot /\ \A p \in Positions : ~Valid(p)
    BY <1>5, Zenon DEF FirstInv
  <1>6. CASE Scan = 0 /\ Valid(0)
    <2>1. flash[0].hdr.seq = 1 /\ \A p \in Positions : HasHeader(p) => p = 0
      BY <1>0, <1>6, Zenon DEF FirstInv, Valid
    <2>2. Turn(0, 0) = -1
      <3>1. Turn(0, 0) = 0 - 0 - 1
        BY <1>0, Turns, Zenon
      <3> QED
        BY <3>1
    <2>3. Number(Number(1, 1), -1) = 1
      <3>1. 1 + (-1) = 0
        OBVIOUS
      <3>2. 1 + (-1) \in -SeqHalf .. SeqHalf
        BY <1>1, <3>1, Zenon
      <3>3. Number(Number(1, 1), -1) = Number(1, 1 + (-1))
        BY <1>1, <3>2, NumberOfNumber, Zenon
      <3> QED
        BY <1>2, <3>1, <3>3, Zenon
    <2>4. InSequence(0, Number(1, 1))
      BY <2>1, <2>2, <2>3, Zenon DEF InSequence
    <2>5. After(0) \in Positions /\ After(0) # 0
      BY <1>0, AfterIs, AfterApart, Zenon
    <2>6. ~Valid(After(0))
      BY <2>1, <2>5, Zenon DEF Valid
    <2>7. \A p \in Positions : p > 0 + 1 => ~Valid(p)
      <3> SUFFICES ASSUME NEW p \in Positions, p > 0 + 1, Valid(p) PROVE FALSE
        BY Zenon
      <3>1. p = 0
        BY <2>1, Zenon DEF Valid
      <3> QED
        BY <3>1
    <2> QED
      BY <1>6, <2>1, <2>4, <2>6, <2>7, Zenon DEF Last
  <1> QED
    BY <1>4, <1>5, <1>6, Zenon
-----------------------------------------------------------------------------
(* The operations of the store. *)

\* A boot that loads it anchors the store there.
LEMMA LastAnchors ==
  ASSUME NEW b \in Positions, NEW n \in Seqs, Last(b, n), flash' = flash, committed' = flash[b].data
  PROVE  Anchor(b, n)'
  <1>1. \A p \in Positions : (Valid(p)' <=> Valid(p)) /\ (HasHeader(p)' <=> HasHeader(p))
    BY Zenon DEF Valid, HasHeader
  <1>2. After(b) \in Positions /\ b \in Int
    BY AfterIs, Sizes
  <1>3. Crossed(b, n)' <=> Crossed(b, n)
    BY <1>1, <1>2, Zenon DEF Crossed
  <1>4. InSequence(b, n)'
    BY <1>1, <1>3, Zenon DEF InSequence, Last
  <1>5. b <= b
    BY <1>2
  <1> QED
    BY <1>1, <1>2, <1>4, <1>5, Zenon DEF Last, Anchor

\* The anchor stays where it is when slots keep what they hold, lose their header behind a or in
\* another sector, or the one after a gets the header of the next turn.
LEMMA AnchorKeeps ==
  ASSUME NEW a \in Positions, NEW q \in Seqs, Sectors >= 2, Anchor(a, q),
         \A p \in Positions :
           \/ flash'[p] = flash[p]
           \/ (p = After(a) \/ SectorOf(p) # SectorOf(a)) /\ ~HasHeader(p)'
           \/ /\ p = After(a) /\ flash'[p].hdr.seq = q
              /\ Valid(p)' => flash'[p].data \in tried' \cup Writing'
              /\ p % Slots = 0 =>
                   Valid(p)' /\ \A r \in Positions : SectorOf(r) = SectorOf(p) /\ HasHeader(r)' => r = p,
         \A v \in tried \cup Writing : v \in tried' \cup Writing',
         committed' = committed, reused' = reused
  PROVE  Anchor(a, q)'
  <1> DEFINE c == After(a)
             Kept(p) == flash'[p] = flash[p]
             Bare(p) == (p = c \/ SectorOf(p) # SectorOf(a)) /\ ~HasHeader(p)'
             New == /\ flash'[c].hdr.seq = q
                    /\ Valid(c)' => flash'[c].data \in tried' \cup Writing'
                    /\ c % Slots = 0 =>
                         Valid(c)' /\ \A r \in Positions : SectorOf(r) = SectorOf(c) /\ HasHeader(r)' => r = c
  <1>1. \A p \in Positions : Kept(p) \/ Bare(p) \/ (p = c /\ New)
    BY Zenon
  <1>2. \A p \in Positions : Kept(p) => (Valid(p)' <=> Valid(p)) /\ (HasHeader(p)' <=> HasHeader(p))
    BY Zenon DEF Valid, HasHeader
  <1>3. c \in Positions /\ c # a /\ a \in Int
    BY AfterIs, AfterApart, Sizes
  <1>4. /\ c % Slots = 0 => SectorOf(c) # SectorOf(a)
        /\ c % Slots # 0 => c = a + 1 /\ SectorOf(c) = SectorOf(a)
    BY AfterApart, Zenon
  <1>5. \A p \in Positions : Bare(p) => ~HasHeader(p)' /\ ~Valid(p)'
    BY Zenon DEF Valid
  <1>6. \A p \in Positions : SectorOf(p) = SectorOf(a) /\ p # c => Kept(p)
    BY <1>1, Zenon
  <1>7. SectorOf(c) = SectorOf(a) => c = a + 1
    BY <1>4, Zenon
  <1> HIDE DEF c, Bare
  <1>8. InSequence(a, q)'
    <2> SUFFICES ASSUME NEW p \in Positions, HasHeader(p)'
                 PROVE  flash'[p].hdr.seq = Number(q, Turn(a, p)) \/ (p = c /\ Crossed(a, q)')
      BY Zenon DEF InSequence, c
    <2>1. CASE Kept(p)
      <3>1. flash'[p].hdr.seq = Number(q, Turn(a, p)) \/ (p = c /\ Crossed(a, q))
        BY <1>2, <2>1, Zenon DEF Anchor, InSequence, c
      <3>2. ASSUME p = c, Crossed(a, q) PROVE Crossed(a, q)'
        <4>1. c % Slots = 0 /\ Valid(c)' /\ flash'[c].hdr.seq = q
          BY <1>2, <1>3, <2>1, <3>2, Zenon DEF Crossed, c
        <4>2. ASSUME NEW r \in Positions, SectorOf(r) = SectorOf(c), HasHeader(r)' PROVE r = c
          <5>1. r # c => Kept(r)
            BY <1>1, <1>5, <4>2, Zenon
          <5>2. r # c => HasHeader(r)
            BY <1>2, <4>2, <5>1, Zenon
          <5> QED
            BY <3>2, <4>2, <5>2, Zenon DEF Crossed, c
        <4> QED
          BY <4>1, <4>2, Zenon DEF Crossed, c
      <3> QED
        BY <3>1, <3>2, Zenon
    <2>2. CASE p = c /\ New
      <3>1. CASE c % Slots = 0
        BY <2>2, <3>1, Zenon DEF Crossed, c
      <3>2. CASE c % Slots # 0
        <4>1. c = a + 1 /\ SectorOf(c) = SectorOf(a)
          BY <1>4, <3>2, Zenon
        <4>2. Turn(a, c) = c - a - 1
          BY <1>3, <4>1, Turns, Zenon
        <4>3. Turn(a, c) = 0
          BY <1>3, <4>1, <4>2
        <4>4. Number(q, 0) = q
          <5>1. /\ SeqHalf \in Nat /\ 0 \in -SeqHalf .. SeqHalf /\ q \in 0 .. Range - 1 /\ Range \in Nat
            BY Sizes
          <5> QED
            BY <5>1, NumberIs
        <4> QED
          BY <2>2, <4>3, <4>4, Zenon
      <3> QED
        BY <3>1, <3>2, Zenon
    <2> QED
      BY <1>1, <1>5, <2>1, <2>2, Zenon
  <1>9. ASSUME NEW p \in Positions, SectorOf(p) = SectorOf(a), p > a + 1 PROVE ~Valid(p)'
    <2>1. p # c
      <3>1. p \in Int
        BY Sizes
      <3> QED
        BY <1>3, <1>7, <1>9, <3>1
    <2> QED
      BY <1>2, <1>6, <1>9, <2>1, Zenon DEF Anchor
  <1>10. ASSUME Valid(c)', flash'[c].hdr.seq = q PROVE flash'[c].data \in tried' \cup Writing'
    <2>1. CASE Kept(c)
      <3>1. flash[c].data \in tried \cup Writing
        BY <1>2, <1>3, <1>10, <2>1, Zenon DEF Anchor, c
      <3> QED
        BY <2>1, <3>1, Zenon
    <2>2. CASE New
      BY <1>10, <2>2, Zenon
    <2> QED
      BY <1>1, <1>3, <1>5, <1>10, <2>1, <2>2, Zenon
  <1>11. \E p \in Positions : SectorOf(p) = SectorOf(a) /\ p <= a /\ Valid(p)'
    <2>1. PICK p \in Positions : SectorOf(p) = SectorOf(a) /\ p <= a /\ Valid(p)
      BY Zenon DEF Anchor
    <2>2. p # c
      <3>1. p \in Int
        BY Sizes
      <3> QED
        BY <1>3, <1>7, <2>1, <3>1
    <2> QED
      BY <1>2, <1>6, <2>1, <2>2, Zenon
  <1>12. Kept(a)
    BY <1>3, <1>6, Zenon
  <1> QED
    BY <1>2, <1>8, <1>9, <1>10, <1>11, <1>12, Zenon DEF Anchor, c
-----------------------------------------------------------------------------
(* What the operations of a save leave in the flash. *)

Blocks == Values \cup {Blank, Mix}
Headers == [seq : Seqs, crc : {Crc(d) : d \in Values}]

\* What a slot may hold; a valid block is a whole one.
LEMMA SlotTypes ==
  ASSUME TypeOK, NEW p \in Positions
  PROVE  /\ flash[p].data \in Blocks /\ flash[p].hdr \in Headers \cup {Blank, Mix}
         /\ flash[p] = [data |-> flash[p].data, hdr |-> flash[p].hdr]
         /\ HasHeader(p) => flash[p].hdr \in Headers /\ flash[p].hdr.seq \in Seqs
         /\ Valid(p) => flash[p].data \in Values
  <1>1. flash[p] \in [data : Blocks, hdr : Headers \cup {Blank, Mix}]
    BY Zenon DEF TypeOK, StoreTypeOK, Blocks, Headers
  <1>2. /\ flash[p].data \in Blocks /\ flash[p].hdr \in Headers \cup {Blank, Mix}
        /\ flash[p] = [data |-> flash[p].data, hdr |-> flash[p].hdr]
    BY <1>1, Zenon
  <1>3. HasHeader(p) => flash[p].hdr \in Headers
    BY <1>2, Zenon DEF HasHeader
  <1>4. \A h \in Headers : h.seq \in Seqs /\ \E d \in Values : h.crc = Crc(d)
    BY Zenon DEF Headers
  <1>5. \A d, e : Crc(d) = Crc(e) => d = e
    BY Zenon DEF Crc
  <1>6. Valid(p) => flash[p].data \in Values
    BY <1>3, <1>4, <1>5, Zenon DEF Valid
  <1> QED
    BY <1>2, <1>3, <1>4, <1>6, Zenon

\* The checksum tells all blocks apart.
LEMMA CrcDiffers == ASSUME NEW d, NEW e, Crc(d) = Crc(e) PROVE d = e
  BY Zenon DEF Crc

\* The header a save writes is one.
LEMMA HeaderIs ==
  ASSUME TypeOK
  PROVE  /\ Header(data) \in Headers /\ Header(data) \notin {Blank, Mix}
         /\ Header(data).seq = next_seq /\ Header(data).crc = Crc(data)
         /\ data \in Values /\ data \notin {Blank, Mix}
  <1>1. data \in Values /\ next_seq \in Seqs
    BY Zenon DEF TypeOK, StoreTypeOK
  <1>2. Header(data) = [seq |-> next_seq, crc |-> Crc(data)]
    BY Zenon DEF Header
  <1>3. Header(data) \notin {Blank, Mix} /\ data \notin {Blank, Mix}
    BY <1>1, <1>2, SettingsAssumption, Zenon
  <1>4. Header(data) \in Headers /\ Header(data).seq = next_seq /\ Header(data).crc = Crc(data)
    BY <1>1, <1>2 DEF Headers
  <1> QED
    BY <1>1, <1>3, <1>4, Zenon

Spoiled == [data |-> Mix, hdr |-> Mix]

\* An erasure empties or spoils slots of its sector; a write changes the slot of the save.
Effect ==
  \/ /\ op = "erase" /\ flash' = [p \in Positions |-> flash'[p]]
     /\ \A p \in Positions :
          flash'[p] = flash[p] \/ (SectorOf(p) = SectorOf(at) /\ flash'[p] \in {Empty, Spoiled})
  \/ /\ op = "data"
     /\ \E d \in {flash[at].data, data, Mix} : flash' = [flash EXCEPT ![at].data = d]
  \/ /\ op = "header"
     /\ \E h \in {flash[at].hdr, Header(data), Mix} : flash' = [flash EXCEPT ![at].hdr = h]

\* What a write leaves, finished or not.
LEMMA WrittenIs ==
  ASSUME NEW old, NEW new
  PROVE  /\ \A x \in Torn(old, new) : x \in {old, new, Mix}
         /\ \A x \in Written(old, new) : x \in {old, new, Mix}
         /\ old = Blank => Written(old, new) = {new}
         /\ \A x \in Written(old, new) : x \in {new, Mix}
  BY Zenon DEF Torn, Written

\* An operation cut off, or that fails, has the effect of its step at most.
LEMMA CutOffEffect ==
  ASSUME CutOff(data), op \in {"erase", "data", "header"}, TypeOK
  PROVE  Effect
  <1>1. CASE op = "erase"
    <2>1. flash' \in HalfErased(SectorOf(at))
      BY <1>1, Zenon DEF CutOff
    <2>2. PICK s \in [{p \in Positions : SectorOf(p) = SectorOf(at)} -> {"kept", "erased", "spoiled"}] :
            flash' = [p \in Positions |->
                        IF SectorOf(p) # SectorOf(at) \/ s[p] = "kept" THEN flash[p]
                        ELSE IF s[p] = "erased" THEN [data |-> Blank, hdr |-> Blank]
                        ELSE [data |-> Mix, hdr |-> Mix]]
      BY <2>1, Zenon DEF HalfErased
    <2>3. \A p \in Positions :
            flash'[p] = flash[p] \/ (SectorOf(p) = SectorOf(at) /\ flash'[p] \in {Empty, Spoiled})
      BY <2>2, Zenon DEF Empty, Spoiled
    <2>4. flash' = [p \in Positions |-> flash'[p]]
      BY <2>2, Zenon
    <2> QED
      BY <1>1, <2>3, <2>4, Zenon DEF Effect
  <1>2. CASE op = "data"
    <2>1. \E d \in Torn(flash[at].data, data) : flash' = [flash EXCEPT ![at].data = d]
      BY <1>2, Zenon DEF CutOff
    <2>2. PICK d \in Torn(flash[at].data, data) : flash' = [flash EXCEPT ![at].data = d]
      BY <2>1, Zenon
    <2>3. d \in {flash[at].data, data, Mix}
      BY <2>2, WrittenIs, Zenon
    <2> QED
      BY <1>2, <2>2, <2>3, Zenon DEF Effect
  <1>3. CASE op = "header"
    <2>1. \E h \in Torn(flash[at].hdr, Header(data)) : flash' = [flash EXCEPT ![at].hdr = h]
      BY <1>3, Zenon DEF CutOff
    <2>2. PICK h \in Torn(flash[at].hdr, Header(data)) : flash' = [flash EXCEPT ![at].hdr = h]
      BY <2>1, Zenon
    <2>3. h \in {flash[at].hdr, Header(data), Mix}
      BY <2>2, WrittenIs, Zenon
    <2> QED
      BY <1>3, <2>2, <2>3, Zenon DEF Effect
  <1> QED
    BY <1>1, <1>2, <1>3, Zenon

\* So has an erasure that is finished,
LEMMA ErasingEffect == ASSUME Erasing PROVE Effect
  <1>1. /\ op = "erase"
        /\ flash' = [p \in Positions |-> IF SectorOf(p) = SectorOf(at) THEN [data |-> Blank, hdr |-> Blank]
                                         ELSE flash[p]]
    BY Zenon DEF Erasing, Erase, Erased
  <1>2. flash' = [p \in Positions |-> flash'[p]]
    BY <1>1, Zenon
  <1> QED
    BY <1>1, <1>2, Zenon DEF Effect, Empty

\* and a write.
LEMMA WritingEffect == ASSUME WritingData PROVE Effect
  <1>1. PICK d \in Written(flash[at].data, data) : flash' = [flash EXCEPT ![at].data = d]
    BY Zenon DEF WritingData, WriteData
  <1>2. d \in {flash[at].data, data, Mix}
    BY <1>1, WrittenIs, Zenon
  <1> QED
    BY <1>1, <1>2, Zenon DEF WritingData, WriteData, Effect

\* Slot by slot.
LEMMA EffectIs ==
  ASSUME TypeOK, Effect
  PROVE  /\ flash' \in [Positions -> [data : Blocks, hdr : Headers \cup {Blank, Mix}]]
         /\ op = "erase" => \A p \in Positions :
              flash'[p] = flash[p] \/ (SectorOf(p) = SectorOf(at) /\ ~HasHeader(p)')
         /\ op # "erase" => \A p \in Positions \ {at} : flash'[p] = flash[p]
         /\ op = "data" => /\ flash'[at].hdr = flash[at].hdr
                           /\ flash'[at].data \in {flash[at].data, data, Mix}
         /\ op = "header" => /\ flash'[at].data = flash[at].data
                             /\ flash'[at].hdr \in {flash[at].hdr, Header(data), Mix}
  <1>0. /\ flash \in [Positions -> [data : Blocks, hdr : Headers \cup {Blank, Mix}]]
        /\ at \in Positions
    BY Zenon DEF TypeOK, StoreTypeOK, Blocks, Headers
  <1>1. data \in Blocks /\ Mix \in Blocks /\ Header(data) \in Headers /\ Blank # Mix
    BY HeaderIs, StoreAssumption, Zenon DEF Blocks
  <1>2. CASE op = "erase"
    <2>1. /\ flash' = [p \in Positions |-> flash'[p]]
          /\ \A p \in Positions :
               flash'[p] = flash[p] \/ (SectorOf(p) = SectorOf(at) /\ flash'[p] \in {Empty, Spoiled})
      BY <1>2, Zenon DEF Effect
    <2>2. /\ Empty \in [data : Blocks, hdr : Headers \cup {Blank, Mix}] /\ Empty.hdr = Blank
          /\ Spoiled \in [data : Blocks, hdr : Headers \cup {Blank, Mix}] /\ Spoiled.hdr = Mix
      BY Zenon DEF Empty, Spoiled, Blocks
    <2>3. flash' \in [Positions -> [data : Blocks, hdr : Headers \cup {Blank, Mix}]]
      <3>1. \A p \in Positions : flash'[p] \in [data : Blocks, hdr : Headers \cup {Blank, Mix}]
        BY <1>0, <2>1, <2>2, Zenon
      <3> QED
        BY <2>1, <3>1, Zenon
    <2>4. \A p \in Positions :
            flash'[p] = flash[p] \/ (SectorOf(p) = SectorOf(at) /\ ~HasHeader(p)')
      BY <2>1, <2>2, Zenon DEF HasHeader
    <2> QED
      BY <1>2, <2>3, <2>4, Zenon
  <1>3. CASE op = "data"
    <2>1. PICK d \in {flash[at].data, data, Mix} : flash' = [flash EXCEPT ![at].data = d]
      BY <1>3, Zenon DEF Effect
    <2>2. d \in Blocks
      BY <1>0, <1>1, <2>1, Zenon
    <2> QED
      BY <1>0, <1>3, <2>1, <2>2, Zenon
  <1>4. CASE op = "header"
    <2>1. PICK h \in {flash[at].hdr, Header(data), Mix} : flash' = [flash EXCEPT ![at].hdr = h]
      BY <1>4, Zenon DEF Effect
    <2>2. h \in Headers \cup {Blank, Mix}
      BY <1>0, <1>1, <2>1, Zenon
    <2> QED
      BY <1>0, <1>4, <2>1, <2>2, Zenon
  <1> QED
    BY <1>2, <1>3, <1>4, Zenon DEF Effect
-----------------------------------------------------------------------------
(* The steps of a save. *)

\* They leave the anchor where it is, until the save has succeeded.
LEMMA EffectKeeps ==
  ASSUME Sectors >= 2, IndInv, Effect, op \in {"erase", "data", "header"}, has_active_slot,
         NEW a \in Positions, NEW q \in Seqs, a = active, q = next_seq,
         op # "erase" => data \in tried' \cup Writing',
         \A v \in tried : v \in tried' \cup Writing', committed' = committed, reused' = reused
  PROVE  Anchor(a, q)'
  <1>1. Anchor(a, q) /\ at = After(a) /\ at \in Positions /\ TypeOK
    <2>1. Anchor(active, next_seq) /\ at = NextSlot /\ TypeOK
      BY Zenon DEF IndInv, StoreInv, SaveInv
    <2> QED
      BY <2>1, Zenon DEF NextSlot, After, TypeOK, StoreTypeOK
  <1>c. PICK c \in Positions : c = at
    BY <1>1, Zenon
  <1>2. \A v \in tried \cup Writing : v \in tried' \cup Writing'
    BY Zenon DEF Writing
  <1>3. /\ op = "erase" => \A p \in Positions :
              flash'[p] = flash[p] \/ (SectorOf(p) = SectorOf(c) /\ ~HasHeader(p)')
        /\ op # "erase" => \A p \in Positions \ {c} : flash'[p] = flash[p]
        /\ op = "data" => /\ flash'[c].hdr = flash[c].hdr
                          /\ flash'[c].data \in {flash[c].data, data, Mix}
        /\ op = "header" => /\ flash'[c].data = flash[c].data
                            /\ flash'[c].hdr \in {flash[c].hdr, Header(data), Mix}
    BY <1>1, <1>c, EffectIs, Zenon
  <1>4. /\ c % Slots = 0 => SectorOf(c) # SectorOf(a)
        /\ c % Slots # 0 => c = a + 1 /\ SectorOf(c) = SectorOf(a)
    BY <1>1, <1>c, AfterApart, Zenon
  <1>5. /\ op = "erase" => c % Slots = 0
        /\ op # "erase" /\ c % Slots = 0 =>
             \A p \in Positions \ {c} : SectorOf(p) = SectorOf(c) => flash[p] = Empty
        /\ op = "data" /\ c % Slots = 0 => flash[c] = Empty
        /\ op = "header" /\ c % Slots = 0 => flash[c] = [data |-> data, hdr |-> Blank]
    BY <1>c, Zenon DEF IndInv, SaveInv
  <1>6. /\ flash[c].data \in Blocks /\ flash[c] = [data |-> flash[c].data, hdr |-> flash[c].hdr]
        /\ HasHeader(c) => flash[c].hdr \in Headers
    BY <1>1, <1>c, SlotTypes, Zenon
  <1> DEFINE New == /\ flash'[c].hdr.seq = q
                    /\ Valid(c)' => flash'[c].data \in tried' \cup Writing'
                    /\ c % Slots = 0 =>
                         Valid(c)' /\ \A r \in Positions : SectorOf(r) = SectorOf(c) /\ HasHeader(r)' => r = c
  <1>7. \A p \in Positions :
          \/ flash'[p] = flash[p]
          \/ (p = After(a) \/ SectorOf(p) # SectorOf(a)) /\ ~HasHeader(p)'
          \/ p = After(a) /\ New
    <2>1. CASE op = "erase"
      BY <1>3, <1>4, <1>5, <2>1, Zenon
    <2>2. CASE op = "data"
      <3> SUFFICES ASSUME HasHeader(c)', flash'[c] # flash[c] PROVE New
        BY <1>1, <1>c, <1>3, <2>2, Zenon
      <3>1. HasHeader(c) /\ flash'[c].hdr = flash[c].hdr /\ flash[c].hdr \in Headers
        BY <1>3, <1>6, <2>2, Zenon DEF HasHeader
      <3>2. c % Slots # 0
        BY <1>5, <2>2, <3>1 DEF Empty, HasHeader
      <3>3. flash[c].hdr.seq = q
        <4>1. Turn(a, c) = c - a - 1 /\ c = a + 1
          BY <1>1, <1>c, <1>4, <3>2, Turns, Zenon
        <4>2. Turn(a, c) = 0
          BY <4>1, Sizes
        <4>3. Turned(a, q)[c] = 0
          BY <1>1, <1>c, <3>2, <4>2, Zenon DEF Turned, Crossed
        <4> QED
          BY <1>1, <3>1, <4>3, AnchorTurns
      <3>4. ASSUME Valid(c)' PROVE flash'[c].data \in tried' \cup Writing'
        <4>1. flash'[c].data # Mix
          <5>1. \E v \in Values : flash'[c].hdr.crc = Crc(v)
            BY <3>1, Zenon DEF Headers
          <5>2. flash'[c].data \in Values
            BY <3>4, <5>1, CrcDiffers, Zenon DEF Valid
          <5> QED
            BY <5>2, SettingsAssumption, Zenon
        <4>2. flash'[c].data # flash[c].data
          <5>1. flash'[c] = [data |-> flash'[c].data, hdr |-> flash'[c].hdr]
            <6>1. flash' \in [Positions -> [data : Blocks, hdr : Headers \cup {Blank, Mix}]]
              BY <1>1, EffectIs, Zenon
            <6> QED
              BY <1>1, <6>1, Zenon
          <5> QED
            BY <1>6, <3>1, <5>1, Zenon
        <4> QED
          BY <1>3, <2>2, <4>1, <4>2, Zenon
      <3> QED
        BY <3>1, <3>2, <3>3, <3>4, Zenon
    <2>3. CASE op = "header"
      <3> SUFFICES ASSUME HasHeader(c)', flash'[c] # flash[c] PROVE New
        BY <1>1, <1>c, <1>3, <2>3, Zenon
      <3>1. flash'[c] = [data |-> flash'[c].data, hdr |-> flash'[c].hdr]
        <4>1. flash' \in [Positions -> [data : Blocks, hdr : Headers \cup {Blank, Mix}]]
          BY <1>1, EffectIs, Zenon
        <4> QED
          BY <1>1, <4>1
      <3>2. flash'[c].hdr = Header(data) /\ flash'[c].data = flash[c].data
        BY <1>3, <1>6, <2>3, <3>1, Zenon DEF HasHeader
      <3>3. flash'[c].hdr.seq = q /\ flash'[c].hdr.crc = Crc(data)
        BY <1>1, <3>2, HeaderIs, Zenon
      <3>4. Valid(c)' => flash'[c].data = data
        BY <3>3, CrcDiffers, Zenon DEF Valid
      <3>5. ASSUME c % Slots = 0
            PROVE  Valid(c)' /\ \A r \in Positions : SectorOf(r) = SectorOf(c) /\ HasHeader(r)' => r = c
        <4>1. flash'[c].data = data
          BY <1>5, <2>3, <3>2, <3>5
        <4>2. Valid(c)'
          BY <3>3, <4>1, Zenon DEF Valid
        <4>3. \A r \in Positions \ {c} : SectorOf(r) = SectorOf(c) => ~HasHeader(r)'
          BY <1>3, <1>5, <2>3, <3>5 DEF Empty, HasHeader
        <4> QED
          BY <4>2, <4>3, Zenon
      <3> QED
        BY <2>3, <3>3, <3>4, <3>5, Zenon
    <2> QED
      BY <2>1, <2>2, <2>3, Zenon
  <1>8. \A p \in Positions :
          \/ flash'[p] = flash[p]
          \/ (p = After(a) \/ SectorOf(p) # SectorOf(a)) /\ ~HasHeader(p)'
          \/ /\ p = After(a) /\ flash'[p].hdr.seq = q
             /\ Valid(p)' => flash'[p].data \in tried' \cup Writing'
             /\ p % Slots = 0 =>
                  Valid(p)' /\ \A r \in Positions : SectorOf(r) = SectorOf(p) /\ HasHeader(r)' => r = p
    <2> SUFFICES ASSUME NEW p \in Positions, New, p = c
                 PROVE  /\ p = After(a) /\ flash'[p].hdr.seq = q
                        /\ Valid(p)' => flash'[p].data \in tried' \cup Writing'
                        /\ p % Slots = 0 =>
                             Valid(p)' /\ \A r \in Positions : SectorOf(r) = SectorOf(p) /\ HasHeader(r)' => r = p
      BY <1>1, <1>c, <1>7, Zenon
    <2> QED
      BY <1>1, <1>c, Zenon
  <1> QED
    BY <1>1, <1>2, <1>8, AnchorKeeps, Zenon

\* Before the first save has succeeded, they leave no header but that of the first slot.
LEMMA EffectFirst ==
  ASSUME IndInv, Effect, op \in {"erase", "data", "header"}, ~has_active_slot
  PROVE  \A p \in Positions : HasHeader(p)' => op = "header" /\ p = 0 /\ Valid(p)' /\ flash'[p].hdr.seq = 1
  <1>1. TypeOK /\ committed = Blank /\ FirstInv /\ at = 0 /\ next_seq = 1
    BY Zenon DEF IndInv, StoreInv, SaveInv, NextSlot
  <1>2. \A p \in Positions : ~HasHeader(p)
    BY <1>1, Zenon DEF FirstInv
  <1>3. 0 \in Positions /\ 0 % Slots = 0
    BY Sizes
  <1>4. op = "header" => flash[0] = [data |-> data, hdr |-> Blank]
    BY <1>1, <1>3, Zenon DEF IndInv, SaveInv
  <1> SUFFICES ASSUME NEW p \in Positions, HasHeader(p)'
               PROVE  op = "header" /\ p = 0 /\ Valid(p)' /\ flash'[p].hdr.seq = 1
    BY Zenon
  <1>5. flash'[p] # flash[p]
    BY <1>2, Zenon DEF HasHeader
  <1>6. op # "erase" /\ p = 0
    BY <1>1, <1>5, EffectIs, Zenon
  <1>7. op # "data"
    BY <1>1, <1>2, <1>6, EffectIs, Zenon DEF HasHeader
  <1>8. flash'[0].data = data /\ flash'[0].hdr \in {flash[0].hdr, Header(data), Mix} /\ flash[0].hdr = Blank
    <2>1. flash'[0].data = flash[0].data /\ flash'[0].hdr \in {flash[0].hdr, Header(data), Mix}
      BY <1>1, <1>6, <1>7, EffectIs, Zenon
    <2> QED
      BY <1>4, <1>6, <1>7, <2>1
  <1>9. flash'[0].hdr = Header(data)
    BY <1>6, <1>8, Zenon DEF HasHeader
  <1> QED
    BY <1>1, <1>6, <1>7, <1>8, <1>9, HeaderIs, Zenon DEF Valid

\* The header of a save that succeeds.
LEMMA SavedIs ==
  ASSUME IndInv, Saved, NEW c \in Positions, c = at
  PROVE  /\ op = "header" /\ active' = c /\ next_seq' = Number(next_seq, 1) /\ has_active_slot' /\ op' = "idle"
         /\ \A p \in Positions \ {c} : flash'[p] = flash[p]
         /\ flash'[c].data = flash[c].data /\ flash'[c].hdr \in {Header(data), Mix}
         /\ flash'[c].hdr \in Headers \cup {Blank, Mix}
         /\ flash' = [flash EXCEPT ![c].hdr = flash'[c].hdr]
         /\ c % Slots = 0 \/ ~used => Valid(c)'
         /\ Valid(c)' => flash'[c].data = data
         /\ HasHeader(c)' => flash'[c].hdr.seq = next_seq
         /\ c % Slots = 0 => \A p \in Positions \ {c} : SectorOf(p) = SectorOf(c) => flash[p] = Empty
  <1>1. TypeOK
    BY Zenon DEF IndInv
  <1>2. /\ op = "header" /\ active' = c /\ has_active_slot' /\ op' = "idle"
        /\ \E h \in Written(flash[c].hdr, Header(data)) : flash' = [flash EXCEPT ![c].hdr = h]
        /\ next_seq' = Number(next_seq, 1)
    BY Zenon DEF Saved, WriteHeader, Number
  <1>3. PICK h \in Written(flash[c].hdr, Header(data)) : flash' = [flash EXCEPT ![c].hdr = h]
    BY <1>2, Zenon
  <1>4. /\ h \in {Header(data), Mix} /\ (flash[c].hdr = Blank => h = Header(data))
    BY <1>3, WrittenIs, Zenon
  <1>5. /\ Header(data) \in Headers /\ Header(data) \notin {Blank, Mix}
        /\ Header(data).seq = next_seq /\ Header(data).crc = Crc(data)
    BY <1>1, HeaderIs, Zenon
  <1>6. flash \in [Positions -> [data : Blocks, hdr : Headers \cup {Blank, Mix}]]
    BY <1>1, Zenon DEF TypeOK, StoreTypeOK, Blocks, Headers
  <1>7. /\ \A p \in Positions \ {c} : flash'[p] = flash[p]
        /\ flash'[c].data = flash[c].data /\ flash'[c].hdr = h
    BY <1>3, <1>6, Zenon
  <1>8. /\ c % Slots = 0 => \A p \in Positions \ {c} : SectorOf(p) = SectorOf(c) => flash[p] = Empty
        /\ c % Slots = 0 \/ ~used => flash[c] = [data |-> data, hdr |-> Blank]
    BY <1>2, Zenon DEF IndInv, SaveInv
  <1>9. c % Slots = 0 \/ ~used => flash[c].data = data /\ flash[c].hdr = Blank
    BY <1>8
  <1>10. c % Slots = 0 \/ ~used => Valid(c)'
    BY <1>4, <1>5, <1>7, <1>9, Zenon DEF Valid, HasHeader
  <1>11. HasHeader(c)' => flash'[c].hdr = Header(data)
    BY <1>4, <1>7, Zenon DEF HasHeader
  <1>12. /\ Valid(c)' => flash'[c].data = data
         /\ HasHeader(c)' => flash'[c].hdr.seq = next_seq
    BY <1>5, <1>11, CrcDiffers, Zenon DEF Valid
  <1> QED
    BY <1>2, <1>3, <1>4, <1>5, <1>7, <1>8, <1>10, <1>12, Zenon

\* A save that succeeds moves the anchor to its slot.
LEMMA SavedAnchors ==
  ASSUME Sectors >= 2, IndInv, Saved, NEW c \in Positions, NEW n \in Seqs, c = at, n = Number(next_seq, 1)
  PROVE  Anchor(c, n)'
  <1>1. /\ \A p \in Positions \ {c} : flash'[p] = flash[p]
        /\ c % Slots = 0 \/ ~used => Valid(c)'
        /\ Valid(c)' => flash'[c].data = data
        /\ HasHeader(c)' => flash'[c].hdr.seq = next_seq
        /\ c % Slots = 0 => \A p \in Positions \ {c} : SectorOf(p) = SectorOf(c) => flash[p] = Empty
        /\ op = "header"
    BY SavedIs, Zenon
  <1>2. TypeOK /\ c = NextSlot /\ committed' = data /\ reused' = used
    BY <1>1, Zenon DEF IndInv, SaveInv, Saved
  <1>3. PICK q \in Seqs : q = next_seq
    BY <1>2, Zenon DEF TypeOK, StoreTypeOK
  <1>4. PICK a \in Positions : a = active
    BY <1>2, Zenon DEF TypeOK, StoreTypeOK
  <1>5. /\ SeqHalf \in Nat /\ Ring \in Nat /\ Ring < SeqHalf /\ Range = 2 * SeqHalf
        /\ q \in 0 .. Range - 1 /\ a \in Int /\ c \in Int /\ \A p \in Positions : p \in Int
    BY Sizes
  <1>6. \A p \in Positions \ {c} : (Valid(p)' <=> Valid(p)) /\ (HasHeader(p)' <=> HasHeader(p))
    BY <1>1, Zenon DEF Valid, HasHeader
  <1>7. /\ has_active_slot => Anchor(a, q) /\ c = After(a)
        /\ ~has_active_slot => c = 0 /\ \A p \in Positions : ~HasHeader(p)
    BY <1>1, <1>2, <1>3, <1>4, Zenon DEF IndInv, StoreInv, SaveInv, NextSlot, After, FirstInv
  <1>8. /\ After(a) % Slots = 0 => SectorOf(After(a)) # SectorOf(a)
        /\ After(a) % Slots # 0 => After(a) = a + 1 /\ SectorOf(After(a)) = SectorOf(a)
    BY AfterApart, Zenon
  <1>9. 0 % Slots = 0
    BY Sizes
  <1>10. ASSUME NEW p \in Positions, p # c, HasHeader(p)
         PROVE  /\ has_active_slot /\ Turn(c, p) = Turn(a, p) - 1
                /\ flash[p].hdr.seq = Number(q, Turn(a, p)) /\ Turn(a, p) \in -Ring .. Ring
    <2>1. has_active_slot
      BY <1>7, <1>10, Zenon
    <2>2. c % Slots # 0 \/ SectorOf(p) # SectorOf(c)
      <3>1. flash[p] # Empty
        BY <1>10 DEF HasHeader, Empty
      <3> QED
        BY <1>1, <1>10, <3>1, Zenon
    <2>3. Turn(c, p) = Turn(a, p) - 1
      BY <1>7, <2>1, <2>2, TurnShift, Zenon
    <2>4. flash[p].hdr.seq = Number(q, Turn(a, p))
      BY <1>7, <1>10, <2>1, Zenon DEF Anchor, InSequence
    <2>5. Turn(a, p) \in -Ring .. Ring
      BY Turns, Zenon
    <2> QED
      BY <2>1, <2>3, <2>4, <2>5, Zenon
  <1>11. /\ 1 \in -SeqHalf .. SeqHalf /\ -1 \in -SeqHalf .. SeqHalf /\ 0 \in -SeqHalf .. SeqHalf
         /\ 1 + (-1) = 0
    BY <1>5
  <1>12. InSequence(c, n)'
    <2> SUFFICES ASSUME NEW p \in Positions, HasHeader(p)' PROVE flash'[p].hdr.seq = Number(n, Turn(c, p))
      BY Zenon DEF InSequence
    <2>1. CASE p = c
      <3>1. Turn(c, c) = c - c - 1
        BY Turns, Zenon
      <3>2. Turn(c, c) = -1
        BY <1>5, <3>1
      <3>3. Number(n, -1) = Number(q, 0)
        <4>1. 1 + (-1) \in -SeqHalf .. SeqHalf
          BY <1>11, Zenon
        <4>2. Number(Number(q, 1), -1) = Number(q, 1 + (-1))
          BY <1>11, <4>1, NumberOfNumber, Zenon
        <4> QED
          BY <1>3, <1>11, <4>2, Zenon
      <3>4. Number(q, 0) = q
        BY <1>5, <1>11, NumberIs
      <3> QED
        BY <1>1, <1>3, <2>1, <3>2, <3>3, <3>4, Zenon
    <2>2. CASE p # c
      <3>1. HasHeader(p) /\ flash'[p] = flash[p]
        BY <1>1, <1>6, <2>2, Zenon
      <3>2. /\ Turn(c, p) = Turn(a, p) - 1 /\ flash[p].hdr.seq = Number(q, Turn(a, p))
            /\ Turn(a, p) \in -Ring .. Ring
        BY <1>10, <2>2, <3>1, Zenon
      <3>3. /\ Turn(c, p) \in -Ring .. Ring
        BY Turns, Zenon
      <3>4. /\ Turn(c, p) \in -SeqHalf .. SeqHalf /\ 1 + Turn(c, p) = Turn(a, p)
            /\ Turn(a, p) \in -SeqHalf .. SeqHalf
        BY <1>5, <3>2, <3>3
      <3>5. Number(n, Turn(c, p)) = Number(q, Turn(a, p))
        <4>1. 1 + Turn(c, p) \in -SeqHalf .. SeqHalf
          BY <3>4, Zenon
        <4>2. Number(Number(q, 1), Turn(c, p)) = Number(q, 1 + Turn(c, p))
          BY <1>11, <3>4, <4>1, NumberOfNumber, Zenon
        <4> QED
          BY <1>3, <3>4, <4>2, Zenon
      <3> QED
        BY <3>1, <3>2, <3>5, Zenon
    <2> QED
      BY <2>1, <2>2, Zenon
  <1>13. ASSUME NEW p \in Positions, SectorOf(p) = SectorOf(c), p > c + 1, Valid(p)' PROVE FALSE
    <2>1. p # c
      BY <1>5, <1>13
    <2>2. Valid(p) /\ HasHeader(p)
      BY <1>6, <1>13, <2>1, Zenon DEF Valid
    <2>3. has_active_slot /\ Anchor(a, q) /\ c = After(a)
      BY <1>7, <2>2, Zenon
    <2>4. c % Slots # 0
      BY <1>1, <1>13, <2>1, <2>2 DEF Empty, HasHeader
    <2>5. c = a + 1 /\ SectorOf(p) = SectorOf(a)
      BY <1>8, <1>13, <2>3, <2>4
    <2>6. p > a + 1
      BY <1>5, <1>13, <2>5
    <2> QED
      BY <2>2, <2>3, <2>5, <2>6, Zenon DEF Anchor
  <1>14. ASSUME Valid(After(c))', flash'[After(c)].hdr.seq = n PROVE FALSE
    <2> DEFINE p == After(c)
    <2>1. p \in Positions /\ p # c
      BY AfterIs, AfterApart, Zenon
    <2> HIDE DEF p
    <2>2. Valid(p)' /\ flash'[p].hdr.seq = n
      BY <1>14, Zenon DEF p
    <2>3. Valid(p) /\ HasHeader(p) /\ flash[p].hdr.seq = n
      BY <1>1, <1>6, <2>1, <2>2, Zenon DEF Valid
    <2>4. has_active_slot /\ Anchor(a, q) /\ Number(q, Turn(a, p)) = Number(q, 1) /\ Turn(a, p) \in -Ring .. Ring
      BY <1>3, <1>7, <1>10, <2>1, <2>3, Zenon
    <2>5. Turn(a, p) \in -SeqHalf .. SeqHalf /\ Turn(a, p) - 1 < Range /\ 1 - Turn(a, p) < Range
      BY <1>5, <2>4
    <2>6. Turn(a, p) = 1
      BY <1>11, <2>4, <2>5, NumbersDiffer, Zenon
    <2>7. /\ SectorOf(p) = SectorOf(a) => Turn(a, p) = p - a - 1
          /\ SectorOf(p) # SectorOf(a) => Turn(a, p) < -1
      BY <2>1, Turns, Zenon
    <2>8. SectorOf(p) = SectorOf(a) /\ p > a + 1
      BY <1>5, <2>1, <2>6, <2>7
    <2> QED
      BY <2>1, <2>3, <2>4, <2>8, Zenon DEF Anchor
  <1>15. \E p \in Positions : SectorOf(p) = SectorOf(c) /\ p <= c /\ Valid(p)'
    <2>1. CASE c % Slots = 0
      <3>1. Valid(c)' /\ c <= c
        BY <1>1, <1>5, <2>1
      <3> QED
        BY <3>1, Zenon
    <2>2. CASE c % Slots # 0
      <3>1. has_active_slot /\ Anchor(a, q) /\ c = After(a)
        BY <1>7, <1>9, <2>2, Zenon
      <3>2. c = a + 1 /\ SectorOf(c) = SectorOf(a)
        BY <1>8, <2>2, <3>1, Zenon
      <3>3. PICK p \in Positions : SectorOf(p) = SectorOf(a) /\ p <= a /\ Valid(p)
        BY <3>1, Zenon DEF Anchor
      <3>4. p # c /\ p <= c
        BY <1>5, <3>2, <3>3
      <3> QED
        BY <1>6, <3>2, <3>3, <3>4, Zenon
    <2> QED
      BY <2>1, <2>2, Zenon
  <1> QED
    BY <1>1, <1>2, <1>12, <1>13, <1>14, <1>15, Zenon DEF Anchor
-----------------------------------------------------------------------------
(* The inductive invariant. *)

\* The initial states satisfy the inductive invariant.
LEMMA InitIndInv == Init => IndInv
  <1> SUFFICES ASSUME Init PROVE IndInv
    BY Zenon
  <1> USE DEF Init, StoreInit
  <1>1. 0 \in Positions /\ 1 \in Seqs
    BY Sizes
  <1>2. \A p \in Positions : ~HasHeader(p)
    BY Zenon DEF HasHeader
  <1>3. TypeOK
    BY <1>1, SettingsAssumption, Zenon DEF TypeOK, StoreTypeOK
  <1>4. StoreInv
    BY <1>2, Zenon DEF StoreInv, FirstInv
  <1>5. SaveInv /\ ChecksumInv
    BY Zenon DEF SaveInv, ChecksumInv
  <1> QED
    BY <1>3, <1>4, <1>5, Zenon DEF IndInv

\* What a boot finds.
LEMMA Boots ==
  ASSUME Sectors >= 2, IndInv, op = "off"
  PROVE  \/ Scan = NoSlot /\ committed = Blank /\ \A p \in Positions : ~HasHeader(p)
         \/ /\ Scan \in Positions /\ Scan # NoSlot /\ flash[Scan].data \in Values
            /\ Number(flash[Scan].hdr.seq, 1) \in Seqs /\ Last(Scan, Number(flash[Scan].hdr.seq, 1))
  <1>0. TypeOK /\ StoreInv
    BY Zenon DEF IndInv
  <1>1. ASSUME Scan \in Positions, Last(Scan, Number(flash[Scan].hdr.seq, 1))
        PROVE  /\ Scan # NoSlot /\ flash[Scan].data \in Values
               /\ Number(flash[Scan].hdr.seq, 1) \in Seqs
    <2>1. Valid(Scan)
      BY <1>1, Zenon DEF Last
    <2>2. flash[Scan].data \in Values /\ flash[Scan].hdr.seq \in Seqs
      BY <1>0, <1>1, <2>1, SlotTypes, Zenon DEF Valid
    <2>3. 1 \in -SeqHalf .. SeqHalf
      BY Sizes
    <2>4. Scan # NoSlot
      BY <1>1, Sizes DEF NoSlot
    <2> QED
      BY <2>2, <2>3, <2>4, NumberIs, Zenon
  <1>2. CASE committed = Blank
    <2>1. FirstInv
      BY <1>0, <1>2, Zenon DEF StoreInv
    <2>2. 0 \in Positions
      BY Sizes, Zenon
    <2> QED
      BY <1>1, <1>2, <2>1, <2>2, FirstIsLast, Zenon
  <1>3. CASE committed # Blank
    <2>1. PICK a \in Positions, q \in Seqs : Anchor(a, q)
      BY <1>0, <1>3, Zenon DEF StoreInv
    <2>2. Scan \in Positions
      BY <2>1, NewestIs, Zenon
    <2>3. Last(Scan, Number(flash[Scan].hdr.seq, 1))
      BY <2>1, <2>2, ScanIsLast, Zenon
    <2> QED
      BY <1>1, <2>2, <2>3, Zenon
  <1> QED
    BY <1>2, <1>3, Zenon

\* A boot that finds a block.
LEMMA LoadStep == ASSUME Sectors >= 2, IndInv, InitLoad PROVE IndInv'
  <1>1. /\ op = "off" /\ Scan # NoSlot /\ op' = "idle" /\ flash' = flash /\ at' = at /\ then' = then
        /\ active' = Scan /\ next_seq' = Number(flash[Scan].hdr.seq, 1) /\ has_active_slot' = TRUE
        /\ data' = flash[Scan].data /\ checksum' = Crc(flash[Scan].data) /\ committed' = flash[Scan].data
        /\ tried' = {} /\ used' = FALSE /\ reused' = FALSE /\ imported' = FALSE
    BY Zenon DEF InitLoad, ParamInit, Stored, Number
  <1>2. TypeOK /\ at = 0
    BY <1>1, Zenon DEF IndInv, SaveInv
  <1>3. PICK b \in Positions : b = Scan
    BY <1>1, Boots, Zenon
  <1>4. PICK n \in Seqs : n = Number(flash[b].hdr.seq, 1)
    BY <1>1, <1>3, Boots, Zenon
  <1>5. Last(b, n) /\ flash[b].data \in Values /\ flash[b].data # Blank
    <2>1. Last(b, n) /\ flash[b].data \in Values
      BY <1>1, <1>3, <1>4, Boots, Zenon
    <2> QED
      BY <2>1, SettingsAssumption, Zenon
  <1>6. active' = b /\ next_seq' = n /\ committed' = flash[b].data
    BY <1>1, <1>3, <1>4, Zenon
  <1>7. Anchor(b, n)'
    BY <1>1, <1>5, <1>6, LastAnchors, Zenon
  <1>8. TypeOK'
    BY <1>1, <1>2, <1>3, <1>5, <1>6, Zenon DEF TypeOK, StoreTypeOK
  <1>9. StoreInv'
    BY <1>1, <1>5, <1>6, <1>7, Zenon DEF StoreInv
  <1>10. SaveInv'
    BY <1>1, <1>2, Zenon DEF SaveInv
  <1>11. ChecksumInv'
    BY <1>1, Zenon DEF ChecksumInv
  <1> QED
    BY <1>8, <1>9, <1>10, <1>11, Zenon DEF IndInv

\* A boot that finds none.
LEMMA DefaultsStep == ASSUME Sectors >= 2, IndInv, InitDefaults PROVE IndInv'
  <1>1. /\ op = "off" /\ Scan = NoSlot /\ op' = "erase" /\ flash' = flash /\ at' = at /\ then' = "init"
        /\ active' = 0 /\ next_seq' = 1 /\ has_active_slot' = FALSE
        /\ data' = Defaults /\ checksum' = checksum /\ committed' = Blank
        /\ tried' = {} /\ used' = FALSE /\ reused' = FALSE /\ imported' = FALSE
    BY Zenon DEF InitDefaults, ParamInit
  <1>2. TypeOK /\ at = 0
    BY <1>1, Zenon DEF IndInv, SaveInv
  <1>3. \A p \in Positions : ~HasHeader(p)
    BY <1>1, Boots, Zenon
  <1>4. 0 \in Positions /\ 1 \in Seqs /\ 0 % Slots = 0
    BY Sizes
  <1>5. TypeOK'
    BY <1>1, <1>2, <1>4, SettingsAssumption, Zenon DEF TypeOK, StoreTypeOK
  <1>6. \A p \in Positions : ~HasHeader(p)'
    BY <1>1, <1>3, Zenon DEF HasHeader
  <1>7. StoreInv'
    BY <1>1, <1>6, Zenon DEF StoreInv, FirstInv
  <1>8. SaveInv'
    BY <1>1, <1>2, <1>4, Zenon DEF SaveInv, NextSlot
  <1>9. ChecksumInv'
    BY <1>1, Zenon DEF ChecksumInv
  <1> QED
    BY <1>5, <1>7, <1>8, <1>9, Zenon DEF IndInv

\* A call in RAM, which may begin a save: the anchor and what the store knows of it stay.
LEMMA QuietStep ==
  ASSUME Sectors >= 2, IndInv, Idle, op' # "off",
         UNCHANGED <<flash, ram_vars, committed, tried, reused>>
  PROVE  StoreInv'
  <1>1. TypeOK /\ has_active_slot /\ committed # Blank /\ Anchor(active, next_seq) /\ op = "idle"
    BY Zenon DEF IndInv, StoreInv, SaveInv, Idle
  <1>2. PICK a \in Positions : a = active
    BY <1>1, Zenon DEF TypeOK, StoreTypeOK
  <1>3. PICK q \in Seqs : q = next_seq
    BY <1>1, Zenon DEF TypeOK, StoreTypeOK
  <1>4. \A v \in tried \cup Writing : v \in tried' \cup Writing'
    BY <1>1, Zenon DEF Writing
  <1>5. Anchor(a, q)'
    BY <1>1, <1>2, <1>3, <1>4, AnchorKeeps, Zenon
  <1> QED
    BY <1>1, <1>2, <1>3, <1>5, Zenon DEF StoreInv, ram_vars

\* The beginning of syn_param_save.
LEMMA BeginStep ==
  ASSUME Sectors >= 2, IndInv, Idle, SaveBegin, then' = "save", data' \in Values, UNCHANGED <<checksum, history>>
  PROVE  IndInv'
  <1>1. TypeOK /\ has_active_slot /\ op = "idle"
    BY Zenon DEF IndInv, SaveInv, Idle
  <1>2. /\ at' = NextSlot /\ UNCHANGED <<flash, active, next_seq, has_active_slot>>
        /\ op' = IF NextSlot % Slots = 0 THEN "erase" ELSE "data"
    BY <1>1, Zenon DEF SaveBegin, ram_vars
  <1>3. NextSlot = After(active) /\ NextSlot' = NextSlot
    BY <1>1, <1>2, Zenon DEF NextSlot, After
  <1>4. NextSlot \in Positions
    BY <1>1, <1>3, AfterIs, Zenon DEF TypeOK, StoreTypeOK
  <1>5. TypeOK'
    BY <1>1, <1>2, <1>4, Zenon DEF TypeOK, StoreTypeOK, history
  <1>6. StoreInv'
    <2>1. op' # "off"
      BY <1>2, Zenon
    <2> QED
      BY <1>2, <2>1, QuietStep, Zenon DEF history, ram_vars
  <1>7. SaveInv'
    BY <1>1, <1>2, <1>3, Zenon DEF SaveInv
  <1>8. ChecksumInv'
    BY <1>1, <1>2, Zenon DEF IndInv, ChecksumInv, history
  <1> QED
    BY <1>5, <1>6, <1>7, <1>8, Zenon DEF IndInv

\* A call that begins no save.
LEMMA CallStep ==
  ASSUME Sectors >= 2, IndInv, Idle, UNCHANGED <<store_vars, then, committed, tried, used, reused>>, TypeOK', ChecksumInv'
  PROVE  IndInv'
  <1>1. op' = "idle" /\ UNCHANGED <<flash, active, next_seq, has_active_slot, at, then>> /\ op = "idle"
    BY Zenon DEF Idle, store_vars
  <1>2. StoreInv'
    <2>1. op' # "off"
      BY <1>1, Zenon
    <2> QED
      BY <1>1, <2>1, QuietStep, Zenon DEF ram_vars
  <1>3. SaveInv'
    BY <1>1, Zenon DEF IndInv, SaveInv
  <1> QED
    BY <1>2, <1>3, Zenon DEF IndInv

\* The sector the save enters is erased.
LEMMA ErasingStep == ASSUME Sectors >= 2, IndInv, Erasing PROVE IndInv'
  <1>1. /\ op = "erase" /\ op' = "data" /\ at' = at
        /\ UNCHANGED <<active, next_seq, has_active_slot, data, checksum, then, committed, tried, used, reused, imported>>
        /\ flash' = [p \in Positions |-> IF SectorOf(p) = SectorOf(at) THEN Empty ELSE flash[p]]
    BY Zenon DEF Erasing, Erase, Erased, ram_vars, history, Empty
  <1>2. TypeOK /\ at \in Positions
    BY Zenon DEF IndInv, TypeOK, StoreTypeOK
  <1>3. Effect /\ op \in {"erase", "data", "header"}
    BY <1>1, ErasingEffect, Zenon
  <1>4. TypeOK'
    BY <1>1, <1>2, <1>3, EffectIs, Zenon DEF TypeOK, StoreTypeOK, Blocks, Headers
  <1>5. StoreInv'
    <2>1. CASE has_active_slot
      <3>1. PICK a \in Positions : a = active
        BY <1>2, Zenon DEF TypeOK, StoreTypeOK
      <3>2. PICK q \in Seqs : q = next_seq
        BY <1>2, Zenon DEF TypeOK, StoreTypeOK
      <3>3. Anchor(a, q)'
        BY <1>1, <1>3, <2>1, <3>1, <3>2, EffectKeeps, Zenon
      <3>4. committed # Blank
        BY <1>1, <2>1, Zenon DEF IndInv, StoreInv
      <3> QED
        BY <1>1, <2>1, <3>1, <3>2, <3>3, <3>4, Zenon DEF StoreInv
    <2>2. CASE ~has_active_slot
      <3>1. committed = Blank
        BY <1>1, <2>2, Zenon DEF IndInv, StoreInv
      <3>2. \A p \in Positions : ~HasHeader(p)'
        BY <1>1, <1>3, <2>2, EffectFirst, Zenon
      <3> QED
        BY <1>1, <2>2, <3>1, <3>2, Zenon DEF StoreInv, FirstInv
    <2> QED
      BY <2>1, <2>2, Zenon
  <1>6. SaveInv'
    <2>1. \A p \in Positions : SectorOf(p) = SectorOf(at) => flash'[p] = Empty
      BY <1>1, Zenon
    <2>2. at = NextSlot /\ (then = "save" <=> has_active_slot) /\ (~has_active_slot => active = 0 /\ next_seq = 1)
      BY <1>1, Zenon DEF IndInv, SaveInv
    <2> QED
      BY <1>1, <1>2, <2>1, <2>2, Zenon DEF SaveInv, NextSlot
  <1>7. ChecksumInv'
    BY <1>1, Zenon DEF IndInv, ChecksumInv
  <1> QED
    BY <1>4, <1>5, <1>6, <1>7, Zenon DEF IndInv

\* The block is written.
LEMMA WritingStep == ASSUME Sectors >= 2, IndInv, WritingData PROVE IndInv'
  <1>1. /\ op = "data" /\ op' = "header" /\ at' = at
        /\ UNCHANGED <<active, next_seq, has_active_slot, data, checksum, then, committed, tried, reused, imported>>
        /\ used' = (flash[at] # Empty)
    BY Zenon DEF WritingData, WriteData, ram_vars, Empty
  <1>2. TypeOK /\ at \in Positions
    BY Zenon DEF IndInv, TypeOK, StoreTypeOK
  <1>3. Effect /\ op \in {"erase", "data", "header"}
    BY <1>1, WritingEffect, Zenon
  <1>4. TypeOK'
    BY <1>1, <1>2, <1>3, EffectIs, Zenon DEF TypeOK, StoreTypeOK, Blocks, Headers
  <1>5. StoreInv'
    <2>1. CASE has_active_slot
      <3>1. PICK a \in Positions : a = active
        BY <1>2, Zenon DEF TypeOK, StoreTypeOK
      <3>2. PICK q \in Seqs : q = next_seq
        BY <1>2, Zenon DEF TypeOK, StoreTypeOK
      <3>3. data \in Writing'
        BY <1>1, Zenon DEF Writing
      <3>4. Anchor(a, q)'
        BY <1>1, <1>3, <2>1, <3>1, <3>2, <3>3, EffectKeeps, Zenon
      <3>5. committed # Blank
        BY <1>1, <2>1, Zenon DEF IndInv, StoreInv
      <3> QED
        BY <1>1, <2>1, <3>1, <3>2, <3>4, <3>5, Zenon DEF StoreInv
    <2>2. CASE ~has_active_slot
      <3>1. committed = Blank
        BY <1>1, <2>2, Zenon DEF IndInv, StoreInv
      <3>2. \A p \in Positions : ~HasHeader(p)'
        BY <1>1, <1>3, <2>2, EffectFirst, Zenon
      <3> QED
        BY <1>1, <2>2, <3>1, <3>2, Zenon DEF StoreInv, FirstInv
    <2> QED
      BY <2>1, <2>2, Zenon
  <1>6. SaveInv'
    <2>1. \A p \in Positions \ {at} : flash'[p] = flash[p]
      BY <1>1, <1>2, <1>3, EffectIs, Zenon
    <2>2. flash[at] = Empty => flash'[at] = [data |-> data, hdr |-> Blank]
      <3>1. flash \in [Positions -> [data : Blocks, hdr : Headers \cup {Blank, Mix}]]
        BY <1>2, Zenon DEF TypeOK, StoreTypeOK, Blocks, Headers
      <3>2. PICK d \in Written(flash[at].data, data) : flash' = [flash EXCEPT ![at].data = d]
        BY Zenon DEF WritingData, WriteData
      <3> SUFFICES ASSUME flash[at] = Empty PROVE flash'[at] = [data |-> data, hdr |-> Blank]
        BY Zenon
      <3>3. flash[at].data = Blank /\ flash[at].hdr = Blank
        BY DEF Empty
      <3>4. d = data
        BY <3>2, <3>3, WrittenIs, Zenon
      <3> QED
        BY <1>2, <3>1, <3>2, <3>3, <3>4, Zenon
    <2>3. /\ at = NextSlot /\ (then = "save" <=> has_active_slot)
          /\ ~has_active_slot => active = 0 /\ next_seq = 1
          /\ at % Slots = 0 => \A p \in Positions \ {at} : SectorOf(p) = SectorOf(at) => flash[p] = Empty
          /\ at % Slots = 0 => flash[at] = Empty
      BY <1>1, Zenon DEF IndInv, SaveInv
    <2> QED
      BY <1>1, <1>2, <2>1, <2>2, <2>3, Zenon DEF SaveInv, NextSlot
  <1>7. ChecksumInv'
    BY <1>1, Zenon DEF IndInv, ChecksumInv
  <1> QED
    BY <1>4, <1>5, <1>6, <1>7, Zenon DEF IndInv

\* The header is written, and the save returns.
LEMMA SavedStep == ASSUME Sectors >= 2, IndInv, Saved PROVE IndInv'
  <1>1. /\ at' = 0 /\ UNCHANGED data /\ checksum' = Crc(data) /\ then' = "save" /\ committed' = data
        /\ tried' = {} /\ imported' = FALSE /\ used' = FALSE /\ reused' = used
    BY Zenon DEF Saved, WriteHeader
  <1>2. TypeOK /\ data \in Values /\ data # Blank /\ used \in BOOLEAN
    <2>1. TypeOK /\ data \in Values /\ used \in BOOLEAN
      BY Zenon DEF IndInv, TypeOK
    <2> QED
      BY <2>1, SettingsAssumption, Zenon
  <1>3. PICK c \in Positions : c = at
    BY <1>2, Zenon DEF TypeOK, StoreTypeOK
  <1>4. PICK n \in Seqs : n = Number(next_seq, 1)
    <2>1. next_seq \in Seqs
      BY <1>2, Zenon DEF TypeOK, StoreTypeOK
    <2>2. 1 \in -SeqHalf .. SeqHalf
      BY Sizes
    <2> QED
      BY <2>1, <2>2, NumberIs, Zenon
  <1>5. /\ active' = c /\ next_seq' = n /\ has_active_slot' = TRUE /\ op' = "idle"
        /\ flash' = [flash EXCEPT ![c].hdr = flash'[c].hdr] /\ flash'[c].hdr \in Headers \cup {Blank, Mix}
    <2>1. has_active_slot' = TRUE
      BY Zenon DEF Saved, WriteHeader
    <2> QED
      BY <1>3, <1>4, <2>1, SavedIs, Zenon
  <1>6. Anchor(c, n)'
    BY <1>3, <1>4, SavedAnchors, Zenon
  <1>7. TypeOK'
    <2>1. flash' \in [Positions -> [data : Blocks, hdr : Headers \cup {Blank, Mix}]]
      <3>1. flash \in [Positions -> [data : Blocks, hdr : Headers \cup {Blank, Mix}]]
        BY <1>2, Zenon DEF TypeOK, StoreTypeOK, Blocks, Headers
      <3> DEFINE h == flash'[c].hdr
      <3>2. flash' = [flash EXCEPT ![c].hdr = h] /\ h \in Headers \cup {Blank, Mix}
        BY <1>5, Zenon
      <3> HIDE DEF h
      <3> QED
        BY <3>1, <3>2, Zenon
    <2>2. 0 \in Positions
      BY Sizes, Zenon
    <2>3. StoreTypeOK(Values)'
      BY <1>5, <1>1, <2>1, <2>2, Zenon DEF StoreTypeOK, Blocks, Headers
    <2> QED
      BY <1>1, <1>2, <2>3, Zenon DEF TypeOK
  <1>8. StoreInv'
    BY <1>1, <1>2, <1>5, <1>6, Zenon DEF StoreInv
  <1>9. SaveInv'
    BY <1>1, <1>5, Zenon DEF SaveInv
  <1>10. ChecksumInv'
    BY <1>1, Zenon DEF ChecksumInv
  <1> QED
    BY <1>7, <1>8, <1>9, <1>10, Zenon DEF IndInv

\* An operation fails, and the save returns the error.
LEMMA FailedStep == ASSUME Sectors >= 2, IndInv, Failed PROVE IndInv'
  <1>1. /\ op \in {"erase", "data", "header"} /\ CutOff(data) /\ at' = 0
        /\ UNCHANGED <<active, next_seq, has_active_slot, data, checksum, then, committed, reused, imported>>
        /\ op' = IF then = "init" THEN "off" ELSE "idle"
        /\ tried' = IF op = "erase" THEN tried ELSE tried \cup {data}
        /\ used' = FALSE
    BY Zenon DEF Failed, SaveFails, ram_vars
  <1>2. TypeOK /\ (then = "save" <=> has_active_slot) /\ then \in {"init", "save"}
    BY <1>1, Zenon DEF IndInv, SaveInv, TypeOK
  <1>3. Effect
    BY <1>1, <1>2, CutOffEffect, Zenon
  <1>4. TypeOK'
    <2>1. 0 \in Positions
      BY Sizes, Zenon
    <2> QED
      BY <1>1, <1>2, <1>3, <2>1, EffectIs, Zenon DEF TypeOK, StoreTypeOK, Blocks, Headers
  <1>5. StoreInv'
    <2>1. CASE has_active_slot
      <3>1. PICK a \in Positions : a = active
        BY <1>2, Zenon DEF TypeOK, StoreTypeOK
      <3>2. PICK q \in Seqs : q = next_seq
        BY <1>2, Zenon DEF TypeOK, StoreTypeOK
      <3>3. /\ op # "erase" => data \in tried'
            /\ \A v \in tried : v \in tried'
        BY <1>1, Zenon
      <3>4. Anchor(a, q)'
        BY <1>1, <1>3, <2>1, <3>1, <3>2, <3>3, EffectKeeps, Zenon
      <3>5. committed # Blank
        BY <1>1, <2>1, Zenon DEF IndInv, StoreInv
      <3>6. op' = "idle"
        BY <1>1, <1>2, <2>1, Zenon
      <3> QED
        BY <1>1, <2>1, <3>1, <3>2, <3>4, <3>5, <3>6, Zenon DEF StoreInv
    <2>2. CASE ~has_active_slot
      <3>1. committed = Blank
        BY <1>1, <2>2, Zenon DEF IndInv, StoreInv
      <3>2. \A p \in Positions : HasHeader(p)' => p = 0 /\ Valid(p)' /\ flash'[p].hdr.seq = 1
        BY <1>1, <1>3, <2>2, EffectFirst, Zenon
      <3>3. op' = "off"
        BY <1>1, <1>2, <2>2, Zenon
      <3> QED
        BY <1>1, <3>1, <3>2, <3>3, Zenon DEF StoreInv, FirstInv
    <2> QED
      BY <2>1, <2>2, Zenon
  <1>6. SaveInv'
    BY <1>1, <1>2, Zenon DEF SaveInv
  <1>7. ChecksumInv'
    BY <1>1, Zenon DEF IndInv, ChecksumInv
  <1> QED
    BY <1>4, <1>5, <1>6, <1>7, Zenon DEF IndInv

\* Power is lost, in a save or out of it.
LEMMA LossStep == ASSUME Sectors >= 2, IndInv, PowerLoss PROVE IndInv'
  <1>1. /\ op # "off" /\ op' = "off" /\ CutOff(data) /\ active' = 0 /\ next_seq' = 1
        /\ has_active_slot' = FALSE /\ at' = 0 /\ data' = Defaults /\ checksum' = Crc(Defaults) /\ then' = "init"
        /\ tried' = IF op \in {"data", "header"} THEN tried \cup {data} ELSE tried
        /\ used' = FALSE /\ UNCHANGED <<committed, reused, imported>>
    BY Zenon DEF PowerLoss, StoreLost
  <1>2. TypeOK /\ op \in {"off", "idle", "erase", "data", "header"}
    BY Zenon DEF IndInv, TypeOK, StoreTypeOK
  <1>3. op \in {"erase", "data", "header"} => Effect
    BY <1>1, <1>2, CutOffEffect, Zenon
  <1>4. op = "idle" => flash' = flash
    BY <1>1, Zenon DEF CutOff
  <1>5. flash' \in [Positions -> [data : Blocks, hdr : Headers \cup {Blank, Mix}]]
    <2>1. flash \in [Positions -> [data : Blocks, hdr : Headers \cup {Blank, Mix}]]
      BY <1>2, Zenon DEF TypeOK, StoreTypeOK, Blocks, Headers
    <2>2. op = "idle" \/ op \in {"erase", "data", "header"}
      BY <1>1, <1>2, Zenon
    <2> QED
      BY <1>2, <1>3, <1>4, <2>1, <2>2, EffectIs, Zenon
  <1>6. TypeOK'
    <2>1. 0 \in Positions /\ 1 \in Seqs
      BY Sizes
    <2>2. StoreTypeOK(Values)'
      BY <1>1, <1>5, <2>1, Zenon DEF StoreTypeOK, Blocks, Headers
    <2> QED
      BY <1>1, <1>2, <2>2, SettingsAssumption, Zenon DEF TypeOK
  <1>7. ASSUME committed # Blank PROVE \E a \in Positions, q \in Seqs : Anchor(a, q)'
    <2>1. has_active_slot /\ Anchor(active, next_seq)
      BY <1>1, <1>7, Zenon DEF IndInv, StoreInv
    <2>2. PICK a \in Positions : a = active
      BY <1>2, Zenon DEF TypeOK, StoreTypeOK
    <2>3. PICK q \in Seqs : q = next_seq
      BY <1>2, Zenon DEF TypeOK, StoreTypeOK
    <2>4. CASE op \in {"erase", "data", "header"}
      <3>1. /\ op # "erase" => data \in tried'
            /\ \A v \in tried : v \in tried'
        BY <1>1, <2>4, Zenon
      <3>2. Anchor(a, q)'
        BY <1>1, <1>3, <2>1, <2>2, <2>3, <2>4, <3>1, EffectKeeps, Zenon
      <3> QED
        BY <3>2, Zenon
    <2>5. CASE op = "idle"
      <3>1. \A v \in tried \cup Writing : v \in tried' \cup Writing'
        BY <1>1, <2>5, Zenon DEF Writing
      <3>2. Anchor(a, q)'
        BY <1>1, <1>4, <2>1, <2>2, <2>3, <2>5, <3>1, AnchorKeeps, Zenon
      <3> QED
        BY <3>2, Zenon
    <2> QED
      BY <1>1, <1>2, <2>4, <2>5, Zenon
  <1>8. ASSUME committed = Blank PROVE FirstInv'
    <2>1. ~has_active_slot /\ op # "idle"
      BY <1>1, <1>8, Zenon DEF IndInv, StoreInv, SaveInv
    <2>2. op \in {"erase", "data", "header"}
      BY <1>1, <1>2, <2>1, Zenon
    <2>3. \A p \in Positions : HasHeader(p)' => p = 0 /\ Valid(p)' /\ flash'[p].hdr.seq = 1
      BY <1>3, <2>1, <2>2, EffectFirst, Zenon
    <2> QED
      BY <1>1, <2>3, Zenon DEF FirstInv
  <1>9. StoreInv'
    BY <1>1, <1>7, <1>8, Zenon DEF StoreInv
  <1>10. SaveInv' /\ ChecksumInv'
    BY <1>1, Zenon DEF SaveInv, ChecksumInv
  <1> QED
    BY <1>6, <1>9, <1>10, Zenon DEF IndInv

\* Every step keeps the inductive invariant.
LEMMA NextIndInv == ASSUME Sectors >= 2, IndInv, [Next]_vars PROVE IndInv'
  <1>0. TypeOK /\ ChecksumInv
    BY Zenon DEF IndInv
  <1>1. CASE Save
    <2>1. Idle /\ SaveBegin /\ then' = "save" /\ data' \in Values /\ UNCHANGED <<checksum, history>>
      BY <1>0, <1>1, Zenon DEF Save, TypeOK
    <2> QED
      BY <2>1, BeginStep, Zenon
  <1>2. CASE Modify
    <2>1. Idle /\ UNCHANGED <<store_vars, checksum, then, history>> /\ data' \in Values
      BY <1>2, Zenon DEF Modify
    <2>2. TypeOK' /\ ChecksumInv'
      BY <1>0, <2>1, Zenon DEF TypeOK, StoreTypeOK, ChecksumInv, store_vars, history
    <2> QED
      BY <2>1, <2>2, CallStep, Zenon DEF history
  <1>3. CASE Reset
    <2>1. Idle /\ data' = Defaults /\ data' \in Values /\ UNCHANGED <<checksum, history>>
      BY <1>3, SettingsAssumption, Zenon DEF Reset
    <2>2. CASE SaveBegin /\ then' = "save"
      BY <2>1, <2>2, BeginStep, Zenon
    <2>3. CASE UNCHANGED <<store_vars, then>>
      <3>1. TypeOK' /\ ChecksumInv'
        BY <1>0, <2>1, <2>3, Zenon DEF TypeOK, StoreTypeOK, ChecksumInv, store_vars, history
      <3> QED
        BY <2>1, <2>3, <3>1, CallStep, Zenon DEF history
    <2> QED
      BY <1>3, <2>2, <2>3, Zenon DEF Reset
  <1>4. CASE Reload
    <2>1. /\ Idle /\ UNCHANGED <<store_vars, then, committed, tried, used, reused>>
          /\ Valid(active) => data' = flash[active].data /\ checksum' = Crc(data') /\ imported' = FALSE
          /\ ~Valid(active) => data' \in Values /\ checksum' = checksum /\ imported' = imported
      BY <1>0, <1>4, Zenon DEF Reload, TypeOK
    <2>2. Valid(active) => flash[active].data \in Values /\ flash[active].data = committed
      <3>1. active \in Positions
        BY <1>0, Zenon DEF TypeOK, StoreTypeOK
      <3>2. Anchor(active, next_seq)
        BY <2>1, Zenon DEF IndInv, StoreInv, SaveInv, Idle
      <3> QED
        BY <1>0, <3>1, <3>2, SlotTypes, Zenon DEF Anchor
    <2>3. TypeOK'
      BY <1>0, <2>1, <2>2, Zenon DEF TypeOK, StoreTypeOK, store_vars
    <2>4. ChecksumInv'
      BY <1>0, <2>1, <2>2 DEF ChecksumInv, store_vars
    <2> QED
      BY <2>1, <2>3, <2>4, CallStep, Zenon
  <1>5. CASE Import
    <2>1. /\ Idle /\ data' \in Values /\ UNCHANGED <<committed, tried, used, reused>>
      BY <1>5, Zenon DEF Import
    <2>2. CASE SaveBegin /\ then' = "save" /\ UNCHANGED <<checksum, imported>>
      BY <2>1, <2>2, BeginStep, Zenon DEF history
    <2>3. CASE UNCHANGED <<store_vars, checksum, then, imported>>
      <3>1. TypeOK' /\ ChecksumInv'
        BY <1>0, <2>1, <2>3, Zenon DEF TypeOK, StoreTypeOK, ChecksumInv, store_vars
      <3> QED
        BY <2>1, <2>3, <3>1, CallStep, Zenon
    <2>4. CASE checksum' = Crc(data') /\ imported' = TRUE /\ UNCHANGED <<store_vars, then>>
      <3>1. TypeOK' /\ ChecksumInv'
        BY <1>0, <2>1, <2>4, Zenon DEF TypeOK, StoreTypeOK, ChecksumInv, store_vars
      <3> QED
        BY <2>1, <2>4, <3>1, CallStep, Zenon
    <2> QED
      BY <1>5, <2>2, <2>3, <2>4, Zenon DEF Import
  <1>6. CASE UNCHANGED vars
    <2>1. /\ UNCHANGED <<flash, active, next_seq, has_active_slot, op, at, data, checksum, then>>
          /\ UNCHANGED <<committed, tried, used, reused, imported>>
      BY <1>6, Zenon DEF vars, store_vars, history
    <2>2. TypeOK' /\ SaveInv' /\ ChecksumInv'
      BY <2>1 DEF IndInv, TypeOK, StoreTypeOK, SaveInv, NextSlot, ChecksumInv
    <2>3. StoreInv'
      <3>1. \A p : (Valid(p)' <=> Valid(p)) /\ (HasHeader(p)' <=> HasHeader(p))
        BY <2>1, Zenon DEF Valid, HasHeader
      <3>2. Writing' = Writing /\ (FirstInv' <=> FirstInv)
        BY <2>1, <3>1, Zenon DEF Writing, FirstInv
      <3>3. \A a \in Positions, q \in Seqs : Anchor(a, q)' <=> Anchor(a, q)
        <4> SUFFICES ASSUME NEW a \in Positions, NEW q \in Seqs PROVE Anchor(a, q)' <=> Anchor(a, q)
          BY Zenon
        <4>1. Crossed(a, q)' <=> Crossed(a, q)
          BY <2>1, <3>1, Zenon DEF Crossed
        <4>2. InSequence(a, q)' <=> InSequence(a, q)
          BY <2>1, <3>1, <4>1, Zenon DEF InSequence
        <4> QED
          BY <2>1, <3>1, <3>2, <4>2, Zenon DEF Anchor
      <3>4. active \in Positions /\ next_seq \in Seqs
        BY <1>0, Zenon DEF TypeOK, StoreTypeOK
      <3>5. Anchor(active, next_seq) => Anchor(active, next_seq)'
        BY <2>1, <3>3, <3>4, Zenon
      <3> QED
        BY <2>1, <3>2, <3>3, <3>5, Zenon DEF IndInv, StoreInv
    <2> QED
      BY <2>2, <2>3, Zenon DEF IndInv
  <1> QED
    BY <1>1, <1>2, <1>3, <1>4, <1>5, <1>6, LoadStep, DefaultsStep, ErasingStep, WritingStep,
       SavedStep, FailedStep, LossStep, Zenon DEF Next

\* The inductive invariant holds: two sectors or more are used one after the other.
THEOREM Invariance == ASSUME Sectors >= 2 PROVE Spec => []IndInv
  <1>1. IndInv /\ [Next]_vars => IndInv'
    BY NextIndInv, Zenon
  <1> QED
    BY <1>1, InitIndInv, PTL DEF Spec

\* The anchor at any time.
LEMMA Anchored ==
  ASSUME IndInv, committed # Blank
  PROVE  \E a \in Positions, q \in Seqs :
           Anchor(a, q) /\ (op # "off" => a = active /\ has_active_slot)
  BY Zenon DEF IndInv, StoreInv, TypeOK, StoreTypeOK

\* Saves are atomic: whatever was cut off or failed, and wherever, the next boot loads what the last
\* successful save wrote, or a later block (syn_param_save, syn_param_init).
THEOREM SavesAreAtomic == ASSUME Sectors >= 2 PROVE Spec => []OldOrNew
  <1>1. IndInv => OldOrNew
    <2> SUFFICES ASSUME IndInv, committed # Blank, ~reused PROVE Stored \in {committed} \cup tried \cup Writing
      BY Zenon DEF OldOrNew, Writing
    <2>1. PICK a \in Positions, q \in Seqs : Anchor(a, q)
      BY Anchored, Zenon
    <2>2. Valid(a) /\ flash[a].data = committed
      BY <2>1, Zenon DEF Anchor
    <2>3. Valid(After(a)) /\ flash[After(a)].hdr.seq = q => flash[After(a)].data \in tried \cup Writing
      BY <2>1, Zenon DEF Anchor
    <2>4. /\ Scan \in Positions
          /\ Valid(After(a)) /\ flash[After(a)].hdr.seq = q => Scan = After(a)
          /\ ~(Valid(After(a)) /\ flash[After(a)].hdr.seq = q) /\ Valid(a) => Scan = a
      BY <2>1, NewestIs, Zenon
    <2>5. Stored = flash[Scan].data
      BY <2>4, Sizes DEF Stored, NoSlot
    <2> QED
      BY <2>2, <2>3, <2>4, <2>5, Zenon
  <1> QED
    BY <1>1, Invariance, PTL

\* Between saves, the slot that boots next is the active one.
LEMMA ActiveFound ==
  ASSUME Sectors >= 2, IndInv, Idle, ~reused, tried = {}
  PROVE  Scan = active /\ flash[active].data = committed /\ has_active_slot /\ active \in Positions
  <1>1. /\ op = "idle" /\ has_active_slot /\ committed # Blank /\ Anchor(active, next_seq)
        /\ active \in Positions /\ next_seq \in Seqs
    BY Zenon DEF IndInv, StoreInv, SaveInv, Idle, TypeOK, StoreTypeOK
  <1>2. Valid(active) /\ flash[active].data = committed
    BY <1>1, Zenon DEF Anchor
  <1>3. Writing = {}
    BY <1>1, Zenon DEF Writing
  <1>4. ~(Valid(After(active)) /\ flash[After(active)].hdr.seq = next_seq)
    BY <1>1, <1>3, Zenon DEF Anchor
  <1> QED
    BY <1>1, <1>2, <1>4, NewestIs, Zenon

\* The store in RAM and the flash agree on the newest slot, over every wrap of the sequence numbers.
THEOREM ActiveSlotIsNewest == ASSUME Sectors >= 2 PROVE Spec => []ActiveIsNewest
  <1>1. IndInv => ActiveIsNewest
    BY ActiveFound, Zenon DEF ActiveIsNewest
  <1> QED
    BY <1>1, Invariance, PTL

\* Settings that syn_settings_changed calls unchanged are those a boot would load.
THEOREM UnchangedSettingsAreStored == ASSUME Sectors >= 2 PROVE Spec => []UnchangedIsStored
  <1>1. IndInv => UnchangedIsStored
    <2> SUFFICES ASSUME IndInv, Idle, checksum = Crc(data), ~imported, ~reused, tried = {} PROVE Stored = data
      BY Zenon DEF UnchangedIsStored
    <2>1. Scan = active /\ flash[active].data = committed /\ has_active_slot /\ active \in Positions
      BY ActiveFound, Zenon
    <2>2. checksum = Crc(committed)
      BY <2>1, Zenon DEF IndInv, ChecksumInv, Idle
    <2>3. data = committed
      BY <2>2, CrcDiffers, Zenon
    <2>4. Stored = flash[Scan].data
      BY <2>1, Sizes DEF Stored, NoSlot
    <2> QED
      BY <2>1, <2>3, <2>4, Zenon
  <1> QED
    BY <1>1, Invariance, PTL
=============================================================================
