------------------------- MODULE FirmwareImageProofs -------------------------
(***************************************************************************)
(* Proof that a slot is made bootable only when it holds the whole image   *)
(* (Firmware, NewIsWhole), but for what flush_page did not erase, for      *)
(* images, pages and sectors of every size, any versions, chunks of any    *)
(* length and any number of updates, power failures and errors.            *)
(***************************************************************************)
EXTENDS FirmwareProofs
-----------------------------------------------------------------------------
(* Pages and sectors. *)

\* A number is its quotient and its remainder, ...
LEMMA Division ==
  ASSUME NEW n \in Nat \ {0}, NEW a \in Int
  PROVE  a \div n \in Int /\ a % n \in 0 .. n - 1 /\ a = n * (a \div n) + (a % n)
  OBVIOUS

\* (a later multiple is at least n later)
LEMMA Multiples == ASSUME NEW n \in Nat, NEW q \in Int, NEW r \in Int, q < r PROVE n * q + n <= n * r
  OBVIOUS

\* ... and has no others.
LEMMA OneDivision ==
  ASSUME NEW n \in Nat \ {0}, NEW a \in Int, NEW q \in Int, NEW i \in 0 .. n - 1, a = n * q + i
  PROVE  a \div n = q /\ a % n = i
  <1> DEFINE r == a \div n
             j == a % n
  <1>1. r \in Int /\ j \in 0 .. n - 1 /\ a = n * r + j
    BY Division, Zenon
  <1> SUFFICES r = q /\ j = i
    BY Zenon
  <1> HIDE DEF r, j
  <1>2. r < q => n * r + n <= n * q
    BY <1>1, Multiples, Zenon
  <1>3. q < r => n * q + n <= n * r
    BY <1>1, Multiples, Zenon
  <1>4. r = q
    BY <1>1, <1>2, <1>3
  <1> QED
    BY <1>1, <1>4

\* The page after a full one begins where a page does, ...
LEMMA NextPage ==
  ASSUME NEW w \in Nat, w % PageSize = 0 PROVE (w + PageSize) % PageSize = 0
  <1>1. PageSize \in Nat \ {0} /\ w \in Int
    BY SlotsAssumption
  <1> DEFINE q == w \div PageSize
  <1>2. q \in Int /\ w = PageSize * q + (w % PageSize)
    BY <1>1, Division, Zenon
  <1> DEFINE r == q + 1
             a == w + PageSize
             z == 0
  <1> HIDE DEF q
  <1>3. a = PageSize * r + z /\ r \in Int /\ z \in 0 .. PageSize - 1 /\ a \in Int
    BY <1>1, <1>2
  <1> SUFFICES a % PageSize = z
    BY Zenon
  <1> HIDE DEF r, a, z
  <1> QED
    BY <1>1, <1>3, OneDivision, Zenon

\* ... and no unit within a page does.
LEMMA WithinPage ==
  ASSUME NEW w \in Nat, w % PageSize = 0, NEW i \in w + 1 .. w + PageSize - 1
  PROVE  i % PageSize # 0
  <1>1. PageSize \in Nat \ {0} /\ w \in Int
    BY SlotsAssumption
  <1> DEFINE q == w \div PageSize
  <1>2. q \in Int /\ w = PageSize * q + (w % PageSize)
    BY <1>1, Division, Zenon
  <1> HIDE DEF q
  <1> DEFINE r == i - w
  <1>3. i = PageSize * q + r /\ r \in 0 .. PageSize - 1 /\ i \in Int /\ r # 0
    BY <1>1, <1>2
  <1> HIDE DEF r
  <1> QED
    BY <1>1, <1>2, <1>3, OneDivision, Zenon

\* What comes before the first address of a sector is not in it.
LEMMA BeforeSector ==
  ASSUME NEW a \in Nat, NEW b \in Nat, b < a, a % SectorSize = 0
  PROVE  Sector(b) # Sector(a)
  <1>1. SectorSize \in Nat \ {0} /\ a \in Int /\ b \in Int
    BY SlotsAssumption
  <1> DEFINE q == a \div SectorSize
             r == b \div SectorSize
  <1>2. q \in Int /\ a = SectorSize * q + (a % SectorSize)
    BY <1>1, Division, Zenon
  <1>3. r \in Int /\ b % SectorSize \in 0 .. SectorSize - 1 /\ b = SectorSize * r + (b % SectorSize)
    BY <1>1, Division, Zenon
  <1> SUFFICES r # q
    BY Zenon DEF Sector
  <1> HIDE DEF q, r
  <1> QED
    BY <1>1, <1>2, <1>3

\* A sector starts at or before each of its units.
LEMMA SectorStarts ==
  ASSUME NEW i \in Offsets
  PROVE  /\ SectorStart(i) \in Nat /\ SectorStart(i) <= Address(i) /\ SectorStart(i) % SectorSize = 0
         /\ Sector(SectorStart(i)) = Sector(Address(i))
         /\ SectorStart(i) = 0 => Sector(Address(i)) = 0
  <1> DEFINE a == Address(i)
             q == a \div SectorSize
             r == a % SectorSize
             c == SectorSize * q
             z == 0
  <1>1. SectorSize \in Nat \ {0} /\ a \in Nat /\ a \in Int
    BY SlotsAssumption DEF Address, Offsets
  <1>2. q \in Int /\ r \in 0 .. SectorSize - 1 /\ a = SectorSize * q + r
    BY <1>1, Division, Zenon
  <1>3. c \in Int /\ c = SectorSize * q + z /\ z \in 0 .. SectorSize - 1
    <2> HIDE DEF a, q, r
    <2> QED
      BY <1>1, <1>2
  <1>4. c \div SectorSize = q /\ c % SectorSize = z
    <2> HIDE DEF q, c, z
    <2> QED
      BY <1>1, <1>2, <1>3, OneDivision, Zenon
  <1>5. q >= 0
    <2> HIDE DEF a, q, r, c
    <2>1. q < z => SectorSize * q + SectorSize <= SectorSize * z
      BY <1>1, <1>2, Multiples
    <2> QED
      BY <1>1, <1>2, <2>1
  <1>6. c \in Nat /\ c <= a /\ (c = 0 => q = 0)
    <2> HIDE DEF a, q, r
    <2>1. z < q => SectorSize * z + SectorSize <= SectorSize * q
      BY <1>1, <1>2, Multiples
    <2> QED
      BY <1>1, <1>2, <1>3, <1>5, <2>1
  <1>7. SectorStart(i) = c /\ Sector(Address(i)) = q /\ Sector(c) = c \div SectorSize
    BY Zenon DEF SectorStart, Sector
  <1> HIDE DEF q, r, c
  <1> QED
    BY <1>4, <1>6, <1>7, Zenon

\* A sector that flush_page erases, and that starts before the end of a page, starts no later
\* than the page: it is erased before the page is written.
LEMMA ClearedFirst ==
  ASSUME NEW w \in Offsets, w % PageSize = 0, NEW k \in w + 1 .. w + PageSize,
         NEW i \in Offsets, Cleared(i), SectorStart(i) < Address(k)
  PROVE  SectorStart(i) < Address(w + 1)
  <1> DEFINE a == SectorStart(i)
  <1>1. a \in Nat
    BY SectorStarts, Zenon
  <1>2. a = 0 \/ (a > HeaderSize /\ (a - HeaderSize) % PageSize = 0)
    BY Zenon DEF Cleared
  <1> HIDE DEF a
  <1>3. HeaderSize \in Nat \ {0} /\ PageSize \in Nat \ {0} /\ w \in Nat
    BY SlotsAssumption DEF Offsets
  <1>4. CASE a = 0
    BY <1>3, <1>4 DEF Address, a
  <1>5. CASE a > HeaderSize /\ (a - HeaderSize) % PageSize = 0
    <2> DEFINE j == a - HeaderSize
    <2>1. j \notin w + 1 .. w + PageSize - 1
      BY <1>3, <1>5, WithinPage, Zenon
    <2>2. j < k
      BY <1>1, <1>3 DEF Address, a
    <2> QED
      BY <1>1, <1>3, <2>1, <2>2 DEF Address, a
  <1> QED
    BY <1>2, <1>4, <1>5, Zenon

\* A sector that starts with a page, and that flush_page erases, is erased with that page.
LEMMA ClearedNow ==
  ASSUME NEW w \in Offsets, ~(Address(w) % SectorSize = 0 /\ w > 0),
         NEW i \in Offsets, Cleared(i), SectorStart(i) < Address(w + 1)
  PROVE  SectorStart(i) < Address(w)
  <1> DEFINE a == SectorStart(i)
  <1>1. a \in Nat /\ a % SectorSize = 0 /\ (a = 0 \/ a > HeaderSize)
    BY SectorStarts, Zenon DEF Cleared
  <1> HIDE DEF a
  <1>2. HeaderSize \in Nat \ {0} /\ w \in Nat /\ Address(w) = HeaderSize + w /\ Address(w + 1) = Address(w) + 1
    BY SlotsAssumption DEF Offsets, Address
  <1>3. a # Address(w)
    <2> SUFFICES ASSUME a = Address(w) PROVE FALSE
      BY Zenon
    <2>1. w > 0
      BY <1>1, <1>2
    <2> QED
      BY <1>1, <2>1, Zenon
  <1>4. a < Address(w + 1)
    BY Zenon DEF a
  <1> QED
    BY <1>1, <1>2, <1>3, <1>4 DEF a
-----------------------------------------------------------------------------
(* What a flash operation that succeeds makes of an image. *)

\* The units are those that one of the outcomes makes of them.
LEMMA DataIs ==
  ASSUME TypeOK, NEW o, o.slot \in SlotIds, NEW hdrs, NEW datas,
         \E r \in After(o, hdrs, datas) : flash' = [flash EXCEPT ![o.slot] = r]
  PROVE  \E d \in datas : flash'[o.slot].data = DataAfter(o, d)
  <1>1. PICK r \in After(o, hdrs, datas) : flash' = [flash EXCEPT ![o.slot] = r]
    BY Zenon
  <1>2. \E d \in datas : r.data = DataAfter(o, d)
    BY DEF After
  <1>3. flash'[o.slot] = r
    BY <1>1, Zenon DEF TypeOK
  <1> QED
    BY <1>2, <1>3, Zenon

\* An erase blanks its sector, ...
LEMMA EraseData ==
  ASSUME TypeOK, NEW s \in SlotIds, NEW a, Done(EraseOp(s, a)), NEW i \in Offsets
  PROVE  flash'[s].data[i] = IF Sector(Address(i)) = Sector(a) THEN Blank ELSE flash[s].data[i]
  <1> DEFINE o == EraseOp(s, a)
  <1>1. o.op = "erase" /\ o.slot = s /\ o.sector = Sector(a)
    BY Zenon DEF EraseOp
  <1>2. Done(o)
    OBVIOUS
  <1> HIDE DEF o
  <1>3. Outcomes(o) = {"new"}
    BY <1>1, Zenon DEF Outcomes, Clean
  <1>4. flash'[s].data = DataAfter(o, "new")
    <2>1. \E d \in Outcomes(o) : flash'[o.slot].data = DataAfter(o, d)
      <3>1. o.slot \in SlotIds
        BY <1>1, Zenon
      <3>2. \E r \in After(o, Outcomes(o), Outcomes(o)) : flash' = [flash EXCEPT ![o.slot] = r]
        BY <1>2, Zenon DEF Done
      <3> QED
        BY <3>1, <3>2, DataIs, Zenon
    <2>2. \E d \in {"new"} : flash'[o.slot].data = DataAfter(o, d)
      BY <1>3, <2>1, Zenon
    <2>3. flash'[o.slot].data = DataAfter(o, "new")
      BY <2>2, Zenon
    <2> QED
      BY <1>1, <2>3, Zenon
  <1> QED
    BY <1>1, <1>4, Zenon DEF DataAfter, Touched, Wanted

\* ... a write leaves what it was asked to write in the units that are blank, ...
LEMMA WriteData ==
  ASSUME TypeOK, NEW s \in SlotIds, NEW w \in Nat, NEW units, Done(DataOp(s, w, units)), NEW i \in Offsets
  PROVE  /\ i \in w .. w + Len(units) - 1 /\ flash[s].data[i] = Blank => flash'[s].data[i] = units[i - w + 1]
         /\ i \notin w .. w + Len(units) - 1 => flash'[s].data[i] = flash[s].data[i]
  <1> DEFINE o == DataOp(s, w, units)
  <1>1. o.op = "data" /\ o.slot = s /\ o.from = w /\ o.units = units
    BY Zenon DEF DataOp
  <1>2. Done(o)
    OBVIOUS
  <1> HIDE DEF o
  <1>3. PICK d \in {"new", "over"} : flash'[s].data = DataAfter(o, d)
    <2>1. \E d \in Outcomes(o) : flash'[o.slot].data = DataAfter(o, d)
      <3>1. o.slot \in SlotIds
        BY <1>1, Zenon
      <3>2. \E r \in After(o, Outcomes(o), Outcomes(o)) : flash' = [flash EXCEPT ![o.slot] = r]
        BY <1>2, Zenon DEF Done
      <3> QED
        BY <3>1, <3>2, DataIs, Zenon
    <2>2. Outcomes(o) \subseteq {"new", "over"}
      BY Zenon DEF Outcomes
    <2> QED
      BY <1>1, <2>1, <2>2, Zenon
  <1>4. d # "old"
    BY <1>3, Zenon
  <1> QED
    BY <1>1, <1>3, <1>4, Zenon DEF DataAfter, Touched, Wanted

\* ... and a header leaves the image alone, even if it is cut off.
LEMMA HeaderData ==
  ASSUME TypeOK, NEW o \in Ops, o.op = "header", Done(o) \/ CutOff(o)
  PROVE  flash'[o.slot].data = flash[o.slot].data
  <1>1. o.slot \in SlotIds /\ flash[o.slot].data \in [Offsets -> Cells]
    BY Zenon DEF Ops, TypeOK
  <1>2. \A d : DataAfter(o, d) = flash[o.slot].data
    <2>1. ASSUME NEW d PROVE DataAfter(o, d) = [i \in Offsets |-> flash[o.slot].data[i]]
      BY Zenon DEF DataAfter, Touched
    <2> QED
      BY <1>1, <2>1, Zenon
  <1> QED
    <2>1. \E hdrs, datas : \E r \in After(o, hdrs, datas) : flash' = [flash EXCEPT ![o.slot] = r]
      BY Zenon DEF Done, CutOff
    <2>2. \E d : flash'[o.slot].data = DataAfter(o, d)
      BY <1>1, <2>1, DataIs, Zenon
    <2> QED
      BY <1>2, <2>2, Zenon
-----------------------------------------------------------------------------
(* A page on its way. *)

\* flush_page starts where the last page ended.
LEMMA FlushStarts ==
  ASSUME NEW u \in Updates, u.buf # <<>>, Len(u.buf) <= PageSize, u.written % PageSize = 0,
         u.written + Len(u.buf) <= ImageSize, \A k \in DOMAIN u.buf : u.buf[k] = u.version,
         upd' = Flushed(u), todo' = FlushOps(u), flash' = flash,
         u.slot = upd.slot, u.version = upd.version, u.stale = upd.stale, NEW w \in Nat, u.written = w,
         Holds(w), Erased(w, w)
  PROVE  Flushing'
  <1> DEFINE n == Len(u.buf)
  <1>1. u.buf \in Seq(Cells) /\ n \in 1 .. PageSize /\ w \in Offsets
    BY SlotsAssumption DEF Updates, Offsets
  <1>2. upd'.slot = upd.slot /\ upd'.version = upd.version /\ upd'.written = w + n /\ upd'.stale = upd.stale
    BY Zenon DEF Flushed, Updates
  <1>3. upd'.written - w = n
    BY <1>1, <1>2 DEF Offsets
  <1>4. Page(w)' = u.buf
    <2>1. Page(w)' = [k \in 1 .. n |-> u.version]
      BY <1>1, <1>2, <1>3, Zenon DEF Page
    <2> QED
      BY <1>1, <2>1
  <1>5. Holds(w)' /\ Erased(w, w)'
    BY <1>2, Zenon DEF Holds, Erased, Fresh
  <1>6. CASE Address(w) % SectorSize = 0 /\ w > 0
    <2>1. todo' = <<EraseOp(upd'.slot, Address(w)), DataOp(upd'.slot, w, Page(w)')>>
      BY <1>2, <1>4, <1>6, Zenon DEF FlushOps
    <2> QED
      BY <1>1, <1>3, <1>5, <1>6, <2>1, Zenon DEF Flushing
  <1>7. CASE ~(Address(w) % SectorSize = 0 /\ w > 0)
    <2>1. todo' = <<DataOp(upd'.slot, w, Page(w)')>>
      BY <1>2, <1>4, <1>7, Zenon DEF FlushOps
    <2>2. Erased(w, w + 1)'
      BY <1>1, <1>5, <1>7, ClearedNow, Zenon DEF Erased, Fresh
    <2> QED
      BY <1>1, <1>3, <1>5, <2>1, <2>2, Zenon DEF Flushing
  <1> QED
    BY <1>6, <1>7, Zenon

\* The erase of the sector leaves the earlier units alone.
LEMMA SectorErased ==
  ASSUME TypeOK, NEW w \in Offsets, Holds(w), Erased(w, w), Address(w) % SectorSize = 0,
         Done(EraseOp(upd.slot, Address(w))), upd' = upd
  PROVE  Holds(w)' /\ Erased(w, w + 1)'
  <1>1. upd.slot \in SlotIds
    BY Zenon DEF TypeOK
  <1>2. \A i \in Offsets : flash'[upd.slot].data[i] =
           IF Sector(Address(i)) = Sector(Address(w)) THEN Blank ELSE flash[upd.slot].data[i]
    BY <1>1, EraseData, Zenon
  <1>3. ASSUME NEW i \in Offsets, i < w PROVE Sector(Address(i)) # Sector(Address(w))
    <2>1. Address(i) \in Nat /\ Address(w) \in Nat /\ Address(i) < Address(w)
      BY <1>3, SlotsAssumption DEF Address, Offsets
    <2> QED
      BY <2>1, BeforeSector, Zenon
  <1>4. Holds(w)'
    BY <1>2, <1>3, Zenon DEF Holds
  <1>5. ASSUME NEW i \in Offsets, i >= w, Fresh(i, w + 1) PROVE flash'[upd.slot].data[i] = Blank
    <2>1. CASE Fresh(i, w)
      BY <1>2, <1>5, <2>1, Zenon DEF Erased
    <2>2. CASE ~Fresh(i, w)
      <3>1. SectorStart(i) < Address(w + 1) /\ ~(SectorStart(i) < Address(w)) /\ SectorStart(i) \in Nat
        BY <1>5, <2>2, SectorStarts, Zenon DEF Fresh
      <3>2. Address(w + 1) = Address(w) + 1 /\ Address(w) \in Nat
        BY SlotsAssumption DEF Address, Offsets
      <3>3. SectorStart(i) = Address(w)
        BY <3>1, <3>2
      <3>4. Sector(Address(i)) = Sector(Address(w))
        BY <3>3, SectorStarts, Zenon
      <3> QED
        BY <1>2, <3>4, Zenon
    <2> QED
      BY <2>1, <2>2, Zenon
  <1>6. Erased(w, w + 1)'
    BY <1>5, Zenon DEF Erased, Fresh
  <1> QED
    BY <1>4, <1>6, Zenon

\* The page is written into blank units, and the units after it that were blank stay so.
LEMMA PageWritten ==
  ASSUME TypeOK, NEW w \in Offsets, w % PageSize = 0, upd.written - w \in 1 .. PageSize,
         upd.written <= ImageSize, Holds(w), Erased(w, w + 1),
         Done(DataOp(upd.slot, w, Page(w))), upd' = upd
  PROVE  Holds(upd.written)' /\ Erased(upd.written, upd.written)'
  <1> DEFINE n == upd.written - w
  <1>1. /\ upd.slot \in SlotIds /\ upd.written \in Nat /\ w \in Nat /\ w < ImageSize /\ ImageSize \in Nat
        /\ PageSize \in Nat
    BY SlotsAssumption DEF TypeOK, Offsets
  <1>w. \A i \in Offsets :
            /\ i \in w .. w + Len(Page(w)) - 1 /\ flash[upd.slot].data[i] = Blank =>
                  flash'[upd.slot].data[i] = Page(w)[i - w + 1]
            /\ i \notin w .. w + Len(Page(w)) - 1 => flash'[upd.slot].data[i] = flash[upd.slot].data[i]
    <2> DEFINE p == Page(w)
               s == upd.slot
    <2>1. s \in SlotIds /\ w \in Nat /\ Done(DataOp(s, w, p))
      BY <1>1, Zenon
    <2> HIDE DEF p, s
    <2>2. \A i \in Offsets :
              /\ i \in w .. w + Len(p) - 1 /\ flash[s].data[i] = Blank => flash'[s].data[i] = p[i - w + 1]
              /\ i \notin w .. w + Len(p) - 1 => flash'[s].data[i] = flash[s].data[i]
      BY <2>1, WriteData, Zenon
    <2> QED
      BY <2>2, Zenon DEF p, s
  <1>2. w + Len(Page(w)) - 1 = upd.written - 1
    BY <1>1 DEF Page
  <1>3. ASSUME NEW i \in w .. upd.written - 1
        PROVE  i >= w /\ i + 1 \in w + 1 .. w + PageSize /\ Page(w)[i - w + 1] = upd.version
    <2>1. i - w + 1 \in 1 .. n /\ i >= w /\ i + 1 \in w + 1 .. w + PageSize
      BY <1>1, <1>3
    <2> QED
      BY <2>1, Zenon DEF Page
  <1>4. ASSUME NEW i \in Offsets
        PROVE  /\ i \in w .. upd.written - 1 /\ flash[upd.slot].data[i] = Blank =>
                     flash'[upd.slot].data[i] = upd.version
               /\ i \notin w .. upd.written - 1 => flash'[upd.slot].data[i] = flash[upd.slot].data[i]
    <2>1. /\ i \in w .. w + Len(Page(w)) - 1 /\ flash[upd.slot].data[i] = Blank =>
                flash'[upd.slot].data[i] = Page(w)[i - w + 1]
          /\ i \notin w .. w + Len(Page(w)) - 1 => flash'[upd.slot].data[i] = flash[upd.slot].data[i]
      BY <1>w, <1>4, Zenon
    <2>2. i \in w .. upd.written - 1 => Page(w)[i - w + 1] = upd.version
      BY <1>3, Zenon
    <2>3. w .. w + Len(Page(w)) - 1 = w .. upd.written - 1
      BY <1>2, Zenon
    <2> QED
      BY <2>1, <2>2, <2>3, Zenon
  <1>5. \A i \in Offsets : /\ i < upd.written => i < w \/ i \in w .. upd.written - 1
                           /\ i >= upd.written => i >= w /\ i \notin w .. upd.written - 1
                           /\ i < w => i \notin w .. upd.written - 1
    BY <1>1 DEF Offsets
  <1>6. ASSUME NEW i \in Offsets \ upd.stale, i \in w .. upd.written - 1
        PROVE  flash[upd.slot].data[i] = Blank
    <2>1. SectorStart(i) < Address(i + 1)
      <3>1. SectorStart(i) \in Nat /\ SectorStart(i) <= Address(i)
        BY SectorStarts, Zenon
      <3>2. Address(i) \in Nat /\ Address(i + 1) = Address(i) + 1
        BY SlotsAssumption DEF Address, Offsets
      <3> QED
        BY <3>1, <3>2
    <2>2. Cleared(i) => SectorStart(i) < Address(w + 1)
      BY <1>3, <1>6, <2>1, ClearedFirst, Zenon
    <2> QED
      BY <1>3, <1>6, <2>2, Zenon DEF Erased, Fresh
  <1>7. Holds(upd.written)'
    BY <1>4, <1>5, <1>6, Zenon DEF Holds
  <1>8. upd.written \in w + 1 .. w + PageSize
    BY <1>1
  <1>9. Erased(upd.written, upd.written)'
    <2>1. ASSUME NEW i \in Offsets, i >= upd.written, Fresh(i, upd.written)
          PROVE  flash'[upd.slot].data[i] = Blank
      <3>1. Fresh(i, w + 1)
        BY <1>8, <2>1, ClearedFirst, Zenon DEF Fresh
      <3>2. flash[upd.slot].data[i] = Blank
        BY <1>5, <2>1, <3>1, Zenon DEF Erased
      <3> QED
        BY <1>4, <1>5, <2>1, <3>2, Zenon
    <2> QED
      BY <2>1, Zenon DEF Erased, Fresh
  <1> QED
    BY <1>7, <1>9, Zenon
-----------------------------------------------------------------------------
(* The steps of the device once more: what was streamed in is not lost. *)

\* No header in q makes an image new.
NoNew(q) == \A i \in DOMAIN q : q[i].op = "header" => q[i].hdr.state # "NEW"

\* Without an active update only the headers matter, ...
LEMMA NoUpdateLeft ==
  ASSUME ~upd'.active, pc' # "finish", NoNew(todo') PROVE ImageInv'
  BY Zenon DEF ImageInv, HeaderInv, StreamInv, DataInv, NoNew

\* ... as after syn_ota_abort.
LEMMA AbortImage == ASSUME TypeOK, OtaAbort PROVE ImageInv'
  <1>1. /\ ~upd'.active /\ pc' = "abort"
        /\ \A i \in DOMAIN todo' : todo'[i].op = "header" => todo'[i].hdr.state = "INVALID"
    BY AbortKeeps, Zenon
  <1> QED
    BY <1>1, NoUpdateLeft, Zenon DEF NoNew

\* Between the calls of the OTA manager nothing is done to the slot of the update.
LEMMA UpdateWaits ==
  ASSUME ImageInv, upd' = upd, upd.active => flash'[upd.slot].data = flash[upd.slot].data,
         pc \in {"idle", "confirm"}, pc' \in {"idle", "confirm"}, todo = <<>> \/ pc = "confirm",
         ota' \in {"DOWNLOADING", "DOWNLOADED"} => ota' = ota, NoNew(todo')
  PROVE  ImageInv'
  <1>1. HeaderInv'
    BY Zenon DEF HeaderInv, NoNew
  <1>2. StreamInv'
    BY Zenon DEF ImageInv, StreamInv
  <1>3. DataInv'
    BY Zenon DEF ImageInv, DataInv, Holds, Erased, Fresh
  <1> QED
    BY <1>1, <1>2, <1>3, Zenon DEF ImageInv

LEMMA PowerOnImage == IndInv /\ ImageInv /\ PowerOn => ImageInv'
  <1> SUFFICES ASSUME IndInv, PowerOn PROVE ImageInv'
    BY Zenon
  <1>1. ~upd'.active /\ pc' = "select" /\ todo' = Select(ReadHeaders, BootRecord.fail > 0).ops
    BY Zenon DEF PowerOn, IndInv, UpdateInv
  <1>2. ReadHeaders \in [SlotIds -> Hdrs]
    BY Zenon DEF ReadHeaders, IndInv, TypeOK, Hdrs
  <1> DEFINE rollback == BootRecord.fail > 0
  <1> HIDE DEF rollback
  <1>3. Writes(todo', Unconfirmed(ReadHeaders), Bad(ReadHeaders, rollback))
    BY <1>1, <1>2, SelectKeeps, Zenon DEF rollback
  <1>4. NoNew(todo')
    BY <1>3, Zenon DEF Writes, NoNew
  <1> QED
    BY <1>1, <1>4, NoUpdateLeft, Zenon

LEMMA JumpImage == IndInv /\ ImageInv /\ Jump => ImageInv'
  <1> SUFFICES ASSUME IndInv, Jump PROVE ImageInv'
    BY Zenon
  <1>1. ~upd'.active /\ pc' \in {"idle", "halt"} /\ todo' = <<>>
    BY Zenon DEF Jump, IndInv, UpdateInv
  <1>2. NoNew(todo')
    BY <1>1 DEF NoNew
  <1> QED
    BY <1>1, <1>2, NoUpdateLeft, Zenon

LEMMA PowerCutImage == IndInv /\ ImageInv /\ PowerCut => ImageInv'
  <1> SUFFICES ASSUME PowerCut PROVE ImageInv'
    BY Zenon
  <1>1. ~upd'.active /\ pc' = "off" /\ todo' = <<>>
    BY Zenon DEF PowerCut, NoUpdate, Inactive
  <1>2. NoNew(todo')
    BY <1>1 DEF NoNew
  <1> QED
    BY <1>1, <1>2, NoUpdateLeft, Zenon

\* The pages of a chunk and the last one.
LEMMA FlushStepImage ==
  ASSUME IndInv, ImageInv, FlashStep, pc \in {"chunk", "flush"} PROVE ImageInv'
  <1>1. /\ todo # <<>> /\ Done(Head(todo)) /\ todo' = Tail(todo) /\ TypeOK /\ upd.active
        /\ UNCHANGED <<upd, pc, ota, chunk>>
    BY Zenon DEF FlashStep, IndInv, UpdateInv
  <1>2. HeaderInv'
    <2>1. /\ \A i \in DOMAIN Tail(todo) : i + 1 \in DOMAIN todo /\ Tail(todo)[i] = todo[i + 1]
      BY <1>1, TodoTail, Zenon DEF TypeOK
    <2> QED
      BY <1>1, <2>1, Zenon DEF ImageInv, HeaderInv
  <1>3. StreamInv'
    BY <1>1, Zenon DEF ImageInv, StreamInv
  <1>4. ASSUME upd.intact
        PROVE  \/ todo' # <<>> /\ Flushing'
               \/ /\ todo' = <<>> /\ Holds(upd.written)'
                  /\ Erased(upd.written, upd.written)'
    <2>1. PICK w \in Offsets :
             /\ w % PageSize = 0 /\ upd.written - w \in 1 .. PageSize /\ Holds(w)
             /\ \/ /\ todo = <<EraseOp(upd.slot, Address(w)), DataOp(upd.slot, w, Page(w))>>
                   /\ Address(w) % SectorSize = 0 /\ Erased(w, w)
                \/ todo = <<DataOp(upd.slot, w, Page(w))>> /\ Erased(w, w + 1)
      BY <1>1, <1>4, Zenon DEF ImageInv, DataInv, Flushing
    <2> DEFINE d == DataOp(upd.slot, w, Page(w))
               e == EraseOp(upd.slot, Address(w))
    <2>2. CASE todo = <<e, d>> /\ Address(w) % SectorSize = 0 /\ Erased(w, w)
      <3> HIDE DEF d, e
      <3>1. Head(todo) = e /\ todo' = <<d>>
        BY <1>1, <2>2
      <3>2. Holds(w)' /\ Erased(w, w + 1)'
        BY <1>1, <2>1, <2>2, <3>1, SectorErased, Zenon DEF e
      <3>3. todo' = <<DataOp(upd'.slot, w, Page(w)')>>
        BY <1>1, <3>1, Zenon DEF d, Page
      <3>4. todo' # <<>>
        BY <3>1, Zenon
      <3> QED
        BY <1>1, <2>1, <3>2, <3>3, <3>4, Zenon DEF Flushing
    <2>3. CASE todo = <<d>> /\ Erased(w, w + 1)
      <3> HIDE DEF d
      <3>1. Head(todo) = d /\ todo' = <<>>
        BY <1>1, <2>3
      <3>2. upd.written <= ImageSize
        BY <1>1, SlotsAssumption DEF ImageInv, StreamInv, TypeOK
      <3> QED
        BY <1>1, <2>1, <2>3, <3>1, <3>2, PageWritten, Zenon DEF d
    <2> QED
      BY <2>1, <2>2, <2>3, Zenon
  <1>5. DataInv'
    BY <1>1, <1>4, Zenon DEF ImageInv, DataInv
  <1> QED
    BY <1>2, <1>3, <1>5, Zenon DEF ImageInv

\* The erase that an update begins with.
LEMMA BeginStepImage ==
  ASSUME IndInv, ImageInv, FlashStep, pc = "begin" PROVE ImageInv'
  <1>1. /\ todo # <<>> /\ Done(Head(todo)) /\ todo' = Tail(todo) /\ TypeOK /\ upd.active
        /\ UNCHANGED <<upd, pc, ota, chunk>>
    BY Zenon DEF FlashStep, IndInv, UpdateInv
  <1>2. upd.written = 0 /\ todo = BeginOps(upd.slot) /\ upd.slot \in SlotIds
    BY <1>1, Zenon DEF ImageInv, StreamInv, TypeOK
  <1>3. Head(todo) = EraseOp(upd.slot, 0) /\ todo' = <<>>
    BY <1>1, <1>2 DEF BeginOps
  <1>4. HeaderInv'
    BY <1>1, <1>3 DEF HeaderInv
  <1>5. StreamInv'
    BY <1>1, <1>2, <1>3, Zenon DEF ImageInv, StreamInv
  <1>6. \A i \in Offsets : ~(i < 0)
    BY DEF Offsets
  <1>7. ASSUME NEW i \in Offsets, Cleared(i), SectorStart(i) < Address(0)
        PROVE  Sector(Address(i)) = Sector(0)
    <2>1. SectorStart(i) \in Nat /\ Address(0) = HeaderSize /\ HeaderSize \in Nat
      BY SectorStarts, SlotsAssumption DEF Address
    <2>2. SectorStart(i) = 0 \/ SectorStart(i) > HeaderSize
      BY <1>7, Zenon DEF Cleared
    <2>3. SectorStart(i) = 0
      BY <1>7, <2>1, <2>2
    <2> QED
      BY <2>3, SectorStarts, Zenon
  <1>8. \A i \in Offsets : flash'[upd.slot].data[i] =
           IF Sector(Address(i)) = Sector(0) THEN Blank ELSE flash[upd.slot].data[i]
    <2>1. Done(EraseOp(upd.slot, 0))
      BY <1>1, <1>3, Zenon
    <2>2. TypeOK /\ upd.slot \in SlotIds
      BY <1>1, <1>2, Zenon
    <2> QED
      BY <2>1, <2>2, EraseData, Zenon
  <1>9. ASSUME upd.intact, NEW i \in Offsets \ upd.stale, ~Cleared(i)
        PROVE  flash'[upd.slot].data[i] = Blank
    <2>1. flash[upd.slot].data[i] = Blank
      BY <1>1, <1>9, Zenon DEF ImageInv, DataInv
    <2> QED
      BY <1>8, <2>1, Zenon
  <1>10. ASSUME upd.intact PROVE Erased(0, 0)'
    <2>1. ASSUME NEW i \in Offsets, Fresh(i, 0) PROVE flash'[upd.slot].data[i] = Blank
      <3>1. CASE Cleared(i)
        BY <1>7, <1>8, <2>1, <3>1, Zenon DEF Fresh
      <3>2. CASE ~Cleared(i)
        BY <1>9, <1>10, <2>1, <3>2, Zenon DEF Fresh
      <3> QED
        BY <3>1, <3>2, Zenon
    <2> QED
      BY <1>1, <2>1, Zenon DEF Erased, Fresh
  <1>11. Holds(0)'
    BY <1>6, Zenon DEF Holds
  <1>12. DataInv'
    BY <1>1, <1>2, <1>3, <1>9, <1>10, <1>11, Zenon DEF ImageInv, DataInv
  <1> QED
    BY <1>4, <1>5, <1>12, Zenon DEF ImageInv

\* The header that an update ends with.
LEMMA FinishStepImage ==
  ASSUME IndInv, ImageInv, FlashStep, pc = "finish" PROVE ImageInv'
  <1>1. /\ todo # <<>> /\ Done(Head(todo)) /\ todo' = Tail(todo) /\ TypeOK /\ upd.active
        /\ UNCHANGED <<upd, pc, ota, chunk>>
    BY Zenon DEF FlashStep, IndInv, UpdateInv
  <1>2. Streamed(upd) /\ todo = FinishOps(upd) /\ Head(todo) \in Ops
    BY <1>1, TodoTail, Zenon DEF ImageInv, HeaderInv, TypeOK
  <1>3. /\ Head(todo).op = "header" /\ Head(todo).slot = upd.slot /\ todo' = <<>>
    BY <1>1, <1>2 DEF FinishOps, HeaderOp
  <1>4. flash'[upd.slot].data = flash[upd.slot].data
    BY <1>1, <1>2, <1>3, HeaderData, Zenon
  <1>5. HeaderInv'
    BY <1>1, <1>2, <1>3, Zenon DEF HeaderInv, Streamed
  <1>6. StreamInv'
    BY <1>1, Zenon DEF ImageInv, StreamInv
  <1>7. DataInv'
    BY <1>1, <1>4, Zenon DEF ImageInv, DataInv, Holds, Erased, Fresh
  <1> QED
    BY <1>5, <1>6, <1>7, Zenon DEF ImageInv

\* A confirmation leaves the slot of an update alone.
LEMMA ConfirmSpares ==
  ASSUME IndInv, pc = "confirm", todo # <<>>, Done(Head(todo)) \/ CutOff(Head(todo)), upd.active
  PROVE  flash'[upd.slot].data = flash[upd.slot].data
  <1>1. TypeOK /\ upd.slot # mgr.active /\ upd.slot \in SlotIds
    BY Zenon DEF IndInv, TypeOK, UpdateInv
  <1>2. PICK h \in Headers : \/ todo = <<EraseOp(mgr.active, 0), HeaderOp(mgr.active, h)>>
                             \/ todo = <<HeaderOp(mgr.active, h)>>
    BY Zenon DEF IndInv, StateInv
  <1>3. EraseOp(mgr.active, 0).slot = mgr.active /\ HeaderOp(mgr.active, h).slot = mgr.active
    BY Zenon DEF EraseOp, HeaderOp
  <1>4. Head(todo) \in {EraseOp(mgr.active, 0), HeaderOp(mgr.active, h)}
    BY <1>2
  <1>5. Head(todo).slot = mgr.active /\ Head(todo) \in Ops
    BY <1>1, <1>3, <1>4, TodoTail, Zenon DEF TypeOK
  <1> QED
    BY <1>1, <1>5, OperationFrame, Zenon

LEMMA FlashStepImage == IndInv /\ ImageInv /\ FlashStep => ImageInv'
  <1> SUFFICES ASSUME IndInv, ImageInv, FlashStep PROVE ImageInv'
    BY Zenon
  <1>1. /\ todo # <<>> /\ Done(Head(todo)) /\ todo' = Tail(todo) /\ TypeOK
        /\ UNCHANGED <<upd, pc, ota>>
    BY Zenon DEF FlashStep, IndInv
  <1>2. pc \in Calls
    BY <1>1, Zenon DEF IndInv, StateInv
  <1>3. \A i \in DOMAIN Tail(todo) : i + 1 \in DOMAIN todo /\ Tail(todo)[i] = todo[i + 1]
    BY <1>1, TodoTail, Zenon DEF TypeOK
  <1>4. pc # "finish" => NoNew(todo')
    BY <1>1, <1>3, Zenon DEF ImageInv, HeaderInv, NoNew
  <1>5. CASE pc \in {"select", "abort"}
    <2>1. ~upd.active
      BY <1>5, Zenon DEF IndInv, UpdateInv, ImageInv, HeaderInv
    <2> QED
      BY <1>1, <1>4, <1>5, <2>1, NoUpdateLeft, Zenon
  <1>6. CASE pc = "confirm"
    <2>1. upd.active => flash'[upd.slot].data = flash[upd.slot].data
      BY <1>1, <1>6, ConfirmSpares, Zenon
    <2> QED
      BY <1>1, <1>4, <1>6, <2>1, UpdateWaits, Zenon
  <1> QED
    BY <1>2, <1>5, <1>6, FlushStepImage, BeginStepImage, FinishStepImage, Zenon DEF Calls

LEMMA FlashErrorImage == IndInv /\ ImageInv /\ FlashError => ImageInv'
  <1> SUFFICES ASSUME IndInv, ImageInv, FlashError PROVE ImageInv'
    BY Zenon
  <1>1. todo # <<>> /\ CutOff(Head(todo)) /\ TypeOK
    BY Zenon DEF FlashError, IndInv
  <1>2. pc \in Calls
    BY <1>1, Zenon DEF IndInv, StateInv
  <1>3. CASE pc = "confirm"
    <2>1. todo' = <<>> /\ pc' = "idle" /\ UNCHANGED <<upd, ota>>
      BY <1>3, Zenon DEF FlashError
    <2>2. upd.active => flash'[upd.slot].data = flash[upd.slot].data
      BY <1>1, <1>3, ConfirmSpares, Zenon
    <2>3. NoNew(todo')
      BY <2>1 DEF NoNew
    <2> QED
      BY <1>3, <2>1, <2>2, <2>3, UpdateWaits, Zenon
  <1>4. CASE pc \in {"select", "abort"}
    <2>1. /\ UNCHANGED <<upd, pc>> /\ ~upd.active
          /\ todo' = Tail(todo) \/ todo' = Tail(Tail(todo))
      BY <1>4, Zenon DEF FlashError, IndInv, UpdateInv, ImageInv, HeaderInv
    <2>2. ASSUME NEW i \in DOMAIN todo' PROVE \E j \in DOMAIN todo : todo'[i] = todo[j]
      <3>1. todo \in Seq(Ops) /\ Tail(todo) \in Seq(Ops)
        BY <1>1, TodoTail, Zenon DEF TypeOK
      <3>2. todo' = Tail(todo) => i + 1 \in DOMAIN todo /\ todo'[i] = todo[i + 1]
        BY <1>1, <2>2, <3>1
      <3>3. pc = "select" /\ Head(todo).op = "erase" => Len(todo) >= 2
        BY <1>1, <3>1 DEF IndInv, StateInv
      <3>4. todo' = Tail(Tail(todo)) /\ todo' # Tail(todo) => pc = "select" /\ Head(todo).op = "erase"
        BY <1>4, Zenon DEF FlashError
      <3>5. todo' = Tail(Tail(todo)) /\ Len(todo) >= 2 => i + 2 \in DOMAIN todo /\ todo'[i] = todo[i + 2]
        BY <1>1, <2>2, <3>1
      <3> QED
        BY <2>1, <3>2, <3>3, <3>4, <3>5, Zenon
    <2>3. NoNew(todo')
      BY <1>4, <2>2, Zenon DEF NoNew, ImageInv, HeaderInv
    <2> QED
      BY <1>4, <2>1, <2>3, NoUpdateLeft, Zenon
  <1>5. CASE pc = "begin"
    <2>1. todo' = <<>> /\ pc' = "idle" /\ upd' = Aborted(upd) /\ upd.active
      BY <1>5, Zenon DEF FlashError, IndInv, UpdateInv
    <2>2. NoNew(todo') /\ ~upd'.active
      BY <2>1 DEF NoNew, Aborted, Inactive
    <2> QED
      BY <2>1, <2>2, NoUpdateLeft, Zenon
  <1>6. CASE pc \in {"chunk", "flush", "finish"}
    <2>1. OtaAbort
      BY <1>6, Zenon DEF FlashError
    <2> QED
      BY <1>1, <2>1, AbortImage, Zenon
  <1> QED
    BY <1>2, <1>3, <1>4, <1>5, <1>6, Zenon DEF Calls

\* What the application does beside an update.
LEMMA BesideImage ==
  ASSUME IndInv, ImageInv, AppMarkHealthy \/ AppBootInit \/ Apply \/ Confirm \/ ConfirmReturns
  PROVE  ImageInv'
  <1>1. /\ UNCHANGED <<flash, upd>> /\ pc \in {"idle", "confirm"} /\ pc' \in {"idle", "confirm"}
        /\ pc = "idle" \/ todo = <<>>
    BY Zenon DEF AppMarkHealthy, AppBootInit, Apply, Confirm, ConfirmReturns
  <1>2. todo = <<>>
    BY <1>1, Zenon DEF IndInv, StateInv, Calls
  <1>3. ota' \in {ota, "APPLIED"}
    BY Zenon DEF AppMarkHealthy, AppBootInit, Apply, Confirm, ConfirmReturns, boot, IndInv, TypeOK
  <1>4. NoNew(todo')
    <2>1. CASE Confirm
      <3>1. PICK h \in Fields(mgr.hdr[mgr.active]) : todo' = StateOps(mgr.active, h, "CONFIRMED")
        BY <2>1, Zenon DEF Confirm
      <3>2. h \in Headers
        <4>1. mgr.hdr[mgr.active] \in Headers \cup {Blank, Mix}
          BY <2>1, Zenon DEF Confirm, IndInv, TypeOK
        <4> QED
          BY <3>1, <4>1, Zenon DEF Fields
      <3> DEFINE g == [h EXCEPT !.state = "CONFIRMED"]
      <3>3. g.state = "CONFIRMED"
        BY <3>2, Zenon DEF Headers
      <3>4. todo' = <<EraseOp(mgr.active, 0), HeaderOp(mgr.active, g)>>
        BY <3>1, Zenon DEF StateOps
      <3> HIDE DEF g
      <3> QED
        BY <3>3, <3>4 DEF NoNew, HeaderOp, EraseOp
    <2>2. CASE todo' = <<>>
      BY <2>2 DEF NoNew
    <2> QED
      BY <1>2, <2>1, <2>2, Zenon DEF AppMarkHealthy, AppBootInit, Apply, ConfirmReturns
  <1>5. ota' \in {"DOWNLOADING", "DOWNLOADED"} => ota' = ota
    BY <1>3, Zenon
  <1> QED
    BY <1>1, <1>2, <1>4, <1>5, UpdateWaits, Zenon

LEMMA BeginImage ==
  ASSUME IndInv, NEW v \in AppVersions, NEW t \in SlotIds \cup {AutoSlot}, Begin(v, t)
  PROVE  ImageInv'
  <1>1. /\ upd' = Begun(Target(t), v) /\ todo' = BeginOps(Target(t)) /\ pc' = "begin"
        /\ ota' = ota /\ ota \in {"IDLE", "ERROR"} /\ flash' = flash
    BY Zenon DEF Begin
  <1>2. ota' \notin {"DOWNLOADING", "DOWNLOADED"}
    BY <1>1, CallState, Zenon
  <1>3. /\ upd'.slot = Target(t) /\ upd'.written = 0 /\ upd'.buf = <<>>
        /\ upd'.stale = {i \in Offsets : ~Cleared(i) /\ flash[Target(t)].data[i] # Blank}
    BY <1>1, Zenon DEF Begun
  <1>4. HeaderInv'
    BY <1>1 DEF HeaderInv, BeginOps, EraseOp
  <1>5. StreamInv'
    BY <1>1, <1>2, <1>3, SlotsAssumption DEF StreamInv
  <1>6. \A i \in Offsets \ upd'.stale : ~Cleared(i) => flash'[upd'.slot].data[i] = Blank
    BY <1>1, <1>3, Zenon
  <1>7. DataInv'
    <2>1. todo' # <<>> /\ \A k \in DOMAIN upd'.buf : upd'.buf[k] = upd'.version
      BY <1>1, <1>3 DEF BeginOps
    <2> QED
      BY <1>1, <1>6, <2>1, Zenon DEF DataInv
  <1> QED
    BY <1>4, <1>5, <1>7, Zenon DEF ImageInv

LEMMA WriteChunkImage ==
  ASSUME IndInv, ImageInv, NEW n \in 1 .. MaxChunk, NEW x \in Versions \cup {Mix}, WriteChunk(n, x)
  PROVE  ImageInv'
  <1>1. CASE OtaAbort
    BY <1>1, AbortImage, Zenon DEF IndInv
  <1>2. CASE ~OtaAbort
    <2>1. /\ pc = "idle" /\ ota = "DOWNLOADING" /\ x \in {upd.version, Mix}
          /\ upd.written + Len(upd.buf) + n <= ImageSize /\ upd' = Summed(x)
          /\ chunk' = [i \in 1 .. n |-> x] /\ pc' = "chunk" /\ UNCHANGED <<flash, todo, ota>>
      BY <1>2, Zenon DEF WriteChunk
    <2>2. upd \in Updates /\ upd.active /\ todo = <<>>
      BY <2>1, CallState, Zenon
    <2>3. /\ upd'.slot = upd.slot /\ upd'.version = upd.version /\ upd'.written = upd.written
          /\ upd'.buf = upd.buf /\ upd'.active /\ upd'.intact = (upd.intact /\ x # Mix) /\ upd'.stale = upd.stale
      BY <2>1, <2>2, Zenon DEF Updates, Summed
    <2>4. HeaderInv'
      BY <2>1, <2>2 DEF HeaderInv
    <2>5. StreamInv'
      <3>1. Len(chunk') = n
        BY <2>1, FirmwareAssumption
      <3> QED
        BY <2>1, <2>2, <2>3, <3>1, Zenon DEF ImageInv, StreamInv
    <2>6. \A k \in DOMAIN chunk' : chunk'[k] = x
      BY <2>1, Zenon
    <2>7. DataInv'
      <3>1. /\ upd.intact => Holds(upd.written) /\ Erased(upd.written, upd.written)
            /\ upd.intact => \A k \in DOMAIN upd.buf : upd.buf[k] = upd.version
        BY <2>2, Zenon DEF ImageInv, DataInv
      <3>2. upd.intact => Holds(upd.written)' /\ Erased(upd.written, upd.written)'
        BY <2>1, <2>3, <3>1, Zenon DEF Holds, Erased, Fresh
      <3> QED
        BY <2>1, <2>2, <2>3, <2>6, <3>1, <3>2, Zenon DEF DataInv
    <2> QED
      BY <2>4, <2>5, <2>7, Zenon DEF ImageInv
  <1> QED
    BY <1>1, <1>2, Zenon

\* syn_ota_finish flushes what is left in the page buffer.
LEMMA FinishImage ==
  ASSUME IndInv, ImageInv, NEW mode \in Modes, NEW t \in Tags, Finish(mode, t)
  PROVE  ImageInv'
  <1>1. CASE OtaAbort
    BY <1>1, AbortImage, Zenon DEF IndInv
  <1>2. CASE ~OtaAbort
    <2>1. /\ pc = "idle" /\ ota \in {"DOWNLOADING", "DOWNLOADED"} /\ pc' = "flush"
          /\ todo' = FlushOps(upd) /\ upd' = Flushed(upd) /\ ota' = "VERIFYING" /\ flash' = flash
      BY <1>2, CallState, Zenon DEF Finish
    <2>2. /\ upd \in Updates /\ upd.active /\ todo = <<>> /\ Len(upd.buf) < PageSize
          /\ upd.written \in Nat /\ upd.buf \in Seq(Cells) /\ PageSize \in Nat
      BY <2>1, CallState, SlotsAssumption, Zenon DEF Updates
    <2>3. /\ upd'.slot = upd.slot /\ upd'.version = upd.version /\ upd'.buf = <<>>
          /\ upd'.written = upd.written + Len(upd.buf) /\ upd'.active = upd.active /\ upd'.intact = upd.intact
          /\ upd'.stale = upd.stale
      BY <2>1, <2>2, ZenonT(30) DEF Updates, Flushed
    <2>4. upd.written % PageSize = 0 /\ upd.written + Len(upd.buf) <= ImageSize
      BY <2>1, <2>2, Zenon DEF ImageInv, StreamInv
    <2>5. HeaderInv'
      BY <2>1, <2>2, FlushKeeps, Zenon DEF HeaderInv
    <2>6. StreamInv'
      <3>1. Len(upd'.buf) = 0 /\ upd'.written \in Nat
        BY <2>2, <2>3
      <3>2. upd'.written + Len(upd'.buf) <= ImageSize
        BY <2>3, <2>4, <3>1
      <3> QED
        BY <2>1, <3>2, Zenon DEF StreamInv
    <2>7. ASSUME upd.intact
          PROVE  \/ todo' # <<>> /\ Flushing'
                 \/ todo' = <<>> /\ Holds(upd.written)' /\ Erased(upd.written, upd.written)'
      <3>1. /\ \A k \in DOMAIN upd.buf : upd.buf[k] = upd.version
            /\ Holds(upd.written) /\ Erased(upd.written, upd.written)
        BY <2>2, <2>7, Zenon DEF ImageInv, DataInv
      <3>2. CASE upd.buf = <<>>
        <4>1. todo' = <<>> /\ upd'.written = upd.written
          BY <2>1, <2>2, <2>3, <3>2 DEF FlushOps
        <4> QED
          BY <2>1, <2>3, <3>1, <4>1, Zenon DEF Holds, Erased, Fresh
      <3>3. CASE upd.buf # <<>>
        <4>1. Len(upd.buf) <= PageSize
          BY <2>2
        <4>2. Flushing'
          BY <2>1, <2>2, <2>4, <3>1, <3>3, <4>1, FlushStarts, Zenon
        <4>3. todo' # <<>>
          BY <2>1, <3>3, Zenon DEF FlushOps
        <4> QED
          BY <4>2, <4>3, Zenon
      <3> QED
        BY <3>2, <3>3, Zenon
    <2>8. \A k \in DOMAIN upd'.buf : upd'.buf[k] = upd'.version
      BY <2>3
    <2>9. DataInv'
      BY <2>1, <2>3, <2>7, <2>8, Zenon DEF DataInv
    <2> QED
      BY <2>5, <2>6, <2>9, Zenon DEF ImageInv
  <1> QED
    BY <1>1, <1>2, Zenon

\* What is copied is taken from the front of the chunk, and the rest of it is left.
LEMMA Taken ==
  ASSUME NEW p \in Seq(Cells), NEW q \in Seq(Cells), NEW f \in 0 .. Len(q)
  PROVE  LET c == p \o SubSeq(q, 1, f)
         IN  /\ c \in Seq(Cells) /\ Len(c) = Len(p) + f
             /\ \A v : (\A k \in DOMAIN p : p[k] = v) /\ (\A k \in DOMAIN q : q[k] = v) =>
                          \A k \in DOMAIN c : c[k] = v
  <1> DEFINE c == SubSeq(q, 1, f)
  <1>1. c \in Seq(Cells) /\ Len(c) = f /\ \A k \in DOMAIN c : k \in DOMAIN q /\ c[k] = q[k]
    OBVIOUS
  <1> HIDE DEF c
  <1>2. p \o c \in Seq(Cells) /\ Len(p \o c) = Len(p) + f
    BY <1>1
  <1>3. ASSUME NEW v, \A k \in DOMAIN p : p[k] = v, \A k \in DOMAIN q : q[k] = v
        PROVE  \A k \in DOMAIN (p \o c) : (p \o c)[k] = v
    <2>1. \A k \in DOMAIN c : c[k] = v
      BY <1>1, <1>3, Zenon
    <2> QED
      BY <1>1, <1>3, <2>1
  <1> QED
    BY <1>2, <1>3, Zenon DEF c

LEMMA Rest ==
  ASSUME NEW q \in Seq(Cells), NEW f \in 0 .. Len(q)
  PROVE  LET c == SubSeq(q, f + 1, Len(q))
         IN  /\ Len(c) = Len(q) - f
             /\ \A v : (\A k \in DOMAIN q : q[k] = v) => \A k \in DOMAIN c : c[k] = v
  OBVIOUS

\* A full page is flushed from where the last one ended, and ends where a page does.
LEMMA CopyPageImage == IndInv /\ ImageInv /\ CopyPage => ImageInv'
  <1> SUFFICES ASSUME IndInv, ImageInv, CopyPage PROVE ImageInv'
    BY Zenon
  <1> DEFINE b == upd.buf \o SubSeq(chunk, 1, Fit)
  <1>1. /\ pc = "chunk" /\ todo = <<>> /\ chunk' = SubSeq(chunk, Fit + 1, Len(chunk))
        /\ IF Len(Copied.buf) >= PageSize THEN todo' = FlushOps(Copied) /\ upd' = Flushed(Copied)
           ELSE todo' = <<>> /\ upd' = Copied
        /\ UNCHANGED <<flash, pc, ota>> /\ chunk # <<>>
    BY Zenon DEF CopyPage
  <1>2. /\ chunk \in Seq(Cells) /\ upd \in Updates /\ upd.active /\ upd.buf \in Seq(Cells)
        /\ upd.written \in Nat /\ Len(upd.buf) < PageSize /\ PageSize \in Nat \ {0}
    BY <1>1, CallState, SlotsAssumption, Zenon DEF Updates
  <1>3. Fit \in 0 .. Len(chunk) /\ Len(upd.buf) + Fit <= PageSize
    <2>1. Len(chunk) \in Nat /\ Len(upd.buf) \in Nat
      BY <1>2
    <2>2. CASE Len(chunk) < PageSize - Len(upd.buf)
      BY <1>2, <2>1, <2>2 DEF Fit
    <2>3. CASE ~(Len(chunk) < PageSize - Len(upd.buf))
      BY <1>2, <2>1, <2>3 DEF Fit
    <2> QED
      BY <2>2, <2>3, Zenon
  <1>4. b \in Seq(Cells) /\ Len(b) = Len(upd.buf) + Fit /\ Len(chunk') = Len(chunk) - Fit
    <2>1. chunk \in Seq(Cells) /\ upd.buf \in Seq(Cells) /\ Fit \in 0 .. Len(chunk)
      BY <1>2, <1>3, Zenon
    <2>2. b \in Seq(Cells) /\ Len(b) = Len(upd.buf) + Fit
      BY <2>1, Taken, Zenon
    <2>3. Len(SubSeq(chunk, Fit + 1, Len(chunk))) = Len(chunk) - Fit
      BY <2>1, Rest, Zenon
    <2> QED
      BY <1>1, <2>2, <2>3, Zenon
  <1>5. Copied = [upd EXCEPT !.buf = b]
    BY Zenon DEF Copied
  <1> HIDE DEF b
  <1>6. /\ Copied \in Updates /\ Copied.slot = upd.slot /\ Copied.version = upd.version /\ Copied.buf = b
        /\ Copied.written = upd.written /\ Copied.active /\ Copied.intact = upd.intact
        /\ Copied.stale = upd.stale
    BY <1>2, <1>4, <1>5, ZenonT(30) DEF Updates
  <1>7. /\ upd.written + Len(b) + Len(chunk') <= ImageSize /\ upd.written % PageSize = 0
        /\ upd.written + Len(b) <= ImageSize /\ Len(b) <= PageSize
    <2>1. upd.written + Len(upd.buf) + Len(chunk) <= ImageSize /\ upd.written % PageSize = 0
      BY <1>1, <1>2, Zenon DEF ImageInv, StreamInv
    <2> DEFINE x == Len(upd.buf)
               y == Len(chunk)
    <2>2. x \in Nat /\ y \in Nat
      BY <1>2
    <2>3. Fit \in 0 .. y /\ x + Fit <= PageSize /\ upd.written + x + y <= ImageSize
      BY <1>3, <2>1, Zenon
    <2>4. Len(b) = x + Fit /\ Len(chunk') = y - Fit
      BY <1>4, Zenon
    <2>5. upd.written \in Nat /\ ImageSize \in Nat /\ PageSize \in Nat
      BY <1>2, SlotsAssumption, Zenon
    <2> HIDE DEF x, y
    <2>6. upd.written + Len(b) <= ImageSize
      BY <2>2, <2>3, <2>4, <2>5
    <2>7. upd.written + Len(b) + Len(chunk') <= ImageSize
      BY <2>2, <2>3, <2>4, <2>5
    <2> QED
      BY <2>1, <2>3, <2>4, <2>6, <2>7, Zenon
  <1>8. ASSUME upd.intact
        PROVE  /\ \A k \in DOMAIN b : b[k] = upd.version
               /\ \A k \in DOMAIN chunk' : chunk'[k] = upd.version
               /\ Holds(upd.written) /\ Erased(upd.written, upd.written)
    <2>1. /\ \A k \in DOMAIN upd.buf : upd.buf[k] = upd.version
          /\ \A k \in DOMAIN chunk : chunk[k] = upd.version
          /\ Holds(upd.written) /\ Erased(upd.written, upd.written)
      BY <1>1, <1>2, <1>8, Zenon DEF ImageInv, DataInv
    <2> QED
      <3>1. chunk \in Seq(Cells) /\ upd.buf \in Seq(Cells) /\ Fit \in 0 .. Len(chunk)
        BY <1>2, <1>3, Zenon
      <3> DEFINE v == upd.version
      <3>2. \A k \in DOMAIN b : b[k] = v
        BY <2>1, <3>1, Taken, Zenon DEF b
      <3>3. \A k \in DOMAIN SubSeq(chunk, Fit + 1, Len(chunk)) : SubSeq(chunk, Fit + 1, Len(chunk))[k] = v
        BY <2>1, <3>1, Rest, Zenon
      <3> QED
        BY <1>1, <2>1, <3>2, <3>3, Zenon
  <1>9. CASE Len(b) >= PageSize
    <2>1. todo' = FlushOps(Copied) /\ upd' = Flushed(Copied) /\ Len(b) = PageSize
      BY <1>1, <1>2, <1>4, <1>6, <1>7, <1>9
    <2> HIDE DEF Copied
    <2>2. /\ upd'.written = upd.written + PageSize /\ upd'.buf = <<>> /\ upd'.version = upd.version
          /\ upd'.active /\ upd'.intact = upd.intact
      BY <1>6, <2>1, ZenonT(30) DEF Flushed, Updates
    <2>3. HeaderInv'
      BY <1>1, <1>6, <2>1, FlushKeeps, Zenon DEF HeaderInv
    <2>4. StreamInv'
      <3>1. upd'.written % PageSize = 0
        BY <1>2, <1>7, <2>2, NextPage, Zenon
      <3>2. /\ upd'.written + Len(upd'.buf) <= ImageSize
            /\ upd'.written + Len(upd'.buf) + Len(chunk') <= ImageSize
        <4>1. Len(upd'.buf) = 0
          BY <2>2
        <4>2. upd.written \in Nat /\ PageSize \in Nat
          BY <1>2, Zenon
        <4>3. upd'.written = upd.written + Len(b)
          BY <2>1, <2>2, Zenon
        <4>4. Len(b) \in Nat /\ Len(chunk') \in Nat
          BY <1>2, <1>3, <1>4
        <4> QED
          BY <1>7, <4>1, <4>2, <4>3, <4>4
      <3> QED
        BY <1>1, <3>1, <3>2, Zenon DEF StreamInv
    <2>5. b # <<>>
      BY <1>2, <2>1, Zenon
    <2>6. todo' # <<>>
      BY <1>6, <2>1, <2>5, Zenon DEF FlushOps
    <2>7. upd.intact => Flushing'
      BY <1>1, <1>2, <1>6, <1>7, <1>8, <2>1, <2>5, FlushStarts, Zenon
    <2>8. \A k \in DOMAIN upd'.buf : upd'.buf[k] = upd'.version
      BY <2>2
    <2>9. DataInv'
      BY <1>1, <1>8, <2>2, <2>6, <2>7, <2>8, Zenon DEF DataInv
    <2> QED
      BY <2>3, <2>4, <2>9, Zenon DEF ImageInv
  <1>10. CASE ~(Len(b) >= PageSize)
    <2>1. todo' = <<>> /\ upd' = Copied
      BY <1>1, <1>6, <1>10, Zenon
    <2> HIDE DEF Copied
    <2>2. HeaderInv'
      BY <1>1, <2>1 DEF HeaderInv
    <2>3. StreamInv'
      BY <1>1, <1>6, <1>7, <2>1, Zenon DEF StreamInv
    <2>4. DataInv'
      BY <1>1, <1>6, <1>8, <2>1, Zenon DEF DataInv, Holds, Erased, Fresh
    <2> QED
      BY <2>2, <2>3, <2>4, Zenon DEF ImageInv
  <1> QED
    BY <1>9, <1>10, Zenon

\* The header is written only for a stream that was complete and intact.
LEMMA VerifyImage ==
  ASSUME IndInv, ImageInv, NEW mode \in Modes, NEW t \in Tags, Verify(mode, t)
  PROVE  ImageInv'
  <1>1. CASE OtaAbort
    BY <1>1, AbortImage, Zenon DEF IndInv
  <1>2. CASE ~OtaAbort
    <2>1. /\ pc = "flush" /\ todo = <<>> /\ Verified(upd, mode, t) /\ todo' = FinishOps(upd)
          /\ pc' = "finish" /\ UNCHANGED <<upd, ota, flash>>
      BY <1>2, Zenon DEF Verify
    <2>2. Streamed(upd)
      BY <2>1, Zenon DEF Verified, VerifiedGcm, Modes
    <2>3. HeaderInv'
      BY <2>1, <2>2, Zenon DEF HeaderInv, Streamed, FinishOps
    <2>4. StreamInv'
      BY <2>1, Zenon DEF ImageInv, StreamInv
    <2>5. DataInv'
      BY <2>1, Zenon DEF ImageInv, DataInv, Holds, Erased, Fresh
    <2> QED
      BY <2>3, <2>4, <2>5, Zenon DEF ImageInv
  <1> QED
    BY <1>1, <1>2, Zenon

LEMMA OtaReturnsImage == IndInv /\ ImageInv /\ OtaReturns => ImageInv'
  <1> SUFFICES ASSUME IndInv, ImageInv, OtaReturns PROVE ImageInv'
    BY Zenon
  <1>1. /\ pc \in {"begin", "chunk", "finish", "abort"} /\ todo = <<>> /\ pc' = "idle"
        /\ upd' = IF pc = "finish" THEN Finished ELSE upd
        /\ UNCHANGED <<flash, todo>>
    BY Zenon DEF OtaReturns
  <1>2. NoNew(todo')
    BY <1>1 DEF NoNew
  <1>3. CASE pc \in {"finish", "abort"}
    <2>1. ~upd'.active
      BY <1>1, <1>3, Zenon DEF Finished, NoUpdate, Inactive, ImageInv, HeaderInv
    <2> QED
      BY <1>1, <1>2, <2>1, NoUpdateLeft, Zenon
  <1>4. CASE pc \in {"begin", "chunk"}
    <2>1. upd' = upd
      BY <1>1, <1>4, Zenon
    <2>2. upd.active => upd.written % PageSize = 0
      <3>1. 0 % PageSize = 0
        BY SlotsAssumption
      <3> QED
        BY <1>4, <3>1, Zenon DEF ImageInv, StreamInv
    <2>3. HeaderInv'
      BY <1>1, <1>2, Zenon DEF HeaderInv, NoNew
    <2>4. StreamInv'
      BY <1>1, <2>1, <2>2, Zenon DEF ImageInv, StreamInv
    <2>5. DataInv'
      <3>1. /\ upd.active /\ upd.intact => Holds(upd.written) /\ Erased(upd.written, upd.written)
            /\ upd.active /\ upd.intact => \A k \in DOMAIN upd.buf : upd.buf[k] = upd.version
        BY <1>1, Zenon DEF ImageInv, DataInv
      <3>2. upd.active /\ upd.intact =>
               Holds(upd.written)' /\ Erased(upd.written, upd.written)'
        BY <1>1, <2>1, <3>1, Zenon DEF Holds, Erased, Fresh
      <3> QED
        BY <1>1, <2>1, <3>1, <3>2, Zenon DEF DataInv
    <2> QED
      BY <2>3, <2>4, <2>5, Zenon DEF ImageInv
  <1> QED
    BY <1>1, <1>3, <1>4, Zenon

LEMMA InitImageInv == Init => ImageInv
  <1> SUFFICES ASSUME Init PROVE ImageInv
    BY Zenon
  <1>1. ~upd.active /\ pc = "off" /\ todo = <<>>
    BY Zenon DEF Init, NoUpdate, Inactive
  <1> QED
    BY <1>1 DEF ImageInv, HeaderInv, StreamInv, DataInv

LEMMA NextImageInv == IndInv /\ ImageInv /\ [Next]_vars => ImageInv'
  <1> SUFFICES ASSUME IndInv, ImageInv, [Next]_vars PROVE ImageInv'
    BY Zenon
  <1>1. CASE PowerOn \/ Jump \/ PowerCut \/ FlashStep \/ FlashError
    BY <1>1, PowerOnImage, JumpImage, PowerCutImage, FlashStepImage, FlashErrorImage, Zenon
  <1>2. CASE ConfirmReturns \/ CopyPage \/ OtaReturns
    BY <1>2, BesideImage, CopyPageImage, OtaReturnsImage, Zenon
  <1>3. CASE App
    <2>1. CASE Cancel
      BY <2>1, AbortImage, Zenon DEF Cancel, IndInv
    <2>2. CASE AppMarkHealthy \/ AppBootInit \/ Confirm \/ Apply
      BY <2>2, BesideImage, Zenon
    <2>3. CASE \E v \in AppVersions, t \in SlotIds \cup {AutoSlot} : Begin(v, t)
      BY <2>3, BeginImage, Zenon
    <2>4. CASE \E n \in 1 .. MaxChunk, x \in Versions \cup {Mix} : WriteChunk(n, x)
      BY <2>4, WriteChunkImage, Zenon
    <2>5. CASE \E mode \in Modes, t \in Tags : Finish(mode, t)
      BY <2>5, FinishImage, Zenon
    <2> QED
      BY <1>3, <2>1, <2>2, <2>3, <2>4, <2>5, Zenon DEF App
  <1>4. CASE \E mode \in Modes, t \in Tags : Verify(mode, t)
    BY <1>4, VerifyImage, Zenon
  <1>5. CASE UNCHANGED vars
    <2>1. UNCHANGED <<flash, todo, upd, pc, ota, chunk>>
      BY <1>5, Zenon DEF vars
    <2>2. HeaderInv' /\ StreamInv'
      BY <2>1, Zenon DEF ImageInv, HeaderInv, StreamInv, Streamed, FinishOps
    <2>3. /\ Holds(upd.written)' <=> Holds(upd.written)
          /\ Erased(upd.written, upd.written)' <=> Erased(upd.written, upd.written)
      BY <2>1, Zenon DEF Holds, Erased, Fresh
    <2>4. Flushing' <=> Flushing
      BY <2>1, Zenon DEF Flushing, Page, Holds, Erased, Fresh
    <2>5. DataInv'
      BY <2>1, <2>3, <2>4, Zenon DEF ImageInv, DataInv
    <2> QED
      BY <2>2, <2>5, Zenon DEF ImageInv
  <1> QED
    BY <1>1, <1>2, <1>3, <1>4, <1>5, Zenon DEF Next

\* A header that says NEW is written by the end of an update, over a complete image.
LEMMA NewStep ==
  ASSUME IndInv, ImageInv, [Next]_vars, NEW s \in SlotIds,
         Is(flash'[s].hdr, "NEW"), ~Is(flash[s].hdr, "NEW")
  PROVE  \A i \in Offsets \ upd.stale : flash'[s].data[i] = flash'[s].hdr.version
  <1>1. TypeOK
    BY Zenon DEF IndInv
  <1>2. todo # <<>> /\ (Done(Head(todo)) \/ CutOff(Head(todo)))
    <2>1. flash' # flash
      BY Zenon
    <2>2. ~App /\ ~UNCHANGED vars
      BY <2>1, Zenon DEF App, AppMarkHealthy, AppBootInit, Confirm, Apply, Cancel, Begin, WriteChunk,
                         Finish, vars
    <2>3. ~(PowerOn \/ Jump \/ ConfirmReturns \/ CopyPage \/ OtaReturns \/ \E mode \in Modes, t \in Tags : Verify(mode, t))
      BY <2>1, Zenon DEF PowerOn, Jump, ConfirmReturns, CopyPage, Verify, OtaReturns
    <2>4. PowerCut \/ FlashStep \/ FlashError
      BY <2>2, <2>3, Zenon DEF Next
    <2> QED
      BY <2>1, <2>4, Zenon DEF PowerCut, FlashStep, FlashError
  <1> DEFINE o == Head(todo)
  <1>3. o \in Ops /\ o = todo[1] /\ 1 \in DOMAIN todo
    BY <1>1, <1>2, TodoTail, Zenon DEF TypeOK
  <1>4. /\ \A r \in SlotIds \ {o.slot} : flash'[r] = flash[r]
        /\ \/ flash'[o.slot].hdr \in {flash[o.slot].hdr, Blank, Mix}
           \/ o.op = "header" /\ flash'[o.slot].hdr = o.hdr
    BY <1>1, <1>2, <1>3, OperationFrame, Zenon
  <1> HIDE DEF o
  <1>5. s = o.slot /\ o.op = "header" /\ flash'[s].hdr = o.hdr /\ o.hdr.state = "NEW"
    BY <1>4, Zenon DEF Is, HeaderValid
  <1>6. pc = "finish" /\ Streamed(upd) /\ todo = FinishOps(upd) /\ upd.active
    BY <1>2, <1>3, <1>5, Zenon DEF ImageInv, HeaderInv, IndInv, UpdateInv
  <1>7. o.slot = upd.slot /\ o.hdr.version = upd.version
    BY <1>3, <1>6, Zenon DEF FinishOps, HeaderOp, Header
  <1>8. /\ Holds(ImageSize)
        /\ \A i \in Offsets : i < ImageSize
    <2>1. Holds(ImageSize)
      BY <1>6, Zenon DEF ImageInv, DataInv, Streamed
    <2>2. \A i \in Offsets : i < ImageSize
      BY SlotsAssumption DEF Offsets
    <2> QED
      BY <2>1, <2>2, Zenon
  <1>9. flash'[s].data = flash[s].data
    BY <1>1, <1>2, <1>3, <1>5, HeaderData, Zenon DEF o
  <1> QED
    BY <1>5, <1>7, <1>8, <1>9, Zenon DEF Holds

\* Whatever the sizes, the versions, the length of the chunks, and the number of updates, power
\* failures and errors of the flash: when syn_fwupdate_finish makes a slot NEW, the slot holds
\* the image that was streamed into it, except in units that were not blank when the update
\* began and that lie in a sector flush_page does not erase.  A sector that it does erase is
\* erased before the first page that reaches into it, and nothing else is written to the slot
\* meanwhile.
THEOREM NewImageIsWhole == Spec => NewIsWhole
  <1>1. Spec => []ImageInv
    BY NextImageInv, InitImageInv, Invariance, PTL DEF Spec
  <1>2. IndInv /\ ImageInv /\ [Next]_vars =>
           [\A s \in SlotIds : Is(flash'[s].hdr, "NEW") /\ ~Is(flash[s].hdr, "NEW") =>
               \A i \in Offsets \ upd.stale : flash'[s].data[i] = flash'[s].hdr.version]_vars
    BY NewStep, Zenon
  <1> QED
    BY <1>1, <1>2, Invariance, PTL DEF Spec, NewIsWhole
===============================================================================
