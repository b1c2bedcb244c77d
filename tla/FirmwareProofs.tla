---------------------------- MODULE FirmwareProofs ----------------------------
(***************************************************************************)
(* Proof that an update never takes the last confirmed image away, and     *)
(* that an image gets one chance (Firmware, FallbackKept and OneChance),   *)
(* for images, pages and sectors of every size, any versions, and any      *)
(* number of updates, power failures and errors.                           *)
(***************************************************************************)
EXTENDS Firmware, TLAPS
-----------------------------------------------------------------------------
(* A reset, a power failure and the flash operations of a call. *)

Hdrs == Headers \cup {Blank, Mix}
Images == [hdr : Hdrs, data : [Offsets -> Cells]]

\* Whatever becomes of a flash operation, it leaves the other slot alone.
LEMMA OperationFrame ==
  ASSUME TypeOK, NEW o \in Ops, Done(o) \/ CutOff(o)
  PROVE  /\ flash' \in [SlotIds -> Images]
         /\ \A s \in SlotIds \ {o.slot} : flash'[s] = flash[s]
         /\ \/ flash'[o.slot].hdr \in {flash[o.slot].hdr, Blank, Mix}
            \/ o.op = "header" /\ flash'[o.slot].hdr = o.hdr
  <1>1. o.slot \in SlotIds
    BY Zenon DEF Ops
  <1>2. ASSUME NEW hdrs, NEW datas, NEW r \in After(o, hdrs, datas) PROVE r \in Images
    <2>1. flash[o.slot].hdr \in Hdrs /\ flash[o.slot].data \in [Offsets -> Cells]
      BY <1>1, Zenon DEF TypeOK, Hdrs
    <2>2. ASSUME NEW h PROVE HeaderAfter(o, h) \in Hdrs
      BY <2>1, Zenon DEF HeaderAfter, Ops, Hdrs
    <2>3. ASSUME NEW d, NEW i \in Offsets PROVE DataAfter(o, d)[i] \in Cells
      <3>1. Touched(o, i) => Wanted(o, i) \in Cells
        BY SlotsAssumption DEF Touched, Wanted, Ops, Cells, Offsets
      <3> QED
        BY <2>1, <3>1, Zenon DEF DataAfter, Cells
    <2>4. ASSUME NEW d PROVE DataAfter(o, d) \in [Offsets -> Cells]
      BY <2>3, Zenon DEF DataAfter
    <2> QED
      BY <1>2, <2>2, <2>4 DEF After, Images
  <1>3. PICK hdrs, datas : \E r \in After(o, hdrs, datas) : flash' = [flash EXCEPT ![o.slot] = r]
    BY Zenon DEF Done, CutOff
  <1>4. PICK r \in After(o, hdrs, datas) : flash' = [flash EXCEPT ![o.slot] = r]
    BY <1>3, Zenon
  <1>5. r \in Images /\ \E h : r.hdr = HeaderAfter(o, h)
    BY <1>2, <1>4 DEF After
  <1>6. flash'[o.slot] = r /\ \A s \in SlotIds \ {o.slot} : flash'[s] = flash[s]
    BY <1>1, <1>4, Zenon DEF TypeOK
  <1>7. \/ flash'[o.slot].hdr \in {flash[o.slot].hdr, Blank, Mix}
        \/ o.op = "header" /\ flash'[o.slot].hdr = o.hdr
    BY <1>5, <1>6, Zenon DEF HeaderAfter, Ops
  <1>8. flash' \in [SlotIds -> Images]
    BY <1>4, <1>5, Zenon DEF TypeOK, Hdrs, Images
  <1> QED
    BY <1>6, <1>7, <1>8, Zenon

\* The erase of the first sector, of which every call's operations start.
LEMMA EraseOpIs ==
  ASSUME NEW s \in SlotIds
  PROVE  EraseOp(s, 0) \in Ops /\ EraseOp(s, 0).slot = s /\ EraseOp(s, 0).op = "erase"
  <1>1. Sector(0) \in Int
    BY SlotsAssumption DEF Sector
  <1> QED
    BY <1>1, Zenon DEF EraseOp, Ops

\* An erase of the first sector leaves no header ...
LEMMA EraseDone ==
  ASSUME TypeOK, NEW s \in SlotIds, Done(EraseOp(s, 0))
  PROVE  flash'[s].hdr = Blank
  <1>1. Sector(0) = 0
    BY SlotsAssumption DEF Sector
  <1> QED
    BY <1>1 DEF Done, After, HeaderAfter, Outcomes, Clean, EraseOp, TypeOK

\* ... and a header written after it is the one that was asked for.
LEMMA HeaderDone ==
  ASSUME TypeOK, NEW s \in SlotIds, NEW h \in Headers, flash[s].hdr = Blank, Done(HeaderOp(s, h))
  PROVE  flash'[s].hdr = h
  BY DEF Done, After, HeaderAfter, Outcomes, Clean, HeaderOp, TypeOK

\* An image that is rejected is on trial no longer, nor anything else.
LEMMA RejectDone ==
  ASSUME TypeOK, NEW o \in Ops, Rejects(o), Done(o), NEW st \in {"NEW", "TESTING", "CONFIRMED"}
  PROVE  ~Is(flash'[o.slot].hdr, st)
  <1>1. flash'[o.slot].hdr \in {Blank, Mix} \/ flash'[o.slot].hdr.state = "INVALID"
    BY DEF Done, After, HeaderAfter, Outcomes, Rejects, Ops, TypeOK
  <1> QED
    BY <1>1, Zenon DEF Is, HeaderValid
-----------------------------------------------------------------------------
(* syn_fwboot_select *)

\* A list of operations on slots of S, in which each erase is followed by a write to its slot,
\* no image is made new, and a slot of R is rejected.
Writes(q, S, R) ==
    /\ q \in Seq(Ops)
    /\ \A i \in DOMAIN q :
          /\ q[i].slot \in S /\ (q[i].slot \in R => Rejects(q[i]))
          /\ q[i].op = "erase" => i + 1 \in DOMAIN q /\ q[i + 1].slot = q[i].slot
          /\ q[i].op = "header" => q[i].hdr.state # "NEW"

LEMMA Concat ==
  ASSUME NEW p \in Seq(Ops), NEW q \in Seq(Ops)
  PROVE  /\ p \o q \in Seq(Ops)
         /\ \A i \in DOMAIN p : i \in DOMAIN (p \o q) /\ (p \o q)[i] = p[i]
         /\ \A i \in DOMAIN q : Len(p) + i \in DOMAIN (p \o q) /\ (p \o q)[Len(p) + i] = q[i]
         /\ \A i \in DOMAIN (p \o q) : i \in DOMAIN p \/ \E j \in DOMAIN q : i = Len(p) + j
  <1>1. p \o q \in Seq(Ops) /\ Len(p \o q) = Len(p) + Len(q)
    OBVIOUS
  <1>2. \A i \in DOMAIN (p \o q) : i > Len(p) => i - Len(p) \in DOMAIN q /\ i = Len(p) + (i - Len(p))
    BY <1>1
  <1>3. \A i \in DOMAIN q : Len(p) + i \in DOMAIN (p \o q) /\ (p \o q)[Len(p) + i] = q[i]
    BY <1>1
  <1> QED
    BY <1>1, <1>2, <1>3

LEMMA WritesConcat ==
  ASSUME NEW S, NEW R, NEW p, NEW q, Writes(p, S, R), Writes(q, S, R)
  PROVE  Writes(p \o q, S, R)
  <1> DEFINE c == p \o q
  <1>1. p \in Seq(Ops) /\ q \in Seq(Ops)
    BY Zenon DEF Writes
  <1>2. /\ c \in Seq(Ops)
        /\ \A i \in DOMAIN p : i \in DOMAIN c /\ c[i] = p[i]
        /\ \A i \in DOMAIN q : Len(p) + i \in DOMAIN c /\ c[Len(p) + i] = q[i]
        /\ \A i \in DOMAIN c : i \in DOMAIN p \/ \E j \in DOMAIN q : i = Len(p) + j
    BY <1>1, Concat, Zenon
  <1> HIDE DEF c
  <1>3. ASSUME NEW i \in DOMAIN p
        PROVE  /\ c[i].slot \in S /\ (c[i].slot \in R => Rejects(c[i]))
               /\ c[i].op = "erase" => i + 1 \in DOMAIN c /\ c[i + 1].slot = c[i].slot
               /\ c[i].op = "header" => c[i].hdr.state # "NEW"
    BY <1>2, <1>3, Zenon DEF Writes
  <1>4. ASSUME NEW j \in DOMAIN q, NEW i, i = Len(p) + j
        PROVE  /\ c[i].slot \in S /\ (c[i].slot \in R => Rejects(c[i]))
               /\ c[i].op = "erase" => i + 1 \in DOMAIN c /\ c[i + 1].slot = c[i].slot
               /\ c[i].op = "header" => c[i].hdr.state # "NEW"
    <2>1. c[i] = q[j] /\ i + 1 = Len(p) + (j + 1)
      BY <1>1, <1>2, <1>4
    <2>2. c[i].op = "erase" => j + 1 \in DOMAIN q /\ q[j + 1].slot = q[j].slot
      BY <1>4, <2>1, Zenon DEF Writes
    <2>3. c[i].op = "erase" => i + 1 \in DOMAIN c /\ c[i + 1] = q[j + 1]
      BY <1>2, <2>1, <2>2
    <2> QED
      BY <1>4, <2>1, <2>2, <2>3, Zenon DEF Writes
  <1>5. Writes(c, S, R)
    <2>1. ASSUME NEW i \in DOMAIN c
          PROVE  /\ c[i].slot \in S /\ (c[i].slot \in R => Rejects(c[i]))
                 /\ c[i].op = "erase" => i + 1 \in DOMAIN c /\ c[i + 1].slot = c[i].slot
                 /\ c[i].op = "header" => c[i].hdr.state # "NEW"
      BY <1>2, <1>3, <1>4, Zenon
    <2> QED
      BY <1>2, <2>1, Zenon DEF Writes
  <1> QED
    BY <1>5, Zenon DEF c

LEMMA WritesState ==
  ASSUME NEW S \in SUBSET SlotIds, NEW R, NEW s \in S, NEW h \in Headers,
         NEW st \in {"TESTING", "CONFIRMED", "INVALID"}, s \notin R \/ st = "INVALID"
  PROVE  /\ Writes(StateOps(s, h, st), S, R)
         /\ 1 \in DOMAIN StateOps(s, h, st) /\ StateOps(s, h, st)[1].slot = s
  <1> DEFINE e == EraseOp(s, 0)
             w == HeaderOp(s, [h EXCEPT !.state = st])
  <1>1. [h EXCEPT !.state = st] \in Headers /\ [h EXCEPT !.state = st].state = st
    BY Zenon DEF Headers
  <1>2. Sector(0) = 0
    BY SlotsAssumption DEF Sector
  <1>3. e \in Ops /\ w \in Ops
    BY <1>1, <1>2 DEF EraseOp, HeaderOp, Ops
  <1>4. /\ e.slot = s /\ w.slot = s /\ e.op = "erase" /\ w.op = "header" /\ w.hdr.state # "NEW"
        /\ Rejects(e) /\ (s \in R => Rejects(w))
    BY <1>1, <1>2, Zenon DEF EraseOp, HeaderOp, Rejects
  <1>5. StateOps(s, h, st) = <<e, w>>
    BY Zenon DEF StateOps
  <1> HIDE DEF e, w
  <1> QED
    BY <1>3, <1>4, <1>5 DEF Writes

Unconfirmed(hdrs) == {s \in SlotIds : ~Is(hdrs[s], "CONFIRMED")}
Bad(hdrs, rollback) ==
    {s \in SlotIds : /\ ~Is(hdrs[s], "NEW") /\ ~Is(hdrs[s], "CONFIRMED")
                     /\ Is(hdrs[s], "TESTING") => rollback}

\* It picks a slot if an image is confirmed, and leaves what is confirmed alone.  It does not
\* pick an image that is invalid, or on trial in a rollback, and rejects the latter.
LEMMA SelectKeeps ==
  ASSUME NEW hdrs \in [SlotIds -> Hdrs], NEW rollback
  PROVE  LET sel == Select(hdrs, rollback)
         IN  /\ sel.active \in SlotIds \cup {NoSlot} /\ sel.hdr \in [SlotIds -> Hdrs]
             /\ Writes(sel.ops, Unconfirmed(hdrs), Bad(hdrs, rollback))
             /\ sel.active \notin Bad(hdrs, rollback)
             /\ \A s \in Failed(hdrs, rollback) : \E i \in DOMAIN sel.ops : sel.ops[i].slot = s
             /\ \A s \in SlotIds : Is(hdrs[s], "CONFIRMED") =>
                   sel.active # NoSlot /\ sel.hdr[s] = hdrs[s]
  <1> DEFINE In(state) == Left(hdrs, rollback, state)
             S == Unconfirmed(hdrs)
             R == Bad(hdrs, rollback)
  <1>1. ASSUME NEW T \in SUBSET SlotIds, T # {} PROVE First(T) \in T
    <2>1. \E s \in T : \A t \in T : s <= t
      <3>1. CASE 0 \in T
        BY <1>1, <3>1 DEF SlotIds
      <3>2. CASE 0 \notin T
        <4>1. PICK u \in T : TRUE
          BY <1>1, Zenon
        <4>2. \A t \in T : t = 1
          BY <1>1, <3>2, Zenon DEF SlotIds
        <4> QED
          BY <4>1, <4>2
      <3> QED
        BY <3>1, <3>2, Zenon
    <2> QED
      BY <2>1, Zenon DEF First
  <1>2. \A state : In(state) \in SUBSET SlotIds
    BY Zenon DEF Left
  <1>3. In("CONFIRMED") # {} => Newest(hdrs, In("CONFIRMED")) # {}
    <2>1. ASSUME NEW s \in In("CONFIRMED") PROVE hdrs[s].version \in Nat
      <3>1. hdrs[s] \in Headers
        BY <2>1, Zenon DEF Left, Is, HeaderValid, Hdrs
      <3>2. hdrs[s].version \in Versions \cup {0}
        BY <3>1, Zenon DEF Headers
      <3>3. \A v \in Versions : v \in Nat
        BY SlotsAssumption, Zenon
      <3> QED
        BY <3>2, <3>3
    <2>2. CASE In("CONFIRMED") = {0, 1}
      BY <2>1, <2>2 DEF Newest
    <2>3. CASE \E s : In("CONFIRMED") = {s}
      BY <2>1, <2>3 DEF Newest
    <2> QED
      BY <1>2, <2>2, <2>3 DEF SlotIds
  <1>4. /\ In("TESTING") # {} => Picked(hdrs, rollback) \in In("TESTING")
        /\ OnTrial(hdrs, rollback) => Picked(hdrs, rollback) \in In("NEW")
        /\ In("CONFIRMED") # {} => Picked(hdrs, rollback) # NoSlot
        /\ Picked(hdrs, rollback) \in In("TESTING") \cup In("NEW") \cup In("CONFIRMED") \cup {NoSlot}
    BY <1>1, <1>2, <1>3 DEF Picked, OnTrial, Newest, SlotIds, NoSlot
  <1>5. ASSUME NEW s \in SlotIds, Is(hdrs[s], "CONFIRMED")
        PROVE  s \in In("CONFIRMED") /\ s \notin In("NEW") /\ s \notin Failed(hdrs, rollback)
    BY <1>5, Zenon DEF Left, Failed, Is
  <1>6. \A s \in Failed(hdrs, rollback) : s \in S /\ hdrs[s] \in Headers
    BY <1>5, Zenon DEF Failed, Unconfirmed, Is, HeaderValid, Hdrs
  <1>7. Picked(hdrs, rollback) \notin R
    <2>1. NoSlot \notin SlotIds
      BY DEF NoSlot, SlotIds
    <2> QED
      BY <1>4, <2>1, Zenon DEF Bad, Left, Failed
  <1>8. OnTrial(hdrs, rollback) =>
           Picked(hdrs, rollback) \in S /\ hdrs[Picked(hdrs, rollback)] \in Headers
    BY <1>4, <1>5, Zenon DEF Left, Unconfirmed, Is, HeaderValid, Hdrs
  <1> DEFINE r0 == Reject(hdrs, rollback, 0)
             r1 == Reject(hdrs, rollback, 1)
             t == IF OnTrial(hdrs, rollback)
                  THEN StateOps(Picked(hdrs, rollback), hdrs[Picked(hdrs, rollback)], "TESTING")
                  ELSE <<>>
  <1>9. Writes(<<>>, S, R) /\ S \in SUBSET SlotIds
    BY DEF Writes, Unconfirmed
  <1> HIDE DEF S, R
  <1>10. ASSUME NEW s \in SlotIds
         PROVE  /\ Writes(Reject(hdrs, rollback, s), S, R)
                /\ s \in Failed(hdrs, rollback) =>
                      1 \in DOMAIN Reject(hdrs, rollback, s) /\ Reject(hdrs, rollback, s)[1].slot = s
    BY <1>6, <1>9, WritesState, Zenon DEF Reject
  <1>11. Writes(r0, S, R) /\ Writes(r1, S, R) /\ Writes(t, S, R)
    BY <1>7, <1>8, <1>9, <1>10, WritesState, Zenon DEF SlotIds
  <1>12. Select(hdrs, rollback).ops = (r0 \o r1) \o t
    BY Zenon DEF Select
  <1> HIDE DEF r0, r1, t
  <1>13. Writes(Select(hdrs, rollback).ops, S, R)
    BY <1>11, <1>12, WritesConcat, Zenon
  <1>14. ASSUME NEW s \in Failed(hdrs, rollback)
         PROVE  \E i \in DOMAIN Select(hdrs, rollback).ops : Select(hdrs, rollback).ops[i].slot = s
    <2>1. r0 \in Seq(Ops) /\ r1 \in Seq(Ops) /\ t \in Seq(Ops)
      BY <1>11, Zenon DEF Writes
    <2>2. \E i \in DOMAIN (r0 \o r1) : (r0 \o r1)[i].slot = s
      <3>1. CASE s = 0
        BY <1>10, <1>14, <2>1, <3>1, Concat DEF r0, SlotIds
      <3>2. CASE s = 1
        <4>1. 1 \in DOMAIN r1 /\ r1[1].slot = 1
          BY <1>10, <1>14, <3>2, Zenon DEF r1, SlotIds
        <4>2. Len(r0) + 1 \in DOMAIN (r0 \o r1) /\ (r0 \o r1)[Len(r0) + 1] = r1[1]
          BY <2>1, <4>1, Concat
        <4> QED
          BY <3>2, <4>1, <4>2, Zenon
      <3> QED
        BY <1>14, <3>1, <3>2, Zenon DEF Failed, SlotIds
    <2> QED
      BY <1>12, <2>1, <2>2, Concat
  <1>15. \A s \in SlotIds : Marked(hdrs, rollback, s) \in Hdrs
    BY <1>6, <1>8, Zenon DEF Marked, Hdrs, Headers
  <1>16. \A s \in SlotIds : Is(hdrs[s], "CONFIRMED") =>
           Picked(hdrs, rollback) # NoSlot /\ Marked(hdrs, rollback, s) = hdrs[s]
    BY <1>4, <1>5, Zenon DEF Marked
  <1>17. Picked(hdrs, rollback) \in SlotIds \cup {NoSlot}
    BY <1>2, <1>4, Zenon
  <1> QED
    BY <1>7, <1>13, <1>14, <1>15, <1>16, <1>17, Zenon DEF Select, S, R
-----------------------------------------------------------------------------
(* The steps of the device. *)

Updates == [active : BOOLEAN, error : BOOLEAN, slot : SlotIds, version : Versions \cup {0},
            written : Nat, buf : Seq(Cells), intact : BOOLEAN, stale : SUBSET Offsets]

LEMMA InitIndInv == Init => IndInv
  <1> SUFFICES ASSUME Init PROVE IndInv
    BY Zenon
  <1> USE DEF Init
  <1>1. Header(1, "CONFIRMED") \in Headers /\ 1 \in Cells /\ Blank \in Cells
    BY FirmwareAssumption, Zenon DEF Header, Headers, Cells
  <1>2. flash \in [SlotIds -> [hdr : Headers \cup {Blank, Mix}, data : [Offsets -> Cells]]]
    <2>1. [i \in Offsets |-> 1] \in [Offsets -> Cells] /\ [i \in Offsets |-> Blank] \in [Offsets -> Cells]
      BY <1>1, Zenon
    <2> QED
      BY <1>1, <2>1, Zenon
  <1>3. upd \in Updates /\ Len(upd.buf) < PageSize /\ ~upd.active
    BY SlotsAssumption DEF NoUpdate, Inactive, Updates, SlotIds
  <1>4. mgr \in [hdr : [SlotIds -> Headers \cup {Blank, Mix}], active : SlotIds \cup {NoSlot}]
    BY Zenon DEF NoManager
  <1>5. TypeOK
    BY <1>2, <1>3, <1>4 DEF TypeOK, Updates, Calls, OtaStates
  <1>6. Kept(0)
    BY <1>1, <1>3, SlotsAssumption DEF Kept, Is, HeaderValid, Header, NoManager, NoSlot, SlotIds
  <1>7. TrialInv
    BY <1>3 DEF TrialInv, RecordInv, WriteInv, SpentInv, Spent
  <1> QED
    BY <1>3, <1>5, <1>6, <1>7, Zenon DEF IndInv, UpdateInv, StateInv, KeptInv, SlotIds

LEMMA TodoTail ==
  ASSUME todo \in Seq(Ops), todo # <<>>
  PROVE  /\ Head(todo) \in Ops /\ Head(todo) = todo[1] /\ 1 \in DOMAIN todo
         /\ Tail(todo) \in Seq(Ops)
         /\ \A i \in DOMAIN Tail(todo) : i + 1 \in DOMAIN todo /\ Tail(todo)[i] = todo[i + 1]
         /\ \A i \in DOMAIN todo : i > 1 => i - 1 \in DOMAIN Tail(todo)
  OBVIOUS

\* syn_ota_abort touches the slot of an active update only, and makes it invalid.
LEMMA AbortKeeps ==
  ASSUME TypeOK, OtaAbort
  PROVE  /\ todo' \in Seq(Ops) /\ upd' \in Updates /\ ~upd'.active
         /\ ota' \in OtaStates /\ ota' = "ERROR" /\ pc' = "abort"
         /\ \A i \in DOMAIN todo' : /\ upd.active /\ todo'[i].slot = upd.slot
                                    /\ todo'[i].op = "header" => todo'[i].hdr.state = "INVALID"
  <1>1. upd \in Updates
    BY Zenon DEF TypeOK, Updates
  <1>2. upd' \in Updates /\ ~upd'.active
    <2>1. Inactive(TRUE) \in Updates /\ ~Inactive(TRUE).active
      BY DEF Inactive, Updates, SlotIds
    <2>2. CASE upd.active
      BY <2>1, <2>2, Zenon DEF OtaAbort, Aborted
    <2>3. CASE ~upd.active
      BY <1>1, <2>3, Zenon DEF OtaAbort, Aborted
    <2> QED
      BY <2>2, <2>3, Zenon
  <1>3. Header(0, "INVALID") \in Headers
    BY Zenon DEF Header, Headers
  <1>4. EraseOp(upd.slot, 0) \in Ops /\ HeaderOp(upd.slot, Header(0, "INVALID")) \in Ops
    <2>1. upd.slot \in SlotIds
      BY <1>1, Zenon DEF Updates
    <2> QED
      BY <1>3, <2>1, EraseOpIs, Zenon DEF HeaderOp, Ops
  <1>5. /\ todo' \in Seq(Ops)
        /\ \A i \in DOMAIN todo' : /\ upd.active /\ todo'[i].slot = upd.slot
                                   /\ todo'[i].op = "header" => todo'[i].hdr.state = "INVALID"
    BY <1>4 DEF OtaAbort, AbortOps, EraseOp, HeaderOp, Header
  <1> QED
    BY <1>2, <1>5, Zenon DEF OtaAbort, OtaStates

\* The operations of flush_page are on the slot of the update, and write no header.
LEMMA FlushKeeps ==
  ASSUME NEW u \in Updates
  PROVE  /\ FlushOps(u) \in Seq(Ops) /\ Flushed(u) \in Updates
         /\ Flushed(u).slot = u.slot /\ Flushed(u).active = u.active
         /\ \A i \in DOMAIN FlushOps(u) : FlushOps(u)[i].slot = u.slot /\ FlushOps(u)[i].op # "header"
  <1>1. u.slot \in SlotIds /\ u.written \in Nat /\ u.buf \in Seq(Cells)
    BY Zenon DEF Updates
  <1>2. Sector(Address(u.written)) \in Int
    BY <1>1, SlotsAssumption DEF Sector, Address
  <1>3. EraseOp(u.slot, Address(u.written)) \in Ops /\ DataOp(u.slot, u.written, u.buf) \in Ops
    BY <1>1, <1>2, Zenon DEF EraseOp, DataOp, Ops
  <1>4. /\ FlushOps(u) \in Seq(Ops)
        /\ \A i \in DOMAIN FlushOps(u) : FlushOps(u)[i].slot = u.slot /\ FlushOps(u)[i].op # "header"
    <2> DEFINE e == EraseOp(u.slot, Address(u.written))
               d == DataOp(u.slot, u.written, u.buf)
    <2>1. FlushOps(u) = <<>> \/ FlushOps(u) = <<d>> \/ FlushOps(u) = <<e, d>>
      BY Zenon DEF FlushOps
    <2>2. e.slot = u.slot /\ d.slot = u.slot /\ e.op # "header" /\ d.op # "header"
      BY Zenon DEF EraseOp, DataOp
    <2>3. e \in Ops /\ d \in Ops
      BY <1>3, Zenon
    <2> HIDE DEF e, d
    <2>4. CASE FlushOps(u) = <<>>
      BY <2>4
    <2>5. CASE FlushOps(u) = <<d>>
      BY <2>2, <2>3, <2>5
    <2>6. CASE FlushOps(u) = <<e, d>>
      BY <2>2, <2>3, <2>6
    <2> QED
      BY <2>1, <2>4, <2>5, <2>6, Zenon
  <1>5. Flushed(u) \in Updates /\ Flushed(u).slot = u.slot /\ Flushed(u).active = u.active
    <2> DEFINE w == u.written + Len(u.buf)
               b == <<>>
    <2>1. w \in Nat /\ b \in Seq(Cells)
      BY <1>1
    <2>2. Flushed(u) = [u EXCEPT !.written = w, !.buf = b]
      BY Zenon DEF Flushed
    <2> HIDE DEF w, b
    <2> QED
      BY <2>1, <2>2, ZenonT(30) DEF Updates
  <1> QED
    BY <1>4, <1>5, Zenon

\* A slot that is kept stays so when nothing it depends on changes.
LEMMA KeptStays ==
  ASSUME NEW s \in SlotIds, Kept(s), flash'[s] = flash[s],
         \A i \in DOMAIN todo' : todo'[i].slot # s,
         upd'.active => upd'.slot # s,
         mgr'.active = s => Is(mgr'.hdr[s], "CONFIRMED")
  PROVE  Kept(s)'
  BY Zenon DEF Kept

\* Between the jump to an image and the next reset, none that had its chance is touched.
LEMMA TrialStays ==
  ASSUME TrialInv, pc \notin {"off", "select"}, pc' \notin {"off", "select"}, running' = running,
         mgr'.active \in {mgr.active, NoSlot}, tried' \subseteq tried, Spent' \subseteq Spent,
         \A s \in Spent : flash'[s] = flash[s],
         UNCHANGED <<record, counted>> \/ (~counted' /\ record' \in Records \cup {Blank}),
         upd'.active => /\ upd'.slot \notin Spent'
                        /\ Is(flash'[upd'.slot].hdr, "TESTING") =>
                              pc' = "begin" /\ todo' = BeginOps(upd'.slot),
         \A i \in DOMAIN todo' :
            /\ todo'[i].slot \notin Spent'
            /\ pc' # "confirm" /\ todo'[i].op = "header" =>
                  \/ todo'[i].hdr.state = "INVALID"
                  \/ todo'[i].hdr.state = "NEW" /\ upd'.active /\ todo'[i].slot = upd'.slot
  PROVE  TrialInv'
  <1>1. RecordInv'
    <2>1. CASE UNCHANGED <<record, counted>>
      BY <2>1, Zenon DEF TrialInv, RecordInv, Unhealthy
    <2>2. CASE ~counted' /\ record' \in Records \cup {Blank}
      BY <2>2, Zenon DEF TrialInv, RecordInv
    <2> QED
      BY <2>1, <2>2, Zenon
  <1>2. WriteInv'
    BY Zenon DEF TrialInv, WriteInv
  <1>3. ASSUME NEW s \in Spent'
        PROVE  /\ s \notin {running, mgr'.active} /\ flash'[s] = flash[s]
               /\ ~Is(flash[s].hdr, "NEW") /\ ~Is(flash[s].hdr, "CONFIRMED") /\ ~Is(flash[s].hdr, "TESTING")
    <2>1. s \in Spent /\ s # NoSlot
      BY <1>3 DEF TrialInv, RecordInv, Spent, SlotIds, NoSlot
    <2> QED
      BY <2>1, Zenon DEF TrialInv, SpentInv
  <1>4. SpentInv'
    BY <1>3 DEF SpentInv
  <1> QED
    BY <1>1, <1>2, <1>4, Zenon DEF TrialInv

\* A step of syn_fwboot_select drops the first k operations that are left: an image that had
\* its chance has been rejected by them, or will be by those that remain.
LEMMA SelectStays ==
  ASSUME IndInv, pc = "select", UNCHANGED <<upd, mgr, record, running, pc, counted, tried>>,
         Spent' \subseteq Spent, todo' \in Seq(Ops), NEW k \in {1, 2},
         \A i \in DOMAIN todo' : i + k \in DOMAIN todo /\ todo'[i] = todo[i + k],
         \A i \in DOMAIN todo : i > k => i - k \in DOMAIN todo',
         \A s \in Spent' :
            \/ flash'[s] = flash[s] /\ \A i \in DOMAIN todo : todo[i].slot = s => i > k
            \/ \A st \in {"NEW", "TESTING", "CONFIRMED"} : ~Is(flash'[s].hdr, st)
  PROVE  TrialInv'
  <1>1. todo \in Seq(Ops) /\ TrialInv /\ ~upd.active
    BY Zenon DEF IndInv, TypeOK, UpdateInv
  <1>2. \A i \in DOMAIN todo : i \in Nat
    BY <1>1
  <1>3. RecordInv'
    BY <1>1, Zenon DEF TrialInv, RecordInv, Unhealthy
  <1>4. ASSUME NEW i \in DOMAIN todo', todo'[i].op = "erase" PROVE todo'[i + 1].slot = todo'[i].slot
    <2>1. i + k \in DOMAIN todo /\ todo'[i] = todo[i + k]
      BY <1>4, Zenon
    <2>2. (i + k) + 1 \in DOMAIN todo /\ todo[(i + k) + 1].slot = todo[i + k].slot
      BY <1>1, <1>4, <2>1, Zenon DEF IndInv, StateInv, TrialInv, WriteInv
    <2>3. i \in Nat /\ ((i + k) + 1) - k = i + 1 /\ (i + k) + 1 = (i + 1) + k /\ (i + k) + 1 > k
      BY <1>4
    <2>4. i + 1 \in DOMAIN todo' /\ todo'[i + 1] = todo[(i + k) + 1]
      BY <2>2, <2>3
    <2> QED
      BY <2>1, <2>2, <2>4, Zenon
  <1>5. WriteInv'
    BY <1>1, <1>4, Zenon DEF WriteInv
  <1>6. ASSUME NEW s \in Spent', Is(flash'[s].hdr, "TESTING") PROVE \E i \in DOMAIN todo' : todo'[i].slot = s
    <2>1. flash'[s] = flash[s] /\ \A i \in DOMAIN todo : todo[i].slot = s => i > k
      BY <1>6, Zenon
    <2>2. PICK i \in DOMAIN todo : todo[i].slot = s
      BY <1>1, <1>6, <2>1, Zenon DEF TrialInv, SpentInv
    <2>3. i - k \in DOMAIN todo' /\ (i - k) + k = i
      BY <1>2, <2>1, <2>2
    <2> QED
      BY <2>2, <2>3, Zenon
  <1>7. ASSUME NEW s \in Spent'
        PROVE  /\ s \notin {running, mgr.active}
               /\ ~Is(flash'[s].hdr, "NEW") /\ ~Is(flash'[s].hdr, "CONFIRMED")
               /\ \A i \in DOMAIN todo' : todo'[i].slot = s => Rejects(todo'[i])
    BY <1>1, <1>7, Zenon DEF TrialInv, SpentInv
  <1>8. \A s \in Spent' : Is(flash'[s].hdr, "TESTING") => Unhealthy'
    <2>1. \A s \in Spent' : Is(flash'[s].hdr, "TESTING") => Unhealthy
      BY <1>1, Zenon DEF TrialInv, SpentInv
    <2> QED
      BY <2>1, Zenon DEF Unhealthy
  <1>9. SpentInv'
    BY <1>1, <1>6, <1>7, <1>8, Zenon DEF SpentInv
  <1> QED
    BY <1>3, <1>5, <1>9, Zenon DEF TrialInv

\* A flash operation of any other call touches no image that had its chance; and once an update
\* has erased the header of its slot, nothing makes that an image on trial.
LEMMA OperationSpares ==
  ASSUME IndInv, todo # <<>>, NEW o, o = Head(todo), Done(o) \/ CutOff(o), pc # "select"
  PROVE  /\ \A s \in Spent : flash'[s] = flash[s]
         /\ \A i \in DOMAIN todo : todo[i].slot \notin Spent
         /\ upd.active /\ Is(flash'[upd.slot].hdr, "TESTING") => pc = "begin" /\ o = EraseOp(upd.slot, 0)
  <1>1. TypeOK /\ TrialInv /\ UpdateInv /\ StateInv
    BY Zenon DEF IndInv
  <1>2. o \in Ops /\ o = todo[1] /\ 1 \in DOMAIN todo
    BY <1>1, TodoTail, Zenon DEF TypeOK
  <1>3. /\ \A s \in SlotIds \ {o.slot} : flash'[s] = flash[s]
        /\ \/ flash'[o.slot].hdr \in {flash[o.slot].hdr, Blank, Mix}
           \/ o.op = "header" /\ flash'[o.slot].hdr = o.hdr
    BY <1>1, <1>2, OperationFrame, Zenon
  <1>4. \A i \in DOMAIN todo : todo[i].slot \notin Spent
    BY <1>1, Zenon DEF TrialInv, SpentInv
  <1>5. \A s \in Spent : s \in SlotIds
    BY <1>1, Zenon DEF TrialInv, RecordInv, Spent
  <1>6. ASSUME upd.active, Is(flash'[upd.slot].hdr, "TESTING")
        PROVE  pc = "begin" /\ o = EraseOp(upd.slot, 0)
    <2>1. upd.slot \in SlotIds /\ upd.slot # mgr.active
      BY <1>1, <1>6, Zenon DEF TypeOK, UpdateInv
    <2>2. CASE Is(flash[upd.slot].hdr, "TESTING")
      BY <1>1, <1>6, <2>2 DEF TrialInv, WriteInv, BeginOps
    <2>3. CASE ~Is(flash[upd.slot].hdr, "TESTING")
      <3>1. o.slot = upd.slot /\ o.op = "header" /\ o.hdr.state = "TESTING"
        BY <1>3, <1>6, <2>1, <2>3, Zenon DEF Is, HeaderValid
      <3>2. pc # "confirm"
        BY <1>1, <1>2, <2>1, <3>1 DEF StateInv, HeaderOp, EraseOp
      <3> QED
        BY <1>1, <1>2, <3>1, <3>2, Zenon DEF TrialInv, WriteInv
    <2> QED
      BY <2>2, <2>3, Zenon
  <1> QED
    BY <1>2, <1>3, <1>4, <1>5, <1>6, Zenon

LEMMA PowerOnStep == IndInv /\ PowerOn => IndInv'
  <1> SUFFICES ASSUME IndInv, PowerOn PROVE IndInv'
    BY Zenon
  <1> DEFINE rollback == BootRecord.fail > 0
             sel == Select(ReadHeaders, rollback)
             S == Unconfirmed(ReadHeaders)
             R == Bad(ReadHeaders, rollback)
  <1> HIDE DEF rollback
  <1>1. ReadHeaders \in [SlotIds -> Hdrs] /\ \A s \in SlotIds : ReadHeaders[s] = flash[s].hdr
    BY Zenon DEF ReadHeaders, IndInv, TypeOK, Hdrs
  <1>2. /\ sel.active \in SlotIds \cup {NoSlot} /\ sel.hdr \in [SlotIds -> Hdrs]
        /\ Writes(sel.ops, S, R) /\ sel.active \notin R
        /\ \A s \in Failed(ReadHeaders, rollback) : \E i \in DOMAIN sel.ops : sel.ops[i].slot = s
        /\ \A s \in SlotIds : Is(ReadHeaders[s], "CONFIRMED") =>
              sel.active # NoSlot /\ sel.hdr[s] = ReadHeaders[s]
    BY <1>1, SelectKeeps
  <1>3. /\ pc = "off" /\ pc' = "select" /\ todo' = sel.ops
        /\ mgr' = [hdr |-> sel.hdr, active |-> sel.active]
        /\ UNCHANGED <<flash, upd, running, ota, chunk, gambled, tried, unmarked>>
        /\ record' \in {record, BootRecord} /\ (counted' => record' = BootRecord)
    <2>1. PICK saved \in BOOLEAN : BootInit(saved) /\ counted' = saved
      BY Zenon DEF PowerOn
    <2>2. record' \in {record, BootRecord} /\ (counted' => record' = BootRecord)
      BY <2>1 DEF BootInit
    <2> QED
      BY <2>2, Zenon DEF PowerOn, rollback
  <1> HIDE DEF sel, S, R
  <1>4. TypeOK'
    BY <1>2, <1>3, Zenon DEF IndInv, TypeOK, Writes, Hdrs, Calls
  <1>5. ~upd.active /\ UpdateInv'
    BY <1>3, Zenon DEF IndInv, UpdateInv
  <1>6. StateInv'
    BY <1>2, <1>3, Zenon DEF StateInv, Writes, Calls
  <1>7. ASSUME NEW s \in SlotIds, Kept(s) PROVE Kept(s)' /\ mgr'.active # NoSlot
    <2>1. Is(ReadHeaders[s], "CONFIRMED") /\ s \notin S
      BY <1>1, <1>7, Zenon DEF Kept, S, Unconfirmed
    <2>2. \A i \in DOMAIN todo' : todo'[i].slot # s
      BY <1>2, <1>3, <2>1, Zenon DEF Writes
    <2>3. mgr'.active # NoSlot /\ mgr'.hdr[s] = ReadHeaders[s]
      BY <1>2, <1>3, <2>1, Zenon
    <2>4. flash'[s] = flash[s] /\ ~upd'.active
      BY <1>3, <1>5, Zenon
    <2> QED
      BY <1>7, <2>1, <2>2, <2>3, <2>4, KeptStays, Zenon
  <1>8. KeptInv'
    BY <1>3, <1>7, Zenon DEF IndInv, KeptInv
  <1>9. /\ BootRecord \in Records /\ ~BootRecord.healthy
        /\ Unhealthy => rollback
    BY BootAssumption DEF IndInv, TrialInv, RecordInv, BootRecord, Records, Unhealthy, rollback
  <1>10. RecordInv' /\ (Unhealthy => Unhealthy')
    BY <1>3, <1>9, BootAssumption, Zenon DEF IndInv, TrialInv, RecordInv, Unhealthy
  <1>11. WriteInv'
    BY <1>2, <1>3, <1>5, Zenon DEF WriteInv, Writes
  <1>12. ASSUME NEW s \in Spent'
         PROVE  /\ s \notin {running', mgr'.active}
                /\ ~Is(flash'[s].hdr, "NEW") /\ ~Is(flash'[s].hdr, "CONFIRMED")
                /\ Is(flash'[s].hdr, "TESTING") => Unhealthy' /\ \E i \in DOMAIN todo' : todo'[i].slot = s
                /\ \A i \in DOMAIN todo' : todo'[i].slot = s => Rejects(todo'[i])
    <2>1. /\ s \in SlotIds /\ s # running
          /\ ~Is(flash[s].hdr, "NEW") /\ ~Is(flash[s].hdr, "CONFIRMED")
          /\ Is(flash[s].hdr, "TESTING") => Unhealthy /\ rollback
      BY <1>3, <1>9, <1>12, Zenon DEF IndInv, TrialInv, RecordInv, SpentInv, Spent
    <2>2. s \in R /\ (Is(flash[s].hdr, "TESTING") => s \in Failed(ReadHeaders, rollback))
      BY <1>1, <2>1, Zenon DEF R, Bad, Failed
    <2> QED
      BY <1>2, <1>3, <1>10, <2>1, <2>2, Zenon DEF Writes
  <1>13. TrialInv'
    BY <1>3, <1>5, <1>10, <1>11, <1>12, Zenon DEF TrialInv, SpentInv
  <1> QED
    BY <1>4, <1>5, <1>6, <1>8, <1>13, Zenon DEF IndInv

LEMMA JumpStep == IndInv /\ Jump => IndInv'
  <1> SUFFICES ASSUME IndInv, Jump PROVE IndInv'
    OBVIOUS
  <1>1. /\ pc = "select" /\ running' = mgr.active
        /\ pc' = IF mgr.active = NoSlot THEN "halt" ELSE "idle"
        /\ UNCHANGED <<flash, todo, upd, mgr, ota, chunk, gambled>>
        /\ todo = <<>> /\ UNCHANGED <<record, counted, tried, unmarked>>
    BY Zenon DEF Jump, history
  <1>2. TypeOK' /\ UpdateInv'
    BY <1>1, Zenon DEF IndInv, TypeOK, UpdateInv
  <1>3. StateInv'
    BY <1>1, Zenon DEF Jump, StateInv
  <1>4. KeptInv'
    BY <1>1, Zenon DEF IndInv, KeptInv, Kept
  <1>5. ~upd.active
    BY <1>1, Zenon DEF IndInv, UpdateInv
  <1>6. TrialInv'
    BY <1>1, <1>5 DEF IndInv, TrialInv, RecordInv, WriteInv, SpentInv, Spent, Unhealthy
  <1> QED
    BY <1>2, <1>3, <1>4, <1>6, Zenon DEF IndInv

\* The power fails in the middle of an operation on the other slot, or in none.
LEMMA PowerCutStep == IndInv /\ PowerCut => IndInv'
  <1> SUFFICES ASSUME IndInv, PowerCut PROVE IndInv'
    OBVIOUS
  <1>1. /\ pc' = "off" /\ todo' = <<>> /\ upd' = NoUpdate /\ mgr' = NoManager /\ running' = NoSlot
        /\ ota' = "IDLE" /\ chunk' = <<>> /\ gambled' = gambled
        /\ pc # "off" /\ ~counted' /\ UNCHANGED <<record, unmarked>>
    BY Zenon DEF PowerCut
  <1>2. /\ flash' \in [SlotIds -> Images]
        /\ \A s \in SlotIds : flash'[s] = flash[s] \/ (todo # <<>> /\ s = Head(todo).slot)
        /\ \A s \in SlotIds : \/ flash'[s].hdr \in {flash[s].hdr, Blank, Mix}
                              \/ /\ todo # <<>> /\ s = Head(todo).slot
                                 /\ Head(todo).op = "header" /\ flash'[s].hdr = Head(todo).hdr
    <2>1. CASE todo = <<>>
      <3>1. flash' = flash
        BY <2>1, Zenon DEF PowerCut
      <3>2. flash \in [SlotIds -> Images]
        BY Zenon DEF IndInv, TypeOK, Images, Hdrs
      <3> QED
        BY <3>1, <3>2, Zenon
    <2>2. CASE todo # <<>>
      <3> DEFINE o == Head(todo)
      <3>1. o \in Ops
        BY <2>2, TodoTail, Zenon DEF IndInv, TypeOK
      <3>2. Done(o) \/ CutOff(o)
        BY <2>2, Zenon DEF PowerCut
      <3> HIDE DEF o
      <3>3. /\ flash' \in [SlotIds -> Images]
            /\ \A s \in SlotIds \ {o.slot} : flash'[s] = flash[s]
            /\ \/ flash'[o.slot].hdr \in {flash[o.slot].hdr, Blank, Mix}
               \/ o.op = "header" /\ flash'[o.slot].hdr = o.hdr
        BY <3>1, <3>2, OperationFrame, Zenon DEF IndInv
      <3> QED
        BY <2>2, <3>3, Zenon DEF o
    <2> QED
      BY <2>1, <2>2, Zenon
  <1>3. upd' \in Updates /\ Len(upd'.buf) < PageSize /\ ~upd'.active
    BY <1>1, SlotsAssumption DEF NoUpdate, Inactive, Updates, SlotIds
  <1>4. /\ mgr' \in [hdr : [SlotIds -> Hdrs], active : SlotIds \cup {NoSlot}]
        /\ mgr'.active = NoSlot
    BY <1>1, Zenon DEF NoManager, Hdrs
  <1>5. TypeOK'
    <2>1. /\ pc' \in Calls \cup {"off", "halt", "idle"} /\ running' \in SlotIds \cup {NoSlot}
          /\ todo' \in Seq(Ops) /\ chunk' \in Seq(Cells) /\ ota' \in OtaStates
      BY <1>1 DEF OtaStates
    <2> QED
      BY <1>2, <1>3, <1>4, <2>1, Zenon DEF TypeOK, Images, Hdrs, Updates
  <1>6. UpdateInv' /\ StateInv'
    BY <1>1, <1>3, Zenon DEF UpdateInv, StateInv
  <1>7. ASSUME NEW s \in SlotIds, Kept(s) PROVE Kept(s)'
    <2>1. flash'[s] = flash[s]
      BY <1>2, <1>7, TodoTail, SMTT(20) DEF Kept, IndInv, TypeOK
    <2>2. NoSlot # s
      BY DEF NoSlot, SlotIds
    <2> QED
      BY <1>1, <1>3, <1>4, <1>7, <2>1, <2>2, KeptStays
  <1>8. KeptInv'
    BY <1>1, <1>7, Zenon DEF IndInv, KeptInv
  <1>9. todo # <<>> => Head(todo) = todo[1] /\ 1 \in DOMAIN todo
    BY TodoTail, Zenon DEF IndInv, TypeOK
  <1>10. ASSUME NEW s \in SlotIds, s = running, counted, Is(flash[s].hdr, "TESTING"),
                flash'[s].hdr \notin {flash[s].hdr, Blank, Mix}
         PROVE  flash'[s].hdr.state = "INVALID"
    <2> DEFINE o == Head(todo)
    <2>1. /\ todo # <<>> /\ o.slot = s /\ o.op = "header" /\ flash'[s].hdr = o.hdr
          /\ o = todo[1] /\ 1 \in DOMAIN todo
      BY <1>2, <1>9, <1>10, Zenon
    <2>2. pc # "select"
      BY <1>10 DEF IndInv, TrialInv, RecordInv, NoSlot, SlotIds
    <2>3. pc # "confirm"
      BY <1>10, <2>1 DEF IndInv, StateInv, EraseOp, HeaderOp, Is, HeaderValid
    <2>4. ~(upd.active /\ o.slot = upd.slot)
      <3> SUFFICES ASSUME upd.active, o.slot = upd.slot PROVE FALSE
        BY Zenon
      <3>1. todo = BeginOps(upd.slot)
        BY <1>10, <2>1, Zenon DEF IndInv, TrialInv, WriteInv
      <3>2. todo[1].op = "erase"
        BY <3>1, Zenon DEF BeginOps, EraseOp
      <3> QED
        BY <2>1, <3>2, Zenon
    <2> QED
      BY <2>1, <2>2, <2>3, <2>4 DEF IndInv, TrialInv, WriteInv
  <1>11. /\ tried' \subseteq SlotIds
         /\ \A s \in Spent' : /\ s \in SlotIds
                              /\ s \in Spent \/ (s = running /\ counted /\ Is(flash[s].hdr, "TESTING"))
    BY <1>1, Zenon DEF PowerCut, Spent, IndInv, TrialInv, RecordInv
  <1>12. ASSUME NEW s \in Spent'
         PROVE  /\ ~Is(flash'[s].hdr, "NEW") /\ ~Is(flash'[s].hdr, "CONFIRMED")
                /\ Is(flash'[s].hdr, "TESTING") => Unhealthy
    <2>1. CASE s \in Spent
      <3>1. \/ flash'[s].hdr \in {flash[s].hdr, Blank, Mix}
            \/ flash'[s].hdr.state = "INVALID"
        <4>1. s \in SlotIds /\ \A i \in DOMAIN todo : todo[i].slot = s => Rejects(todo[i])
          BY <1>11, <1>12, <2>1, Zenon DEF IndInv, TrialInv, SpentInv
        <4>2. ASSUME todo # <<>>, Head(todo).slot = s, Head(todo).op = "header"
              PROVE  Head(todo).hdr.state = "INVALID"
          <5>1. Rejects(Head(todo))
            BY <1>9, <4>1, <4>2, Zenon
          <5> QED
            BY <4>2, <5>1, Zenon DEF Rejects
        <4> QED
          BY <1>2, <4>1, <4>2, Zenon
      <3> QED
        BY <1>1, <2>1, <3>1, Zenon DEF IndInv, TrialInv, RecordInv, SpentInv, Is, HeaderValid
    <2>2. CASE s = running /\ counted /\ Is(flash[s].hdr, "TESTING")
      BY <1>1, <1>10, <1>11, <1>12, <2>2, Zenon DEF IndInv, TrialInv, RecordInv, Is, HeaderValid
    <2> QED
      BY <1>11, <1>12, <2>1, <2>2, Zenon
  <1>13. TrialInv'
    <2>1. RecordInv'
      BY <1>1, <1>11, Zenon DEF IndInv, TrialInv, RecordInv
    <2>2. WriteInv'
      BY <1>1, <1>3 DEF WriteInv
    <2>3. NoSlot \notin SlotIds
      BY DEF NoSlot, SlotIds
    <2>4. SpentInv'
      BY <1>1, <1>3, <1>4, <1>11, <1>12, <2>3 DEF SpentInv, Unhealthy
    <2> QED
      BY <2>1, <2>2, <2>4, Zenon DEF TrialInv
  <1> QED
    BY <1>5, <1>6, <1>8, <1>13, Zenon DEF IndInv
-----------------------------------------------------------------------------
\* A flash operation of a call completes.
LEMMA FlashStepStep == IndInv /\ FlashStep => IndInv'
  <1> SUFFICES ASSUME IndInv, FlashStep PROVE IndInv'
    BY Zenon
  <1> DEFINE o == Head(todo)
  <1>1. /\ todo # <<>> /\ Done(o) /\ todo' = Tail(todo)
        /\ UNCHANGED <<upd, mgr, running, pc, ota, chunk, gambled, record, counted, tried, unmarked>>
    BY Zenon DEF FlashStep, boot, history
  <1>2. /\ o \in Ops /\ o = todo[1] /\ 1 \in DOMAIN todo /\ Tail(todo) \in Seq(Ops)
        /\ \A i \in DOMAIN Tail(todo) : i + 1 \in DOMAIN todo /\ Tail(todo)[i] = todo[i + 1]
        /\ \A i \in DOMAIN todo : i > 1 => i - 1 \in DOMAIN Tail(todo)
    BY <1>1, TodoTail, Zenon DEF IndInv, TypeOK
  <1>3. /\ flash' \in [SlotIds -> Images]
        /\ \A s \in SlotIds \ {o.slot} : flash'[s] = flash[s]
    BY <1>1, <1>2, OperationFrame, SMTT(20) DEF IndInv
  <1>4. TypeOK'
    BY <1>1, <1>2, <1>3, Zenon DEF IndInv, TypeOK, Images, Hdrs
  <1>5. UpdateInv'
    BY <1>1, Zenon DEF IndInv, UpdateInv
  <1>6. ASSUME pc = "select", NEW i \in DOMAIN todo', todo'[i].op = "erase"
        PROVE  i + 1 \in DOMAIN todo'
    <2>1. i \in Nat /\ i + 1 \in DOMAIN todo /\ todo'[i] = todo[i + 1]
      BY <1>1, <1>2, <1>6 DEF IndInv, TypeOK
    <2>2. (i + 1) + 1 \in DOMAIN todo
      BY <1>6, <2>1, Zenon DEF IndInv, StateInv
    <2>3. ((i + 1) + 1) - 1 \in DOMAIN todo'
      BY <1>1, <1>2, <2>1, <2>2
    <2> QED
      BY <2>1, <2>3
  <1>7. ASSUME pc = "confirm"
        PROVE  /\ mgr.active \in SlotIds
               /\ \E h \in Headers :
                     /\ h.state = "CONFIRMED"
                     /\ \/ todo' = <<HeaderOp(mgr.active, h)>> /\ flash'[mgr.active].hdr = Blank
                        \/ todo' = <<>> /\ flash'[mgr.active].hdr = h
    <2>1. mgr.active \in SlotIds
      BY <1>7, Zenon DEF IndInv, StateInv
    <2>2. PICK h \in Headers :
            /\ h.state = "CONFIRMED"
            /\ \/ todo = <<EraseOp(mgr.active, 0), HeaderOp(mgr.active, h)>>
               \/ todo = <<HeaderOp(mgr.active, h)>> /\ flash[mgr.active].hdr = Blank
      BY <1>1, <1>7, Zenon DEF IndInv, StateInv
    <2>3. CASE todo = <<EraseOp(mgr.active, 0), HeaderOp(mgr.active, h)>>
      <3>1. o = EraseOp(mgr.active, 0) /\ todo' = <<HeaderOp(mgr.active, h)>>
        BY <1>1, <2>3
      <3> QED
        BY <1>1, <2>1, <2>2, <3>1, EraseDone, Zenon DEF IndInv
    <2>4. CASE todo = <<HeaderOp(mgr.active, h)>> /\ flash[mgr.active].hdr = Blank
      <3>1. o = HeaderOp(mgr.active, h) /\ todo' = <<>>
        BY <1>1, <2>4
      <3> QED
        BY <1>1, <2>1, <2>2, <2>4, <3>1, HeaderDone, Zenon DEF IndInv
    <2> QED
      BY <2>1, <2>2, <2>3, <2>4, Zenon
  <1>8. StateInv'
    BY <1>1, <1>6, <1>7, Zenon DEF IndInv, StateInv
  <1>9. ASSUME NEW s \in SlotIds, Kept(s) PROVE Kept(s)'
    <2>1. o.slot # s /\ \A i \in DOMAIN todo' : todo'[i].slot # s
      BY <1>1, <1>2, <1>9, Zenon DEF Kept
    <2> QED
      BY <1>1, <1>3, <1>9, <2>1, KeptStays, Zenon DEF Kept
  <1>10. KeptInv'
    BY <1>1, <1>9, Zenon DEF IndInv, KeptInv
  <1>11. TypeOK /\ TrialInv /\ Spent' = Spent
    BY <1>1, Zenon DEF IndInv, Spent
  <1>12. ASSUME pc = "select" PROVE TrialInv'
    <2>1. ASSUME NEW s \in Spent
          PROVE  \/ flash'[s] = flash[s] /\ \A i \in DOMAIN todo : todo[i].slot = s => i > 1
                 \/ \A st \in {"NEW", "TESTING", "CONFIRMED"} : ~Is(flash'[s].hdr, st)
      <3>1. CASE o.slot = s
        BY <1>1, <1>2, <1>11, <2>1, <3>1, RejectDone DEF TrialInv, SpentInv
      <3>2. CASE o.slot # s
        <4>1. flash'[s] = flash[s]
          BY <1>3, <1>11, <2>1, <3>2, Zenon DEF TrialInv, RecordInv, Spent
        <4>2. \A i \in DOMAIN todo : i # 1 => i > 1
          BY <1>11 DEF TypeOK
        <4> QED
          BY <1>2, <3>2, <4>1, <4>2, Zenon
      <3> QED
        BY <3>1, <3>2, Zenon
    <2>2. /\ todo' \in Seq(Ops)
          /\ \A i \in DOMAIN todo' : i + 1 \in DOMAIN todo /\ todo'[i] = todo[i + 1]
          /\ \A i \in DOMAIN todo : i > 1 => i - 1 \in DOMAIN todo'
      BY <1>1, <1>2, Zenon
    <2>3. 1 \in {1, 2} /\ Spent' \subseteq Spent
      BY <1>11, Zenon
    <2> HIDE DEF o
    <2> QED
      BY <1>1, <1>11, <1>12, <2>1, <2>2, <2>3, SelectStays, Zenon
  <1>13. ASSUME pc # "select" PROVE TrialInv'
    <2>1. /\ \A s \in Spent : flash'[s] = flash[s]
          /\ \A i \in DOMAIN todo : todo[i].slot \notin Spent
          /\ upd.active => ~Is(flash'[upd.slot].hdr, "TESTING")
      <3>1. Done(EraseOp(upd.slot, 0)) => flash'[upd.slot].hdr = Blank
        BY <1>11, EraseDone, Zenon DEF TypeOK
      <3> QED
        BY <1>1, <1>13, <3>1, OperationSpares, Zenon DEF Is, HeaderValid
    <2>2. \A i \in DOMAIN todo' :
            /\ todo'[i].slot \notin Spent
            /\ pc # "confirm" /\ todo'[i].op = "header" =>
                  \/ todo'[i].hdr.state = "INVALID"
                  \/ todo'[i].hdr.state = "NEW" /\ upd.active /\ todo'[i].slot = upd.slot
      BY <1>1, <1>2, <1>11, <1>13, <2>1 DEF TrialInv, WriteInv
    <2>3. pc # "off" /\ (upd.active => upd.slot \notin Spent)
      BY <1>1, <1>11, Zenon DEF IndInv, StateInv, Calls, TrialInv, SpentInv
    <2> QED
      BY <1>1, <1>11, <1>13, <2>1, <2>2, <2>3, TrialStays, Zenon
  <1> QED
    BY <1>4, <1>5, <1>8, <1>10, <1>12, <1>13, Zenon DEF IndInv
-----------------------------------------------------------------------------
(* The calls of the application. *)

LEMMA StutterStep == IndInv /\ UNCHANGED vars => IndInv'
  <1> SUFFICES ASSUME IndInv, UNCHANGED vars PROVE IndInv'
    BY Zenon
  <1>1. UNCHANGED <<flash, todo, upd, mgr, record, pc, running, ota, chunk, gambled,
                    tried, counted, unmarked>>
    BY Zenon DEF vars, history
  <1>2. TypeOK' /\ UpdateInv' /\ StateInv'
    BY <1>1 DEF IndInv, TypeOK, UpdateInv, StateInv
  <1>3. KeptInv'
    BY <1>1, Zenon DEF IndInv, KeptInv, Kept
  <1>4. TrialInv'
    BY <1>1 DEF IndInv, TrialInv, RecordInv, WriteInv, SpentInv, Spent, Unhealthy
  <1> QED
    BY <1>2, <1>3, <1>4, Zenon DEF IndInv

\* What all of them but syn_fwboot_confirm and syn_ota_begin have in common, with what an error
\* of the flash makes of a call: they write to the slot of the update that is active, or finish
\* what was to be done, and only refresh the manager or set up a new one.
LEMMA StepKeeps ==
  ASSUME IndInv, UNCHANGED <<running, gambled>>, flash' \in [SlotIds -> Images],
         \A s \in SlotIds : flash'[s] = flash[s] \/ (todo # <<>> /\ s = Head(todo).slot),
         chunk' \in Seq(Cells), ota' \in OtaStates,
         todo' \in Seq(Ops),
         \A i \in DOMAIN todo' : \/ upd.active /\ todo'[i].slot = upd.slot
                                 \/ \E j \in DOMAIN todo : todo'[i].slot = todo[j].slot,
         upd' \in Updates, Len(upd'.buf) < PageSize,
         upd'.active => upd.active /\ upd'.slot = upd.slot,
         \/ mgr' = mgr
         \/ mgr'.active \in {mgr.active, NoSlot} /\ mgr' = [hdr |-> ReadHeaders, active |-> mgr'.active],
         pc # "off", pc' \in Calls \cup {"idle"}, pc' = "select" => mgr' = mgr,
         pc = "select" <=> pc' = "select",
         ota' \in {"DOWNLOADING", "DOWNLOADED", "VERIFYING"} => upd'.active,
         pc' \in {"begin", "chunk", "flush", "finish"} => upd'.active
  PROVE  TypeOK' /\ UpdateInv' /\ KeptInv'
  <1>1. ReadHeaders \in [SlotIds -> Hdrs] /\ \A s \in SlotIds : ReadHeaders[s] = flash[s].hdr
    BY Zenon DEF ReadHeaders, IndInv, TypeOK, Hdrs
  <1>2. /\ mgr' \in [hdr : [SlotIds -> Hdrs], active : SlotIds \cup {NoSlot}]
        /\ mgr'.active \in {mgr.active, NoSlot}
        /\ mgr' = mgr \/ mgr'.hdr = ReadHeaders
    BY <1>1 DEF IndInv, TypeOK, Hdrs
  <1>3. TypeOK'
    BY <1>2, Zenon DEF IndInv, TypeOK, Hdrs, Images, Updates, Calls
  <1>4. NoSlot \notin SlotIds
    BY DEF SlotIds, NoSlot
  <1>5. UpdateInv'
    <2>1. upd'.active => upd'.slot \in SlotIds
      BY Zenon DEF Updates
    <2> QED
      BY <1>2, <1>4, <2>1, Zenon DEF IndInv, UpdateInv, Calls
  <1>6. ASSUME NEW s \in SlotIds, Kept(s) PROVE Kept(s)'
    <2>1. mgr'.active = s => Is(mgr'.hdr[s], "CONFIRMED")
      BY <1>1, <1>2, <1>4, <1>6 DEF Kept
    <2>2. todo # <<>> => Head(todo) = todo[1] /\ 1 \in DOMAIN todo
      BY TodoTail, Zenon DEF IndInv, TypeOK
    <2>3. flash'[s] = flash[s]
      BY <1>6, <2>2, Zenon DEF Kept
    <2>4. \A i \in DOMAIN todo' : todo'[i].slot # s
      BY <1>6, Zenon DEF Kept
    <2> QED
      BY <1>6, <2>1, <2>3, <2>4, KeptStays, Zenon DEF Kept
  <1>7. KeptInv'
    BY <1>6, Zenon DEF IndInv, KeptInv, Calls
  <1> QED
    BY <1>3, <1>5, <1>7, Zenon

LEMMA CallKeeps ==
  ASSUME IndInv, UNCHANGED <<flash, running, gambled, tried, unmarked>>, pc \notin {"off", "select"},
         UNCHANGED <<record, counted>> \/ (~counted' /\ record' \in Records \cup {Blank}), pc = "begin" => todo = <<>>,
         chunk' \in Seq(Cells), ota' \in OtaStates,
         todo' \in Seq(Ops),
         \A i \in DOMAIN todo' : /\ upd.active /\ todo'[i].slot = upd.slot
                                 /\ todo'[i].op = "header" =>
                                       \/ todo'[i].hdr.state = "INVALID"
                                       \/ todo'[i].hdr.state = "NEW" /\ upd'.active,
         upd' \in Updates, Len(upd'.buf) < PageSize,
         upd'.active => upd.active /\ upd'.slot = upd.slot,
         \/ mgr' = mgr
         \/ mgr'.active \in {mgr.active, NoSlot} /\ mgr' = [hdr |-> ReadHeaders, active |-> mgr'.active],
         pc' \in {"idle", "begin", "chunk", "flush", "finish", "abort"}, pc' = "idle" => todo' = <<>>,
         ota' \in {"DOWNLOADING", "DOWNLOADED", "VERIFYING"} => upd'.active,
         pc' \in {"begin", "chunk", "flush", "finish"} => upd'.active
  PROVE  IndInv'
  <1>1. flash' \in [SlotIds -> Images]
    BY Zenon DEF IndInv, TypeOK, Images, Hdrs
  <1>2. StateInv'
    BY Zenon DEF StateInv, Calls
  <1>3. TrialInv /\ Spent' = Spent /\ (upd.active => upd.slot \notin Spent)
    BY Zenon DEF IndInv, TrialInv, SpentInv, Spent
  <1>4. upd.active => ~Is(flash[upd.slot].hdr, "TESTING")
    BY <1>3 DEF TrialInv, WriteInv, BeginOps
  <1>5. mgr'.active \in {mgr.active, NoSlot}
    BY Zenon
  <1>6. TrialInv'
    BY <1>3, <1>4, <1>5, TrialStays, Zenon
  <1> QED
    BY <1>1, <1>2, <1>6, StepKeeps, Zenon DEF IndInv, Calls

\* What the calls find in place.
LEMMA CallState ==
  ASSUME IndInv
  PROVE  /\ chunk \in Seq(Cells) /\ ota \in OtaStates
         /\ upd \in Updates /\ Len(upd.buf) < PageSize
         /\ ota \in {"DOWNLOADING", "DOWNLOADED", "VERIFYING"} => upd.active
         /\ pc \in {"begin", "chunk", "flush", "finish"} => upd.active
         /\ pc = "idle" => todo = <<>>
  BY Zenon DEF IndInv, TypeOK, Updates, UpdateInv, StateInv, Calls

\* What each call does with an error of the flash.
LEMMA FlashErrorStep == IndInv /\ FlashError => IndInv'
  <1> SUFFICES ASSUME IndInv, FlashError PROVE IndInv'
    OBVIOUS
  <1>1. /\ todo # <<>> /\ CutOff(Head(todo)) /\ chunk' = <<>>
        /\ UNCHANGED <<mgr, running, gambled, record, counted, tried>>
    BY Zenon DEF FlashError, boot
  <1>2. /\ Head(todo) \in Ops /\ Head(todo) = todo[1] /\ 1 \in DOMAIN todo /\ Tail(todo) \in Seq(Ops)
        /\ \A i \in DOMAIN Tail(todo) : i + 1 \in DOMAIN todo /\ Tail(todo)[i] = todo[i + 1]
        /\ \A i \in DOMAIN todo : i > 1 => i - 1 \in DOMAIN Tail(todo)
    BY <1>1, TodoTail, Zenon DEF IndInv, TypeOK
  <1>3. TypeOK /\ upd \in Updates /\ Len(upd.buf) < PageSize /\ pc \in Calls
    BY <1>1, Zenon DEF IndInv, TypeOK, Updates, StateInv
  <1>4. /\ flash' \in [SlotIds -> Images]
        /\ \A s \in SlotIds : flash'[s] = flash[s] \/ (todo # <<>> /\ s = Head(todo).slot)
    BY <1>1, <1>2, <1>3, OperationFrame, Zenon
  <1>5. chunk' \in Seq(Cells)
    BY <1>1
  <1>6. ASSUME pc # "select", unmarked' = unmarked, pc' \notin {"off", "select", "confirm"},
               upd'.active => upd' = upd /\ pc # "begin",
               \A i \in DOMAIN todo' :
                  /\ todo'[i].slot \notin Spent
                  /\ todo'[i].op = "header" =>
                        \/ todo'[i].hdr.state = "INVALID"
                        \/ todo'[i].hdr.state = "NEW" /\ upd'.active /\ todo'[i].slot = upd'.slot
        PROVE  TrialInv'
    <2>1. TrialInv /\ Spent' = Spent /\ pc # "off" /\ (upd.active => upd.slot \notin Spent)
      BY <1>1, <1>3, <1>6, Zenon DEF IndInv, TrialInv, SpentInv, Spent, Calls
    <2>2. /\ \A s \in Spent : flash'[s] = flash[s]
          /\ upd'.active => ~Is(flash'[upd'.slot].hdr, "TESTING")
      BY <1>1, <1>6, OperationSpares, Zenon
    <2> QED
      BY <1>1, <1>6, <2>1, <2>2, TrialStays, Zenon
  <1>7. CASE pc = "select"
    <2>1. /\ todo' = IF Head(todo).op = "erase" THEN Tail(Tail(todo)) ELSE Tail(todo)
          /\ UNCHANGED <<upd, ota, pc>>
      BY <1>7, Zenon DEF FlashError
    <2>2. \A i \in DOMAIN todo : todo[i].op = "erase" => i + 1 \in DOMAIN todo
      BY <1>7, Zenon DEF IndInv, StateInv
    <2>3. PICK k \in {1, 2} :
            /\ todo' \in Seq(Ops)
            /\ \A i \in DOMAIN todo' : i + k \in DOMAIN todo /\ todo'[i] = todo[i + k]
            /\ \A i \in DOMAIN todo : i > k => i - k \in DOMAIN todo'
            /\ k = 2 => Head(todo).op = "erase"
      <3>1. CASE Head(todo).op = "erase"
        <4>1. todo \in Seq(Ops) /\ 1 + 1 \in DOMAIN todo /\ todo' = Tail(Tail(todo))
          BY <1>2, <2>1, <2>2, <3>1, SMTT(20) DEF IndInv, TypeOK
        <4>2. /\ Tail(Tail(todo)) \in Seq(Ops)
              /\ \A i \in DOMAIN Tail(Tail(todo)) :
                    i + 2 \in DOMAIN todo /\ Tail(Tail(todo))[i] = todo[i + 2]
              /\ \A i \in DOMAIN todo : i > 2 => i - 2 \in DOMAIN Tail(Tail(todo))
          <5> DEFINE t == Tail(todo)
          <5>1. todo # <<>> /\ Len(todo) >= 2
            BY <4>1
          <5>2. /\ t \in Seq(Ops) /\ Len(t) = Len(todo) - 1
                /\ \A i \in 1 .. Len(t) : t[i] = todo[i + 1]
            BY <4>1, <5>1
          <5> HIDE DEF t
          <5>3. /\ Tail(t) \in Seq(Ops) /\ Len(Tail(t)) = Len(todo) - 2
                /\ \A i \in 1 .. Len(Tail(t)) : Tail(t)[i] = t[i + 1] /\ i + 1 \in 1 .. Len(t)
            BY <4>1, <5>1, <5>2
          <5>4. \A i \in 1 .. Len(Tail(t)) : Tail(t)[i] = todo[i + 2]
            BY <4>1, <5>2, <5>3
          <5>5. DOMAIN todo = 1 .. Len(todo) /\ DOMAIN Tail(t) = 1 .. Len(Tail(t)) /\ Len(todo) \in Nat
            BY <4>1, <5>3
          <5>6. /\ \A i \in DOMAIN Tail(t) : i + 2 \in DOMAIN todo
                /\ \A i \in DOMAIN todo : i > 2 => i - 2 \in DOMAIN Tail(t)
            BY <5>3, <5>5
          <5> QED
            BY <5>3, <5>4, <5>5, <5>6, SMTT(30) DEF t
        <4> QED
          BY <3>1, <4>1, <4>2, Zenon
      <3>2. CASE Head(todo).op # "erase"
        BY <1>2, <2>1, <3>2
      <3> QED
        BY <3>1, <3>2, Zenon
    <2>4. ASSUME NEW i \in DOMAIN todo', todo'[i].op = "erase" PROVE i + 1 \in DOMAIN todo'
      <3>1. i \in Nat /\ i + k \in DOMAIN todo /\ todo'[i] = todo[i + k]
        BY <2>3, <2>4
      <3>2. (i + k) + 1 \in DOMAIN todo
        BY <2>2, <2>4, <3>1, Zenon
      <3>3. ((i + k) + 1) - k \in DOMAIN todo'
        BY <2>3, <3>1, <3>2
      <3> QED
        BY <2>3, <3>1, <3>3
    <2>5. StateInv'
      BY <1>7, <2>1, <2>4, Zenon DEF StateInv, Calls
    <2>6. /\ unmarked' = unmarked \cup {Head(todo).slot} /\ Spent' = Spent \ {Head(todo).slot}
          /\ Spent \subseteq SlotIds
      BY <1>1, <1>7, Zenon DEF FlashError, Spent, IndInv, TrialInv, RecordInv
    <2>7. ASSUME NEW s \in Spent', NEW i \in DOMAIN todo, todo[i].slot = s PROVE i > k
      <3>1. k = 2 => todo[1 + 1].slot = todo[1].slot
        BY <1>2, <1>7, <2>3, Zenon DEF IndInv, TrialInv, WriteInv
      <3>2. i # 1 /\ (k = 2 => i # 1 + 1)
        BY <1>2, <2>6, <2>7, <3>1, Zenon
      <3>3. i \in Nat \ {0}
        BY DEF IndInv, TypeOK
      <3> QED
        BY <2>3, <3>2, <3>3
    <2>8. TrialInv'
      <3>1. \A s \in Spent' : flash'[s] = flash[s]
        BY <1>4, <2>6, Zenon
      <3> QED
        BY <1>1, <1>7, <2>1, <2>3, <2>6, <2>7, <3>1, SelectStays, Zenon
    <2> QED
      BY <1>1, <1>3, <1>4, <1>5, <1>7, <2>1, <2>3, <2>5, <2>8, CallState, StepKeeps, Zenon DEF IndInv
  <1>8. CASE pc = "abort"
    <2>1. todo' = Tail(todo) /\ UNCHANGED <<upd, ota, pc, unmarked>>
      BY <1>8, Zenon DEF FlashError
    <2>2. StateInv'
      BY <1>8, <2>1, Zenon DEF StateInv, Calls
    <2>3. TrialInv'
      <3>1. \A i \in DOMAIN todo :
               /\ todo[i].slot \notin Spent
               /\ todo[i].op = "header" =>
                     \/ todo[i].hdr.state = "INVALID"
                     \/ todo[i].hdr.state = "NEW" /\ upd.active /\ todo[i].slot = upd.slot
        BY <1>8, Zenon DEF IndInv, TrialInv, WriteInv, SpentInv
      <3>2. \A i \in DOMAIN todo' : i + 1 \in DOMAIN todo /\ todo'[i] = todo[i + 1]
        BY <1>2, <2>1, Zenon
      <3> QED
        BY <1>6, <1>8, <2>1, <3>1, <3>2
    <2> QED
      BY <1>1, <1>2, <1>3, <1>4, <1>5, <1>8, <2>1, <2>2, <2>3, CallState, StepKeeps, Zenon DEF IndInv
  <1>9. CASE pc = "confirm"
    <2>1. todo' = <<>> /\ pc' = "idle" /\ UNCHANGED <<upd, ota, unmarked>>
      BY <1>9, Zenon DEF FlashError
    <2>2. StateInv'
      BY <2>1, Zenon DEF StateInv
    <2>3. TrialInv'
      BY <1>6, <1>9, <2>1
    <2> QED
      BY <1>1, <1>3, <1>4, <1>5, <1>9, <2>1, <2>2, <2>3, CallState, StepKeeps DEF IndInv
  <1>10. CASE pc = "begin"
    <2>1. /\ todo' = <<>> /\ pc' = "idle" /\ ota' = "ERROR" /\ upd' = Aborted(upd)
          /\ unmarked' = unmarked
      BY <1>10, Zenon DEF FlashError
    <2>2. upd.active
      BY <1>10, CallState, Zenon
    <2>3. upd' \in Updates /\ Len(upd'.buf) < PageSize /\ ~upd'.active
      BY <2>1, <2>2, SlotsAssumption DEF Aborted, Inactive, Updates, SlotIds
    <2>4. ota' \in OtaStates /\ ota' = "ERROR"
      BY <2>1, Zenon DEF OtaStates
    <2>5. StateInv'
      BY <2>1, Zenon DEF StateInv
    <2>6. TrialInv'
      BY <1>6, <1>10, <2>1, <2>3
    <2> QED
      BY <1>1, <1>3, <1>4, <1>5, <1>10, <2>1, <2>3, <2>4, <2>5, <2>6, StepKeeps DEF IndInv
  <1>11. CASE pc \in {"chunk", "flush", "finish"}
    <2>1. OtaAbort /\ unmarked' = unmarked
      BY <1>11, Zenon DEF FlashError
    <2>2. Len(upd'.buf) < PageSize
      BY <1>3, <2>1, SlotsAssumption DEF OtaAbort, Aborted, Inactive
    <2>3. /\ todo' \in Seq(Ops) /\ upd' \in Updates /\ ~upd'.active
          /\ ota' \in OtaStates /\ ota' = "ERROR" /\ pc' = "abort"
          /\ \A i \in DOMAIN todo' : /\ upd.active /\ todo'[i].slot = upd.slot
                                     /\ todo'[i].op = "header" => todo'[i].hdr.state = "INVALID"
      BY <1>3, <2>1, AbortKeeps, Zenon
    <2>4. StateInv'
      BY <2>3, Zenon DEF StateInv, Calls
    <2>5. TrialInv'
      <3>1. upd.active => upd.slot \notin Spent
        BY Zenon DEF IndInv, TrialInv, SpentInv
      <3> QED
        BY <1>6, <1>11, <2>1, <2>3, <3>1, Zenon
    <2> QED
      BY <1>1, <1>3, <1>4, <1>5, <1>11, <2>2, <2>3, <2>4, <2>5, StepKeeps, Zenon DEF IndInv, Calls
  <1> QED
    BY <1>3, <1>7, <1>8, <1>9, <1>10, <1>11, Zenon DEF Calls

LEMMA AbortStep ==
  ASSUME IndInv, OtaAbort, pc \notin {"off", "select", "begin"},
         UNCHANGED <<flash, running, gambled, mgr, record, counted, tried, unmarked>>,
         chunk' \in Seq(Cells)
  PROVE  IndInv'
  <1>1. Len(upd'.buf) < PageSize
    BY CallState, SlotsAssumption DEF OtaAbort, Aborted, Inactive
  <1>2. TypeOK
    BY Zenon DEF IndInv
  <1>3. /\ todo' \in Seq(Ops) /\ upd' \in Updates /\ ~upd'.active
        /\ ota' \in OtaStates /\ ota' = "ERROR" /\ pc' = "abort"
        /\ \A i \in DOMAIN todo' : /\ upd.active /\ todo'[i].slot = upd.slot
                                   /\ todo'[i].op = "header" => todo'[i].hdr.state = "INVALID"
    BY <1>2, AbortKeeps, Zenon
  <1> QED
    BY <1>1, <1>3, CallKeeps, Zenon

LEMMA AppMarkHealthyStep == IndInv /\ AppMarkHealthy => IndInv'
  <1> SUFFICES ASSUME IndInv, AppMarkHealthy PROVE IndInv'
    OBVIOUS
  <1>1. /\ pc = "idle"
        /\ UNCHANGED <<flash, todo, upd, mgr, pc, running, ota, chunk, gambled, tried, unmarked>>
        /\ ~counted' /\ record' \in {record, Healthy}
    BY Zenon DEF AppMarkHealthy, MarkHealthy, ClearSafeMode
  <1>2. record' \in Records \cup {Blank}
    <2>1. record \in Records \cup {Blank} /\ Healthy \in Records
      BY DEF Records, Healthy, IndInv, TrialInv, RecordInv
    <2> QED
      BY <1>1, <2>1, Zenon
  <1> QED
    BY <1>1, <1>2, CallState, CallKeeps

LEMMA AppBootInitStep == IndInv /\ AppBootInit => IndInv'
  <1> SUFFICES ASSUME IndInv, AppBootInit PROVE IndInv'
    OBVIOUS
  <1>1. /\ pc = "idle" /\ mgr' = [hdr |-> ReadHeaders, active |-> NoSlot]
        /\ UNCHANGED <<flash, todo, upd, pc, running, ota, chunk, gambled, record, counted, tried, unmarked>>
    BY Zenon DEF AppBootInit, history
  <1> QED
    BY <1>1, CallState, CallKeeps

LEMMA ApplyStep == IndInv /\ Apply => IndInv'
  <1> SUFFICES ASSUME IndInv, Apply PROVE IndInv'
    OBVIOUS
  <1>1. /\ pc = "idle" /\ ota' = "APPLIED"
        /\ UNCHANGED <<flash, todo, upd, mgr, running, pc, chunk, gambled, record, counted, tried, unmarked>>
    BY Zenon DEF Apply, boot, history
  <1>2. ota' \in OtaStates /\ ota' = "APPLIED"
    BY <1>1, Zenon DEF OtaStates
  <1> QED
    BY <1>1, <1>2, CallState, CallKeeps

LEMMA CancelStep == IndInv /\ Cancel => IndInv'
  BY CallState, AbortStep, Zenon DEF Cancel, boot, history
LEMMA WriteChunkStep ==
  ASSUME IndInv, NEW n \in 1 .. MaxChunk, NEW x \in Versions \cup {Mix}, WriteChunk(n, x)
  PROVE  IndInv'
  <1>1. /\ pc = "idle" /\ ota = "DOWNLOADING" /\ UNCHANGED <<flash, mgr, running, gambled>>
        /\ UNCHANGED <<record, counted, tried, unmarked>>
    BY Zenon DEF WriteChunk, boot, history
  <1>2. CASE OtaAbort /\ UNCHANGED chunk
    BY <1>1, <1>2, CallState, AbortStep, Zenon
  <1>3. CASE /\ upd' = Summed(x) /\ chunk' = [i \in 1 .. n |-> x]
             /\ pc' = "chunk" /\ UNCHANGED <<todo, ota>>
    <2>1. chunk' \in Seq(Cells)
      BY <1>3, FirmwareAssumption DEF Cells
    <2>2. /\ upd' \in Updates /\ Len(upd'.buf) < PageSize
          /\ upd'.active = upd.active /\ upd'.slot = upd.slot
      BY <1>3, CallState, ZenonT(30) DEF Updates, Summed
    <2> QED
      BY <1>1, <1>3, <2>1, <2>2, CallState, CallKeeps
  <1> QED
    BY <1>2, <1>3, Zenon DEF WriteChunk

\* The page buffer never overflows.
LEMMA CopyPageStep == IndInv /\ CopyPage => IndInv'
  <1> SUFFICES ASSUME IndInv, CopyPage PROVE IndInv'
    OBVIOUS
  <1>1. /\ pc = "chunk" /\ chunk' = SubSeq(chunk, Fit + 1, Len(chunk))
        /\ IF Len(Copied.buf) >= PageSize THEN todo' = FlushOps(Copied) /\ upd' = Flushed(Copied)
           ELSE todo' = <<>> /\ upd' = Copied
        /\ UNCHANGED <<flash, mgr, running, pc, ota, gambled, record, counted, tried, unmarked>>
    BY Zenon DEF CopyPage, boot, history
  <1>2. chunk \in Seq(Cells) /\ upd \in Updates /\ upd.active /\ upd.buf \in Seq(Cells)
    BY <1>1, CallState, Zenon DEF Updates
  <1>3. Fit \in 0 .. Len(chunk)
    BY <1>2, CallState, SlotsAssumption DEF Fit
  <1>4. chunk' \in Seq(Cells) /\ SubSeq(chunk, 1, Fit) \in Seq(Cells)
    BY <1>1, <1>2, <1>3
  <1>5. Copied \in Updates /\ Copied.slot = upd.slot /\ Copied.active = upd.active
    <2> DEFINE b == upd.buf \o SubSeq(chunk, 1, Fit)
    <2>1. b \in Seq(Cells) /\ Copied = [upd EXCEPT !.buf = b]
      BY <1>2, <1>4 DEF Copied
    <2> HIDE DEF b
    <2> QED
      BY <1>2, <2>1, Zenon DEF Updates
  <1>6. /\ upd' \in Updates /\ upd'.slot = upd.slot /\ upd'.active = upd.active
        /\ Len(upd'.buf) < PageSize /\ todo' \in Seq(Ops)
        /\ \A i \in DOMAIN todo' : todo'[i].slot = upd.slot /\ todo'[i].op # "header"
    <2>1. CASE Len(Copied.buf) >= PageSize
      <3>1. todo' = FlushOps(Copied) /\ upd' = Flushed(Copied)
        BY <1>1, <2>1, Zenon
      <3>2. Len(Flushed(Copied).buf) < PageSize
        BY <1>5, SlotsAssumption DEF Flushed, Updates
      <3> HIDE DEF Copied
      <3> QED
        BY <1>5, <3>1, <3>2, FlushKeeps, Zenon
    <2>2. CASE ~(Len(Copied.buf) >= PageSize)
      <3>1. todo' = <<>> /\ upd' = Copied
        BY <1>1, <2>2, Zenon
      <3>2. Len(Copied.buf) \in Nat /\ PageSize \in Nat
        BY <1>5, SlotsAssumption DEF Updates
      <3> QED
        BY <1>5, <2>2, <3>1, <3>2
    <2> QED
      BY <2>1, <2>2, Zenon
  <1> QED
    BY <1>1, <1>2, <1>4, <1>6, CallState, CallKeeps, Zenon

LEMMA FinishStep ==
  ASSUME IndInv, NEW mode \in Modes, NEW t \in Tags, Finish(mode, t)
  PROVE  IndInv'
  <1>1. /\ pc = "idle" /\ ota \in {"DOWNLOADING", "DOWNLOADED"}
        /\ UNCHANGED <<flash, mgr, running, chunk, gambled, record, counted, tried, unmarked>>
    BY Zenon DEF Finish, boot, history
  <1>2. CASE OtaAbort
    BY <1>1, <1>2, CallState, AbortStep, Zenon
  <1>3. CASE /\ todo' = FlushOps(upd) /\ upd' = Flushed(upd) /\ pc' = "flush"
             /\ ota' = "VERIFYING"
    <2>1. ota' \in OtaStates /\ ota' = "VERIFYING"
      BY <1>3, CallState, Zenon DEF OtaStates
    <2>2. upd \in Updates /\ upd.active /\ Len(Flushed(upd).buf) < PageSize
      BY <1>1, CallState, SlotsAssumption DEF Flushed, Updates
    <2> QED
      BY <1>1, <1>3, <2>1, <2>2, CallState, FlushKeeps, CallKeeps, Zenon
  <1> QED
    BY <1>2, <1>3, Zenon DEF Finish

LEMMA VerifyStep ==
  ASSUME IndInv, NEW mode \in Modes, NEW t \in Tags, Verify(mode, t)
  PROVE  IndInv'
  <1>1. /\ pc = "flush"
        /\ UNCHANGED <<flash, mgr, running, chunk, gambled, record, counted, tried, unmarked>>
    BY Zenon DEF Verify, boot, history
  <1>2. CASE OtaAbort
    BY <1>1, <1>2, CallState, AbortStep, Zenon
  <1>3. CASE /\ todo' = FinishOps(upd) /\ pc' = "finish" /\ UNCHANGED <<upd, ota>>
    <2>1. upd \in Updates /\ upd.active /\ Header(upd.version, "NEW") \in Headers
      BY <1>1, CallState, Zenon DEF Updates, Header, Headers
    <2>2. HeaderOp(upd.slot, Header(upd.version, "NEW")) \in Ops
      BY <2>1, Zenon DEF HeaderOp, Ops, Updates
    <2>3. /\ todo' \in Seq(Ops)
          /\ \A i \in DOMAIN todo' : todo'[i].slot = upd.slot /\ todo'[i].hdr.state = "NEW"
      BY <1>3, <2>2 DEF FinishOps, HeaderOp, Header
    <2> QED
      BY <1>1, <1>3, <2>1, <2>3, CallState, CallKeeps, Zenon
  <1> QED
    BY <1>2, <1>3, Zenon DEF Verify

LEMMA OtaReturnsStep == IndInv /\ OtaReturns => IndInv'
  <1> SUFFICES ASSUME IndInv, OtaReturns PROVE IndInv'
    OBVIOUS
  <1>1. /\ pc \in {"begin", "chunk", "finish", "abort"} /\ todo = <<>> /\ pc' = "idle"
        /\ upd' = IF pc = "finish" THEN Finished ELSE upd
        /\ mgr' = IF pc = "finish" THEN [mgr EXCEPT !.hdr = ReadHeaders] ELSE mgr
        /\ UNCHANGED <<flash, todo, running, chunk, gambled, record, counted, tried, unmarked>>
    BY Zenon DEF OtaReturns, history
  <1>2. /\ upd' \in Updates /\ Len(upd'.buf) < PageSize
        /\ upd'.active => upd.active /\ upd'.slot = upd.slot
        /\ pc # "finish" => upd' = upd
    BY <1>1, CallState, SlotsAssumption DEF Finished, NoUpdate, Inactive, Updates, SlotIds
  <1>3. /\ ota' \in OtaStates
        /\ ota' = CASE pc = "begin" -> "DOWNLOADING"
              [] pc = "chunk" /\ upd.written + Len(upd.buf) = ImageSize -> "DOWNLOADED"
              [] pc = "finish" -> "READY"
              [] OTHER -> ota
    BY CallState, Zenon DEF OtaReturns, OtaStates
  <1>4. ota' \in {"DOWNLOADING", "DOWNLOADED", "VERIFYING"} => upd'.active
    BY <1>1, <1>2, <1>3, CallState, Zenon
  <1>5. mgr' = mgr \/ mgr' = [hdr |-> ReadHeaders, active |-> mgr.active]
    BY <1>1, Zenon DEF IndInv, TypeOK
  <1> QED
    BY <1>1, <1>2, <1>3, <1>4, <1>5, CallState, CallKeeps

\* A slot is kept only if the cached header of the active one is not to be confirmed.
LEMMA ConfirmStep == IndInv /\ Confirm => IndInv'
  <1> SUFFICES ASSUME IndInv, Confirm PROVE IndInv'
    OBVIOUS
  <1> DEFINE a == mgr.active
  <1>1. /\ pc = "idle" /\ pc' = "confirm" /\ a \in SlotIds
        /\ UNCHANGED <<flash, upd, mgr, running, ota, chunk, gambled, record, counted, tried, unmarked>>
    BY Zenon DEF Confirm, boot, history
  <1>2. PICK h \in Fields(mgr.hdr[a]) : h.state = "TESTING" /\ todo' = StateOps(a, h, "CONFIRMED")
    BY Zenon DEF Confirm
  <1>3. h \in Headers /\ ~Is(mgr.hdr[a], "CONFIRMED")
    <2>1. mgr.hdr[a] \in Headers \cup {Blank, Mix}
      BY <1>1, Zenon DEF IndInv, TypeOK
    <2> QED
      BY <1>2, <2>1, SlotsAssumption, Zenon DEF Fields, Is, HeaderValid
  <1> DEFINE c == [h EXCEPT !.state = "CONFIRMED"]
  <1>4. c \in Headers /\ c.state = "CONFIRMED" /\ todo' = <<EraseOp(a, 0), HeaderOp(a, c)>>
    BY <1>2, <1>3, Zenon DEF Headers, StateOps
  <1>5. Writes(todo', {a}, {})
    BY <1>1, <1>2, <1>3, WritesState, ZenonT(30)
  <1> HIDE DEF c
  <1>6. TypeOK'
    BY <1>1, <1>5, Zenon DEF IndInv, TypeOK, Writes, Calls
  <1>7. UpdateInv'
    BY <1>1, Zenon DEF IndInv, UpdateInv
  <1>8. StateInv'
    BY <1>1, <1>4, SMTT(20) DEF StateInv, Calls
  <1>9. ASSUME NEW s \in SlotIds, Kept(s) PROVE Kept(s)'
    <2>1. s # a
      BY <1>3, <1>9, Zenon DEF Kept
    <2> QED
      BY <1>1, <1>5, <1>9, <2>1, KeptStays, Zenon DEF Kept, Writes
  <1>10. KeptInv'
    BY <1>1, <1>9, Zenon DEF IndInv, KeptInv
  <1>11. /\ TrialInv /\ Spent' = Spent /\ a \notin Spent
         /\ upd.active => upd.slot \notin Spent /\ ~Is(flash[upd.slot].hdr, "TESTING")
    BY <1>1, Zenon DEF IndInv, TrialInv, WriteInv, SpentInv, Spent
  <1>12. TrialInv'
    BY <1>1, <1>5, <1>11, TrialStays, Zenon DEF Writes
  <1> QED
    BY <1>6, <1>7, <1>8, <1>10, <1>12, Zenon DEF IndInv

\* The image confirmed is kept from then on.
LEMMA ConfirmReturnsStep == IndInv /\ ConfirmReturns => IndInv'
  <1> SUFFICES ASSUME IndInv, ConfirmReturns PROVE IndInv'
    OBVIOUS
  <1> DEFINE a == mgr.active
  <1>1. /\ pc = "confirm" /\ todo = <<>> /\ pc' = "idle"
        /\ mgr' = [mgr EXCEPT !.hdr[mgr.active] = flash[mgr.active].hdr]
        /\ UNCHANGED <<flash, todo, upd, running, ota, chunk, record, counted, tried, unmarked>>
    BY Zenon DEF ConfirmReturns
  <1>2. a \in SlotIds /\ flash[a].hdr \in Headers /\ flash[a].hdr.state = "CONFIRMED"
    BY <1>1, Zenon DEF IndInv, StateInv
  <1>3. /\ mgr' \in [hdr : [SlotIds -> Headers \cup {Blank, Mix}], active : SlotIds \cup {NoSlot}]
        /\ mgr'.active = a /\ mgr'.hdr[a] = flash[a].hdr
    BY <1>1, <1>2, ZenonT(30) DEF IndInv, TypeOK
  <1>4. TypeOK' /\ UpdateInv' /\ StateInv'
    BY <1>1, <1>3, ZenonT(30) DEF IndInv, TypeOK, UpdateInv, StateInv
  <1>5. Is(flash[a].hdr, "CONFIRMED") /\ (upd.active => upd.slot # a)
    BY <1>2, SlotsAssumption, Zenon DEF IndInv, UpdateInv, Is, HeaderValid
  <1>6. Kept(a)'
    BY <1>1, <1>3, <1>5 DEF Kept
  <1>7. KeptInv'
    BY <1>1, <1>2, <1>6 DEF KeptInv
  <1>8. /\ TrialInv /\ Spent' = Spent
        /\ upd.active => upd.slot \notin Spent /\ ~Is(flash[upd.slot].hdr, "TESTING")
    BY <1>1, Zenon DEF IndInv, TrialInv, WriteInv, SpentInv, Spent
  <1>9. TrialInv'
    BY <1>1, <1>3, <1>8, TrialStays
  <1> QED
    BY <1>4, <1>7, <1>9, Zenon DEF IndInv

\* syn_ota_begin takes the other slot; if that does not hold the last confirmed image, the one
\* it leaves is kept.
LEMMA BeginStep ==
  ASSUME IndInv, NEW v \in AppVersions, NEW t \in SlotIds \cup {AutoSlot}, Begin(v, t)
  PROVE  IndInv'
  <1> DEFINE g == Target(t)
  <1>1. /\ pc = "idle" /\ t # running /\ pc' = "begin"
        /\ upd' = Begun(g, v) /\ todo' = BeginOps(g) /\ ota' = ota
        /\ ~gambled' => /\ ~(Confirmed \subseteq {g})
                        /\ ~\A s \in SlotIds \ {g} : ~Is(mgr.hdr[s], "CONFIRMED")
        /\ tried' = tried \ {g} /\ unmarked' = unmarked \ {g}
        /\ UNCHANGED <<flash, mgr, running, chunk, record, counted>>
    BY Zenon DEF Begin, boot
  <1>2. mgr.active \in {NoSlot, running}
    BY <1>1, Zenon DEF IndInv, UpdateInv
  <1>3. g \in SlotIds /\ g # mgr.active
    <2>1. t # running
      BY <1>1, Zenon
    <2>2. CASE t = AutoSlot
      BY <2>2 DEF Target, SlotIds
    <2>3. CASE t # AutoSlot
      BY <1>2, <2>1, <2>3 DEF Target, SlotIds, NoSlot
    <2> QED
      BY <2>2, <2>3, Zenon
  <1> HIDE DEF g
  <1>4. upd' \in Updates /\ Len(upd'.buf) < PageSize /\ upd'.active /\ upd'.slot = g
    <2>1. v \in Versions
      BY FirmwareAssumption, Zenon
    <2> QED
      BY <1>1, <1>3, <2>1, SlotsAssumption DEF Begun, Updates
  <1>5. todo' \in Seq(Ops) /\ \A i \in DOMAIN todo' : todo'[i].slot = g /\ todo'[i].op = "erase"
    <2>1. EraseOp(g, 0) \in Ops /\ EraseOp(g, 0).slot = g /\ EraseOp(g, 0).op = "erase"
      BY <1>3, EraseOpIs, Zenon
    <2>2. todo' = <<EraseOp(g, 0)>>
      BY <1>1, Zenon DEF BeginOps
    <2> QED
      BY <2>1, <2>2
  <1>6. ota' \in OtaStates /\ ota' = ota
    BY <1>1, CallState, Zenon
  <1>7. TypeOK'
    BY <1>1, <1>4, <1>5, <1>6, Zenon DEF IndInv, TypeOK, Updates, Calls
  <1>8. UpdateInv' /\ StateInv'
    BY <1>1, <1>2, <1>3, <1>4, Zenon DEF UpdateInv, StateInv, Calls
  <1>9. ASSUME ~gambled' PROVE \E s \in SlotIds : Kept(s)'
    <2>1. PICK s \in SlotIds \ {g} : Is(flash[s].hdr, "CONFIRMED")
      BY <1>1, <1>9, Zenon DEF Confirmed
    <2>2. Is(mgr.hdr[s], "CONFIRMED")
      BY <1>1, <1>3, <1>9, <2>1, Zenon DEF SlotIds
    <2> QED
      BY <1>1, <1>4, <1>5, <2>1, <2>2 DEF Kept
  <1>10. KeptInv'
    BY <1>1, <1>9, Zenon DEF KeptInv
  <1>11. TrialInv /\ Spent' \subseteq Spent /\ g \notin Spent'
    BY <1>1, Zenon DEF IndInv, Spent
  <1>12. TrialInv'
    BY <1>1, <1>4, <1>5, <1>11, TrialStays, Zenon
  <1> QED
    BY <1>7, <1>8, <1>10, <1>12, Zenon DEF IndInv
-----------------------------------------------------------------------------
LEMMA NextIndInv == IndInv /\ [Next]_vars => IndInv'
  <1> SUFFICES ASSUME IndInv, [Next]_vars PROVE IndInv'
    BY Zenon
  <1>1. CASE PowerOn \/ Jump \/ PowerCut \/ FlashStep \/ FlashError
    BY <1>1, PowerOnStep, JumpStep, PowerCutStep, FlashStepStep, FlashErrorStep, Zenon
  <1>2. CASE ConfirmReturns \/ CopyPage \/ OtaReturns
    BY <1>2, ConfirmReturnsStep, CopyPageStep, OtaReturnsStep, Zenon
  <1>3. CASE App
    <2>1. CASE AppMarkHealthy \/ AppBootInit \/ Confirm \/ Apply \/ Cancel
      BY <2>1, AppMarkHealthyStep, AppBootInitStep, ConfirmStep, ApplyStep, CancelStep, Zenon
    <2>2. CASE \E v \in AppVersions, t \in SlotIds \cup {AutoSlot} : Begin(v, t)
      BY <2>2, BeginStep, Zenon
    <2>3. CASE \E n \in 1 .. MaxChunk, x \in Versions \cup {Mix} : WriteChunk(n, x)
      BY <2>3, WriteChunkStep, Zenon
    <2>4. CASE \E mode \in Modes, t \in Tags : Finish(mode, t)
      BY <2>4, FinishStep, Zenon
    <2> QED
      BY <1>3, <2>1, <2>2, <2>3, <2>4, Zenon DEF App
  <1>4. CASE \E mode \in Modes, t \in Tags : Verify(mode, t)
    BY <1>4, VerifyStep, Zenon
  <1>5. CASE UNCHANGED vars
    BY <1>5, StutterStep, Zenon
  <1> QED
    BY <1>1, <1>2, <1>3, <1>4, <1>5, Zenon DEF Next

LEMMA Invariance == Spec => []IndInv
  BY InitIndInv, NextIndInv, PTL DEF Spec

\* Whatever the sizes, the versions, and the number of updates, power failures and errors of
\* the flash, the last confirmed image is lost only when the application begins an update over
\* it: syn_fwboot_select, syn_fwboot_confirm and every call of the OTA manager leave one.
THEOREM Fallback == Spec => []FallbackKept
  <1>1. IndInv => FallbackKept
    BY Zenon DEF IndInv, KeptInv, Kept, FallbackKept, Confirmed
  <1> QED
    BY <1>1, Invariance, PTL

\* Whatever the sizes, the versions, and the number of updates, power failures and errors: an
\* image that ran on trial and was not reported healthy does not run again, if the record of
\* that boot was stored by syn_boot_init and its mark could be written.  The record stands
\* before syn_fwboot_select runs, so that the next boot rejects the image, and one after it if
\* the rejection is cut off, whether or not the records of those boots are stored.
THEOREM NoSecondChance == Spec => []OneChance
  <1>1. IndInv => OneChance
    BY Zenon DEF IndInv, TrialInv, SpentInv, Spent, OneChance
  <1> QED
    BY <1>1, Invariance, PTL

\* The page buffer of the updater never overflows, whatever the length of the chunks
\* (syn_fwupdate_write, flush_page), and every object keeps its type.
THEOREM TypeCorrect == Spec => []TypeOK
  <1>1. IndInv => TypeOK
    BY Zenon DEF IndInv
  <1> QED
    BY <1>1, Invariance, PTL
===============================================================================
