-------------------------------- MODULE FwSlots --------------------------------
(***************************************************************************)
(* The two firmware slots in flash, and the image header at the start of   *)
(* each (system/syn_fwimage.h).                                            *)
(*                                                                         *)
(* Addresses count units of flash from the start of a slot: a header of    *)
(* HeaderSize units, then the units of the image.  A unit of the image     *)
(* holds the version it belongs to, Blank (erased), or Mix: bits of an     *)
(* interrupted write, of a write over something else, or of a chunk that   *)
(* was corrupted.  No checksum matches Mix.                                *)
(***************************************************************************)
EXTENDS Integers, Sequences

CONSTANTS HeaderSize,   \* sizeof(SYN_FwImageHeader)
          PageSize,     \* page_buf_size
          SectorSize,   \* syn_port_flash_sector_size
          ImageSize,    \* expected_total_sz
          Versions,     \* version codes
          Blank, Mix

SlotIds == {0, 1}
NoSlot == 255
Offsets == 0 .. ImageSize - 1
Address(i) == HeaderSize + i
Sector(a) == a \div SectorSize
SectorStart(i) == SectorSize * Sector(Address(i))   \* first address of the sector of unit i

Header(v, s) == [version |-> v, state |-> s]
Headers == [version : Versions \cup {0}, state : {"NEW", "TESTING", "CONFIRMED", "INVALID"}]
Cells == Versions \cup {Blank, Mix}

ASSUME SlotsAssumption == /\ HeaderSize \in Nat \ {0} /\ PageSize \in Nat \ {0}
                          /\ SectorSize \in Nat \ {0} /\ ImageSize \in Nat \ {0}
                          /\ HeaderSize <= SectorSize
                          /\ Versions \subseteq Nat \ {0}
                          /\ Blank # Mix /\ Blank \notin Headers /\ Mix \notin Headers

VARIABLES flash,   \* the slots: [SlotIds -> [hdr, data]]
          todo     \* the flash operations the running call has still to perform

\* syn_fwimage_header_valid: magic and checksum.
HeaderValid(h) == h \notin {Blank, Mix}
Is(h, s) == HeaderValid(h) /\ h.state = s

\* The slot holds every unit of the image its header announces.
Whole(s) == \A i \in Offsets : flash[s].data[i] = flash[s].hdr.version
-----------------------------------------------------------------------------
(* What the updater and the boot manager ask of the flash. *)

EraseOp(s, a) == [op |-> "erase", slot |-> s, sector |-> Sector(a)]
HeaderOp(s, h) == [op |-> "header", slot |-> s, hdr |-> h]
DataOp(s, i, units) == [op |-> "data", slot |-> s, from |-> i, units |-> units]
Ops == [op : {"erase"}, slot : SlotIds, sector : Int]
       \cup [op : {"header"}, slot : SlotIds, hdr : Headers]
       \cup [op : {"data"}, slot : SlotIds, from : Nat, units : Seq(Cells)]

\* What operation o makes of the units of the image and of the header.  They then read as
\* before ("old"), as they should ("new"), or as Mix ("mix"; "over" spares blank units): a unit
\* not whole is Mix whatever bits it has.
Touched(o, i) == IF o.op = "erase" THEN Sector(Address(i)) = o.sector
                 ELSE o.op = "data" /\ i \in o.from .. o.from + Len(o.units) - 1
Wanted(o, i) == IF o.op = "erase" THEN Blank ELSE o.units[i - o.from + 1]
DataAfter(o, d) ==
    [i \in Offsets |-> LET old == flash[o.slot].data[i]
                       IN  IF ~Touched(o, i) \/ d = "old" THEN old
                           ELSE IF \/ d = "new" \/ old = Wanted(o, i)
                                   \/ d = "over" /\ old = Blank THEN Wanted(o, i)
                           ELSE Mix]
HeaderAfter(o, h) ==
    IF o.op = "data" \/ (o.op = "erase" /\ o.sector # 0) \/ h = "old" THEN flash[o.slot].hdr
    ELSE IF h # "new" THEN Mix
    ELSE IF o.op = "erase" THEN Blank
    ELSE o.hdr
After(o, hdrs, datas) ==
    {[hdr |-> HeaderAfter(o, h), data |-> DataAfter(o, d)] : h \in hdrs, d \in datas}

\* An operation that succeeds leaves Mix only where it writes over something.
Clean(o) == \/ o.op = "erase"
            \/ o.op = "header" /\ flash[o.slot].hdr \in {Blank, o.hdr}
            \/ o.op = "data" /\ \A i \in DOMAIN o.units :
                  flash[o.slot].data[o.from + i - 1] \in {Blank, o.units[i]}
Outcomes(o) == IF Clean(o) THEN {"new"} ELSE {"new", "over"}
Partial == {"old", "mix", "new"}

\* syn_port_flash_erase and syn_port_flash_write: done, or cut off.
Done(o) == \E r \in After(o, Outcomes(o), Outcomes(o)) : flash' = [flash EXCEPT ![o.slot] = r]
CutOff(o) == \E r \in After(o, Partial, Partial) : flash' = [flash EXCEPT ![o.slot] = r]
=============================================================================
