------------------------------ MODULE ParamStore ------------------------------
(***************************************************************************)
(* The wear-levelled parameter store (storage/syn_param.c) on NOR flash,   *)
(* of which power may be lost, and any operation may fail, at any point.   *)
(*                                                                         *)
(* Slots are numbered through all sectors.  A slot holds a parameter block *)
(* and a header; either may be Blank (erased), or Mix: bits of an          *)
(* interrupted write, or of a write over something else.  No checksum      *)
(* matches Mix.                                                            *)
(***************************************************************************)
EXTENDS Integers

CONSTANTS Sectors,      \* sector_count
          Slots,        \* slots_per_sector
          SeqHalf,      \* half the range of a sequence number (2^15)
          Blank, Mix

ASSUME StoreAssumption == /\ Sectors \in Nat \ {0} /\ Slots \in Nat \ {0}
                          /\ SeqHalf \in Nat /\ Sectors * Slots < SeqHalf
                          /\ Blank # Mix

Positions == 0 .. Sectors * Slots - 1
SectorOf(p) == p \div Slots
Seqs == 0 .. 2 * SeqHalf - 1
NoSlot == -1

VARIABLES flash,                                \* [data, hdr] of each slot
          active, next_seq, has_active_slot,    \* of SYN_ParamStore, in RAM
          op, at                                \* of syn_param_save: the step; the slot

store_vars == <<flash, active, next_seq, has_active_slot, op, at>>
ram_vars == <<active, next_seq, has_active_slot>>

\* CRC-16, which is taken to tell the blocks apart.
Crc(data) == [crc_of |-> data]

StoreInit == /\ flash = [p \in Positions |-> [data |-> Blank, hdr |-> Blank]]
             /\ active = 0 /\ next_seq = 1 /\ has_active_slot = FALSE
             /\ op = "off" /\ at = 0
-----------------------------------------------------------------------------
(* The flash. *)

\* What is read back after writing new over old, and after a write that was cut off
\* or that reported an error: writes only clear bits.
Written(old, new) == IF old = Blank \/ old = new THEN {new} ELSE {new, Mix}
Torn(old, new) == {old, Mix} \cup Written(old, new)

Erased(sector) == [p \in Positions |-> IF SectorOf(p) = sector THEN [data |-> Blank, hdr |-> Blank]
                                       ELSE flash[p]]

\* An erasure cut off leaves each slot as it was, erased or spoiled.
HalfErased(sector) ==
    {[p \in Positions |->
        IF SectorOf(p) # sector \/ s[p] = "kept" THEN flash[p]
        ELSE IF s[p] = "erased" THEN [data |-> Blank, hdr |-> Blank]
        ELSE [data |-> Mix, hdr |-> Mix]] :
     s \in [{p \in Positions : SectorOf(p) = sector} -> {"kept", "erased", "spoiled"}]}
-----------------------------------------------------------------------------
(* Reading. *)

HasHeader(p) == flash[p].hdr \notin {Blank, Mix}

\* Mutant of Valid: the checksum is not verified.
ValidHeader(p) == HasHeader(p)

\* read_slot
Valid(p) == HasHeader(p) /\ flash[p].hdr.crc = Crc(flash[p].data)

\* Mutant of Newer: sequence numbers are compared as plain numbers.
NewerPlain(s, t) == s > t

\* (int16_t)(s - t) > 0
Newer(s, t) == (s - t) % (2 * SeqHalf) \in 1 .. SeqHalf - 1

\* The scan of syn_param_init: the valid slot with the newest sequence number.
Better(b, p) == IF Valid(p) /\ (b = NoSlot \/ Newer(flash[p].hdr.seq, flash[b].hdr.seq))
                THEN p ELSE b

Best[n \in 0 .. Sectors * Slots] == IF n = 0 THEN NoSlot ELSE Better(Best[n - 1], n - 1)

Scan == Best[Sectors * Slots]

\* What a power cut now and a boot would find.
Stored == IF Scan = NoSlot THEN Blank ELSE flash[Scan].data

\* syn_param_init
ParamInit == /\ op = "off"
             /\ active' = IF Scan = NoSlot THEN 0 ELSE Scan
             /\ next_seq' = IF Scan = NoSlot THEN 1 ELSE (flash[Scan].hdr.seq + 1) % (2 * SeqHalf)
             /\ has_active_slot' = (Scan # NoSlot)
             /\ UNCHANGED <<flash, at>>
-----------------------------------------------------------------------------
(* syn_param_save. *)

\* Mutant of NextSlot: the store starts over in the sector it is in.
NextSlotSame == IF ~has_active_slot THEN active
                ELSE IF (active + 1) % Slots = 0 THEN active + 1 - Slots ELSE active + 1

NextSlot == IF has_active_slot THEN (active + 1) % (Sectors * Slots) ELSE active

SaveBegin == /\ at' = NextSlot
             /\ op' = IF ~has_active_slot \/ NextSlot % Slots = 0 THEN "erase" ELSE "data"
             /\ UNCHANGED <<flash, ram_vars>>

Erase == /\ op = "erase" /\ op' = "data"
         /\ flash' = Erased(SectorOf(at))
         /\ UNCHANGED <<ram_vars, at>>

Header(data) == [seq |-> next_seq, crc |-> Crc(data)]

WriteData(data) == /\ op = "data" /\ op' = "header"
                   /\ \E d \in Written(flash[at].data, data) : flash' = [flash EXCEPT ![at].data = d]
                   /\ UNCHANGED <<ram_vars, at>>

\* The header, and success: what follows in RAM.
WriteHeader(data) ==
    /\ op = "header" /\ op' = "idle"
    /\ \E h \in Written(flash[at].hdr, Header(data)) : flash' = [flash EXCEPT ![at].hdr = h]
    /\ active' = at /\ next_seq' = (next_seq + 1) % (2 * SeqHalf) /\ has_active_slot' = TRUE
    /\ at' = 0

\* The flash as an operation leaves it that does not succeed.
CutOff(data) == CASE op = "erase" -> flash' \in HalfErased(SectorOf(at))
                  [] op = "data" -> \E d \in Torn(flash[at].data, data) :
                                       flash' = [flash EXCEPT ![at].data = d]
                  [] op = "header" -> \E h \in Torn(flash[at].hdr, Header(data)) :
                                         flash' = [flash EXCEPT ![at].hdr = h]
                  [] OTHER -> flash' = flash

\* An operation reports an error, which syn_param_save returns.
SaveFails(data) == /\ op \in {"erase", "data", "header"}
                   /\ CutOff(data)
                   /\ at' = 0 /\ UNCHANGED ram_vars

\* Power is lost.
StoreLost(data) == /\ op # "off" /\ op' = "off"
                   /\ CutOff(data)
                   /\ active' = 0 /\ next_seq' = 1 /\ has_active_slot' = FALSE /\ at' = 0
-----------------------------------------------------------------------------
(* Properties. *)

StoreTypeOK(Data) ==
    /\ flash \in [Positions -> [data : Data \cup {Blank, Mix},
                                hdr : [seq : Seqs, crc : {Crc(d) : d \in Data}] \cup {Blank, Mix}]]
    /\ active \in Positions /\ next_seq \in Seqs /\ has_active_slot \in BOOLEAN
    /\ op \in {"off", "idle", "erase", "data", "header"} /\ at \in Positions
=============================================================================
