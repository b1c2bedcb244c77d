------------------------------- MODULE Settings -------------------------------
(***************************************************************************)
(* The settings manager (storage/syn_settings.c) over the parameter store: *)
(* a block of settings in RAM, a checksum that tells whether it changed    *)
(* since it was last written, and boots after power cuts at any point.     *)
(***************************************************************************)
EXTENDS ParamStore

CONSTANTS Values,       \* settings blocks
          Defaults      \* the one in ROM

\* Neither erased nor spoiled flash reads as a block or as a header.
ASSUME SettingsAssumption ==
    /\ Defaults \in Values /\ Values \cap {Blank, Mix} = {}
    /\ \A s \in Seqs, v \in Values : [seq |-> s, crc |-> Crc(v)] \notin {Blank, Mix}

VARIABLES data, checksum,       \* SYN_Settings: *data, and its checksum
          then,                 \* what called syn_param_save: "init" or "save"
          committed,            \* history: what the last save that succeeded wrote
          tried,                \* history: what later saves failed to write
          used, reused,         \* history: the slot of this save, of that one, was not blank
          imported              \* history: data was imported and not saved

history == <<committed, tried, used, reused, imported>>
vars == <<store_vars, data, checksum, then, history>>

Init == /\ StoreInit
        /\ data = Defaults /\ checksum = Crc(Defaults) /\ then = "init"
        /\ committed = Blank /\ tried = {} /\ used = FALSE /\ reused = FALSE /\ imported = FALSE
-----------------------------------------------------------------------------
(* syn_settings_init, at boot. *)

\* Flash holds a block: it is loaded.
InitLoad == /\ ParamInit /\ Scan # NoSlot
            /\ op' = "idle"
            /\ data' = Stored /\ checksum' = Crc(Stored)
            /\ committed' = Stored /\ tried' = {} /\ imported' = FALSE
            /\ used' = FALSE /\ reused' = FALSE
            /\ UNCHANGED then

\* It does not: the defaults are saved.  What is left in RAM is SaveBegin's on a
\* store just initialised: slot 0, after an erasure.
InitDefaults == /\ ParamInit /\ Scan = NoSlot
                /\ op' = "erase"
                /\ data' = Defaults /\ then' = "init"
                /\ committed' = Blank /\ tried' = {} /\ imported' = FALSE
                /\ used' = FALSE /\ reused' = FALSE
                /\ UNCHANGED checksum
-----------------------------------------------------------------------------
(* Saving. *)

Idle == op = "idle"

\* Mutant of Save: the checksum is taken before the write.
SaveEarly == /\ Idle
             /\ SaveBegin /\ then' = "save" /\ checksum' = Crc(data)
             /\ UNCHANGED <<data, history>>

\* syn_settings_save of a block that changed (of one that did not, it does nothing).
Save == /\ Idle /\ Crc(data) # checksum
        /\ SaveBegin /\ then' = "save"
        /\ UNCHANGED <<data, checksum, history>>

\* syn_param_save goes on.
Erasing == Erase /\ UNCHANGED <<data, checksum, then, history>>

\* The write of the block: whether its slot was blank is remembered.
WritingData == /\ WriteData(data)
               /\ used' = (flash[at] # [data |-> Blank, hdr |-> Blank])
               /\ UNCHANGED <<data, checksum, then, committed, tried, reused, imported>>

\* Success.
Saved == /\ WriteHeader(data)
         /\ checksum' = Crc(data) /\ then' = "save"
         /\ committed' = data /\ tried' = {} /\ imported' = FALSE
         /\ used' = FALSE /\ reused' = used
         /\ UNCHANGED data

\* Failure: syn_settings_save returns it, and so does syn_settings_init, which the
\* application calls again.
Failed == /\ SaveFails(data)
          /\ op' = IF then = "init" THEN "off" ELSE "idle"
          /\ tried' = IF op = "erase" THEN tried ELSE tried \cup {data}
          /\ used' = FALSE
          /\ UNCHANGED <<data, checksum, then, committed, reused, imported>>
-----------------------------------------------------------------------------
(* The rest of the interface. *)

\* The application writes the block in RAM.  (So does syn_settings_import_vfs with
\* part of a file that is too short, before it gives up.)
Modify == /\ Idle /\ \E v \in Values : data' = v
          /\ UNCHANGED <<store_vars, checksum, then, history>>

\* syn_settings_reset: the defaults, saved if they differ.
Reset == /\ Idle /\ data' = Defaults
         /\ IF Crc(Defaults) # checksum THEN SaveBegin /\ then' = "save"
            ELSE UNCHANGED <<store_vars, then>>
         /\ UNCHANGED <<checksum, history>>

\* syn_settings_reload.  The block is read into RAM before its checksum is verified:
\* what is not whole may read as anything.
Reload == /\ Idle /\ flash[active].hdr # Blank
          /\ IF Valid(active) THEN data' = flash[active].data ELSE data' \in Values
          /\ checksum' = IF Valid(active) THEN Crc(data') ELSE checksum
          /\ imported' = (imported /\ ~Valid(active))
          /\ UNCHANGED <<store_vars, then, committed, tried, used, reused>>

\* syn_settings_import and syn_settings_import_vfs, with save and without.
Import == /\ Idle /\ \E v \in Values : data' = v
          /\ \/ IF Crc(data') # checksum
                THEN SaveBegin /\ then' = "save" /\ UNCHANGED <<checksum, imported>>
                ELSE UNCHANGED <<store_vars, checksum, then, imported>>
             \/ checksum' = Crc(data') /\ imported' = TRUE /\ UNCHANGED <<store_vars, then>>
          /\ UNCHANGED <<committed, tried, used, reused>>

\* Power is lost; RAM with it.
PowerLoss == /\ StoreLost(data)
             /\ data' = Defaults /\ checksum' = Crc(Defaults) /\ then' = "init"
             /\ tried' = IF op \in {"data", "header"} THEN tried \cup {data} ELSE tried
             /\ used' = FALSE
             /\ UNCHANGED <<committed, reused, imported>>

Next == \/ InitLoad \/ InitDefaults \/ Save \/ Erasing \/ WritingData \/ Saved \/ Failed
        \/ Modify \/ Reset \/ Reload \/ Import \/ PowerLoss

Spec == Init /\ [][Next]_vars
-----------------------------------------------------------------------------
(* Properties. *)

TypeOK == /\ StoreTypeOK(Values)
          /\ data \in Values /\ checksum \in {Crc(d) : d \in Values} /\ then \in {"init", "save"}
          /\ committed \in Values \cup {Blank} /\ tried \subseteq Values
          /\ used \in BOOLEAN /\ reused \in BOOLEAN /\ imported \in BOOLEAN

\* Saves are atomic: a power cut at any point, in syn_param_save or out of it, leaves
\* a store from which the next boot loads what the last successful save wrote, or a
\* later block whose save was cut off or failed; never a mixture, nor an older block.
\* Excepted is a save that wrote over the remains of one cut off before it (FreeSlot).
OldOrNew == committed # Blank /\ ~reused =>
    Stored \in {committed} \cup tried \cup (IF op \in {"data", "header"} THEN {data} ELSE {})

\* The store in RAM and the flash agree on the newest slot, over every wrap of the
\* sequence numbers: syn_settings_reload reads what a boot would load.
ActiveIsNewest == Idle /\ has_active_slot /\ ~reused /\ tried = {} => Scan = active

\* Settings that syn_settings_changed calls unchanged are those a boot would load.
\* Excepted, besides, are settings imported without saving, which count as saved, and
\* saves reported as failed that may have reached the flash.
UnchangedIsStored == Idle /\ checksum = Crc(data) /\ ~imported /\ ~reused /\ tried = {} =>
    Stored = data

\* syn_param.h: "Writes go to the next free slot."
FreeSlot == op = "data" => flash[at] = [data |-> Blank, hdr |-> Blank]
-----------------------------------------------------------------------------
(* The inductive invariant behind the first three, for two sectors or more.  Of the  *)
(* slots, what counts is their place on the ring: from the slot that is written next  *)
(* backwards they were written one after the other, and those in the sectors ahead    *)
(* belong to the lap before.                                                          *)

After(a) == (a + 1) % (Sectors * Slots)

\* How many saves after the next one (before it, if negative) p is written.
Turn(a, p) == (IF SectorOf(p) > SectorOf(a) THEN p - Sectors * Slots ELSE p) - a - 1

Number(q, n) == (q + n) % (2 * SeqHalf)

\* The slot after a is the first of its sector, and has been written with number q.
Crossed(a, q) ==
    /\ After(a) % Slots = 0 /\ Valid(After(a)) /\ flash[After(a)].hdr.seq = q
    /\ \A p \in Positions : SectorOf(p) = SectorOf(After(a)) /\ HasHeader(p) => p = After(a)

\* Every header has the number of its turn, if q is that of the next.
InSequence(a, q) == \A p \in Positions : HasHeader(p) =>
    flash[p].hdr.seq = Number(q, Turn(a, p)) \/ (p = After(a) /\ Crossed(a, q))

Writing == IF op \in {"data", "header"} THEN {data} ELSE {}

\* The slot a was written last.  The one after it may hold a block whose save was cut off,
\* those behind that in the sector are not valid, and one up to it in the sector is.
Anchor(a, q) ==
    /\ InSequence(a, q)
    /\ \A p \in Positions : SectorOf(p) = SectorOf(a) /\ p > a + 1 => ~Valid(p)
    /\ Valid(After(a)) /\ flash[After(a)].hdr.seq = q => flash[After(a)].data \in tried \cup Writing
    /\ \E p \in Positions : SectorOf(p) = SectorOf(a) /\ p <= a /\ Valid(p)
    /\ Valid(a) => flash[a].data = committed
    /\ ~reused => Valid(a)

\* Until the first save has succeeded, a header is whole only at the start, and only after
\* a loss of power.
FirstInv == \A p \in Positions : HasHeader(p) =>
    op = "off" /\ p = 0 /\ Valid(p) /\ flash[p].hdr.seq = 1

StoreInv ==
    /\ op # "off" /\ has_active_slot => committed # Blank /\ Anchor(active, next_seq)
    /\ op # "off" /\ ~has_active_slot => committed = Blank
    /\ committed = Blank => FirstInv
    /\ op = "off" /\ committed # Blank => \E a \in Positions, q \in Seqs : Anchor(a, q)

Empty == [data |-> Blank, hdr |-> Blank]

\* The first slot of a sector is written after its erasure, a later one where the last save ended.
SaveInv ==
    /\ op \in {"off", "idle"} => at = 0
    /\ op = "idle" => has_active_slot
    /\ op \in {"erase", "data", "header"} =>
         /\ at = NextSlot /\ (then = "save" <=> has_active_slot)
         /\ ~has_active_slot => active = 0 /\ next_seq = 1
         /\ op = "erase" => at % Slots = 0
         /\ op # "erase" /\ at % Slots = 0 =>
              \A p \in Positions \ {at} : SectorOf(p) = SectorOf(at) => flash[p] = Empty
         /\ op = "data" /\ at % Slots = 0 => flash[at] = Empty
         /\ op = "header" /\ (at % Slots = 0 \/ ~used) => flash[at] = [data |-> data, hdr |-> Blank]

\* The checksum is that of the block last saved.
ChecksumInv == op # "off" /\ has_active_slot /\ ~imported => checksum = Crc(committed)

IndInv == TypeOK /\ StoreInv /\ SaveInv /\ ChecksumInv
=============================================================================
