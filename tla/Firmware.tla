-------------------------------- MODULE Firmware --------------------------------
(***************************************************************************)
(* A device with two firmware slots: it boots one, the application may     *)
(* download the next version with the OTA manager (system/syn_ota.c), and  *)
(* the power may fail, or the application crash, at every step.            *)
(*                                                                         *)
(* A call runs to completion, but its flash operations are steps of their  *)
(* own (todo): each may be cut off by a power failure or report an error.  *)
(* pc is "off", "halt" (nothing to boot), "idle" (the application runs), or *)
(* the call that is running.                                               *)
(***************************************************************************)
EXTENDS FwUpdate, FwBoot

CONSTANTS MaxChunk,      \* longest chunk, in units
          AppVersions,   \* the versions an update may bring
          MaxUpdates,    \* bound: updates begun in one behaviour
          MaxErrors      \* bound: errors the flash reports in one behaviour

ASSUME FirmwareAssumption ==
    MaxChunk \in Nat \ {0} /\ {MaxUpdates, MaxErrors} \subseteq Nat /\ AppVersions \subseteq Versions
    /\ 1 \in Versions   \* that of the factory

AutoSlot == 255

VARIABLES pc,
          running,   \* the slot the processor executes, NoSlot if none
          ota,       \* the state of the SYN_OTA_Manager
          gambled,   \* history: an update was begun over the last confirmed image
          tried,     \* history: slots whose image ran on trial and did not become healthy
          counted,   \* history: the present boot stands in the record, and was not reported healthy
          unmarked,  \* history: slots whose state syn_fwboot_select failed to write
          updates, errors   \* bounds: updates begun, errors the flash has reported

history == <<gambled, tried, counted, unmarked, updates, errors>>
vars == <<flash, todo, upd, mgr, record, safe, pc, running, ota, chunk, history>>
boot == <<mgr, record, safe, running>>

OtaStates == {"IDLE", "DOWNLOADING", "DOWNLOADED", "VERIFYING", "READY", "APPLIED", "ERROR"}

Calls == {"select", "confirm", "begin", "chunk", "flush", "finish", "abort"}

Confirmed == {s \in SlotIds : Is(flash[s].hdr, "CONFIRMED")}

\* A device leaves the factory with a confirmed image in slot A.
Init ==
    /\ flash = [s \in SlotIds |->
                   IF s = 0 THEN [hdr |-> Header(1, "CONFIRMED"), data |-> [i \in Offsets |-> 1]]
                   ELSE [hdr |-> Blank, data |-> [i \in Offsets |-> Blank]]]
    /\ todo = <<>> /\ upd = NoUpdate /\ mgr = NoManager /\ record = Blank /\ safe = FALSE
    /\ pc = "off" /\ running = NoSlot /\ ota = "IDLE" /\ chunk = <<>>
    /\ gambled = FALSE /\ tried = {} /\ counted = FALSE /\ unmarked = {} /\ updates = 0 /\ errors = 0
-----------------------------------------------------------------------------
(* Reset, power failure, and the flash. *)

\* syn_boot_init, syn_fwboot_init, and syn_fwboot_select with rollback if the previous boot
\* was not healthy.
PowerOn ==
    LET sel == Select(ReadHeaders, BootRecord.fail > 0)
    IN  /\ pc = "off"
        /\ \E saved \in BOOLEAN : BootInit(saved) /\ counted' = saved
        /\ mgr' = [hdr |-> sel.hdr, active |-> sel.active]
        /\ todo' = sel.ops /\ pc' = "select"
        /\ UNCHANGED <<flash, upd, running, ota, chunk, gambled, tried, unmarked, updates, errors>>

\* The boot loader jumps to the slot; the application initialises the OTA manager.
Jump ==
    /\ pc = "select" /\ todo = <<>>
    /\ running' = mgr.active /\ pc' = IF mgr.active = NoSlot THEN "halt" ELSE "idle"
    /\ UNCHANGED <<flash, todo, upd, mgr, record, safe, ota, chunk, history>>

PowerCut ==
    /\ pc # "off"
    /\ IF todo = <<>> THEN UNCHANGED flash ELSE CutOff(Head(todo))
    /\ tried' = IF running \in SlotIds /\ counted /\ Is(flash[running].hdr, "TESTING")
                THEN tried \cup {running} ELSE tried
    /\ pc' = "off" /\ todo' = <<>> /\ upd' = NoUpdate /\ mgr' = NoManager /\ safe' = FALSE
    /\ running' = NoSlot /\ ota' = "IDLE" /\ chunk' = <<>> /\ counted' = FALSE
    /\ UNCHANGED <<record, gambled, unmarked, updates, errors>>

FlashStep ==
    /\ todo # <<>> /\ Done(Head(todo)) /\ todo' = Tail(todo)
    /\ UNCHANGED <<upd, boot, pc, ota, chunk, history>>

\* syn_ota_abort
OtaAbort == /\ todo' = AbortOps(upd) /\ upd' = Aborted(upd)
            /\ ota' = "ERROR" /\ pc' = "abort"

\* What each call does with an error from the flash.
FlashError ==
    /\ todo # <<>> /\ errors < MaxErrors /\ CutOff(Head(todo)) /\ errors' = errors + 1
    /\ CASE pc = "select" ->        \* write_state returns; its status is not looked at
               /\ todo' = IF Head(todo).op = "erase" THEN Tail(Tail(todo)) ELSE Tail(todo)
               /\ unmarked' = unmarked \cup {Head(todo).slot}
               /\ UNCHANGED <<upd, ota, pc>>
         [] pc = "abort" -> todo' = Tail(todo) /\ UNCHANGED <<upd, ota, pc, unmarked>>
         [] pc = "confirm" -> todo' = <<>> /\ pc' = "idle" /\ UNCHANGED <<upd, ota, unmarked>>
         [] pc = "begin" ->
               /\ todo' = <<>> /\ pc' = "idle" /\ ota' = "ERROR"
               /\ upd' = Aborted(upd) /\ UNCHANGED unmarked
         [] pc \in {"chunk", "flush", "finish"} -> OtaAbort /\ UNCHANGED unmarked
    /\ chunk' = <<>>
    /\ UNCHANGED <<boot, gambled, tried, counted, updates>>
-----------------------------------------------------------------------------
(* The application. *)

AppMarkHealthy == /\ pc = "idle" /\ (MarkHealthy \/ ClearSafeMode) /\ counted' = FALSE
                  /\ UNCHANGED <<flash, todo, upd, mgr, pc, running, ota, chunk>>
                  /\ UNCHANGED <<gambled, tried, unmarked, updates, errors>>

\* The application sets up a boot manager of its own, and does not call syn_fwboot_select.
AppBootInit == /\ pc = "idle" /\ mgr' = [hdr |-> ReadHeaders, active |-> NoSlot]
               /\ UNCHANGED <<flash, todo, upd, record, safe, pc, running, ota, chunk, history>>

Confirm ==
    /\ pc = "idle" /\ mgr.active \in SlotIds
    /\ \E h \in Fields(mgr.hdr[mgr.active]) :
          h.state = "TESTING" /\ todo' = StateOps(mgr.active, h, "CONFIRMED")
    /\ pc' = "confirm"
    /\ UNCHANGED <<flash, upd, boot, ota, chunk, history>>

ConfirmReturns ==
    /\ pc = "confirm" /\ todo = <<>>
    /\ mgr' = [mgr EXCEPT !.hdr[mgr.active] = flash[mgr.active].hdr]
    /\ pc' = "idle" /\ gambled' = FALSE
    /\ UNCHANGED <<flash, todo, upd, record, safe, running, ota, chunk>>
    /\ UNCHANGED <<tried, counted, unmarked, updates, errors>>

\* syn_ota_begin.  It alone reads the target slot and the verification mode, and the
\* application may have set any before (syn_ota_set_target_slot, _set_verification_key,
\* _set_aes_gcm_params): the slot is a parameter here, and the mode, which nothing depends
\* on before the image is complete, one of Finish.  No application names the slot it runs from.
Target(t) == IF t # AutoSlot THEN t ELSE IF mgr.active = 0 THEN 1 ELSE 0
Begin(v, t) ==
    /\ pc = "idle" /\ ota \in {"IDLE", "ERROR"} /\ t # running
    /\ updates < MaxUpdates /\ updates' = updates + 1
    /\ upd' = Begun(Target(t), v) /\ todo' = BeginOps(Target(t)) /\ pc' = "begin"
    /\ gambled' = \/ gambled \/ Confirmed \subseteq {Target(t)}
                   \/ \A s \in SlotIds \ {Target(t)} : ~Is(mgr.hdr[s], "CONFIRMED")
    /\ tried' = tried \ {Target(t)} /\ unmarked' = unmarked \ {Target(t)}
    /\ UNCHANGED <<flash, boot, ota, chunk, counted, errors>>

\* syn_ota_write_chunk: n units of the image, or of a corrupted transfer ...
WriteChunk(n, x) ==
    /\ pc = "idle" /\ ota = "DOWNLOADING" /\ x \in {upd.version, Mix}
    /\ \/ /\ upd.written + Len(upd.buf) + n > ImageSize
          /\ OtaAbort /\ UNCHANGED chunk
       \/ /\ upd.written + Len(upd.buf) + n <= ImageSize
          /\ upd' = Summed(x)
          /\ chunk' = [i \in 1 .. n |-> x] /\ pc' = "chunk" /\ UNCHANGED <<todo, ota>>
    /\ UNCHANGED <<flash, boot, history>>

\* ... which are copied page by page; a full page is flushed.
CopyPage ==
    /\ pc = "chunk" /\ todo = <<>> /\ chunk # <<>>
    /\ chunk' = SubSeq(chunk, Fit + 1, Len(chunk))
    /\ IF Len(Copied.buf) >= PageSize THEN todo' = FlushOps(Copied) /\ upd' = Flushed(Copied)
       ELSE todo' = <<>> /\ upd' = Copied
    /\ UNCHANGED <<flash, boot, pc, ota, history>>

\* syn_ota_finish, up to the last flush.  The verification mode and the signature or tag it
\* is called with play a part here and in the verdict, and are chosen in both: whatever
\* passes the first test may come to the second.
Finish(mode, t) ==
    /\ pc = "idle" /\ ota \in {"DOWNLOADING", "DOWNLOADED"}
    /\ \/ /\ (mode = "gcm" /\ t = "absent") \/ upd.written + Len(upd.buf) # ImageSize
          /\ OtaAbort
       \/ /\ mode # "gcm" \/ t # "absent"
          /\ upd.written + Len(upd.buf) = ImageSize
          /\ todo' = FlushOps(upd) /\ upd' = Flushed(upd) /\ pc' = "flush" /\ ota' = "VERIFYING"
    /\ UNCHANGED <<flash, boot, chunk, history>>

\* syn_ota_finish, after it: the verdict.
Verify(mode, t) ==
    /\ pc = "flush" /\ todo = <<>> /\ (mode # "gcm" \/ t # "absent")
    /\ \/ Verified(upd, mode, t) /\ todo' = FinishOps(upd) /\ pc' = "finish" /\ UNCHANGED <<upd, ota>>
       \/ ~Verified(upd, mode, t) /\ OtaAbort
    /\ UNCHANGED <<flash, boot, chunk, history>>

\* A call of the OTA manager returns; a finished update refreshes the cached headers.
OtaReturns ==
    /\ pc \in {"begin", "chunk", "finish", "abort"} /\ todo = <<>> /\ chunk = <<>>
    /\ pc' = "idle"
    /\ ota' = CASE pc = "begin" -> "DOWNLOADING"
                 [] pc = "chunk" /\ upd.written + Len(upd.buf) = ImageSize -> "DOWNLOADED"
                 [] pc = "finish" -> "READY"
                 [] OTHER -> ota
    /\ upd' = IF pc = "finish" THEN Finished ELSE upd
    /\ mgr' = IF pc = "finish" THEN [mgr EXCEPT !.hdr = ReadHeaders] ELSE mgr
    /\ UNCHANGED <<flash, todo, record, safe, running, chunk, history>>

\* syn_ota_apply
Apply == /\ pc = "idle" /\ ota = "READY" /\ ota' = "APPLIED"
         /\ UNCHANGED <<flash, todo, upd, boot, pc, chunk, history>>

\* syn_ota_abort, called by the application.
Cancel == pc = "idle" /\ OtaAbort /\ UNCHANGED <<flash, boot, chunk, history>>

App == \/ AppMarkHealthy \/ AppBootInit \/ Confirm \/ Apply \/ Cancel
       \/ \E v \in AppVersions, t \in SlotIds \cup {AutoSlot} : Begin(v, t)
       \/ \E n \in 1 .. MaxChunk, x \in Versions \cup {Mix} : WriteChunk(n, x)
       \/ \E mode \in Modes, t \in Tags : Finish(mode, t)
Next == \/ PowerOn \/ Jump \/ PowerCut \/ FlashStep \/ FlashError
        \/ ConfirmReturns \/ CopyPage \/ OtaReturns \/ App
        \/ \E mode \in Modes, t \in Tags : Verify(mode, t)
Spec == Init /\ [][Next]_vars
-----------------------------------------------------------------------------
\* Every variable has the type of the object it stands for.
TypeOK ==
    /\ flash \in [SlotIds -> [hdr : Headers \cup {Blank, Mix}, data : [Offsets -> Cells]]]
    /\ todo \in Seq(Ops) /\ chunk \in Seq(Cells)
    /\ upd \in [active : BOOLEAN, error : BOOLEAN, slot : SlotIds, version : Versions \cup {0},
                written : Nat, buf : Seq(Cells), intact : BOOLEAN, stale : SUBSET Offsets]
    /\ Len(upd.buf) < PageSize
    /\ mgr \in [hdr : [SlotIds -> Headers \cup {Blank, Mix}], active : SlotIds \cup {NoSlot}]
    /\ running \in SlotIds \cup {NoSlot} /\ pc \in Calls \cup {"off", "halt", "idle"}
    /\ ota \in OtaStates

\* The header is written last: when a slot becomes NEW it holds the image that was verified,
\* whatever was cut off, reported wrong or erred before, but for the units that flush_page
\* wrote over something else: units in a sector it does not erase (not Cleared) that were
\* not blank when the update began.
NewIsWhole ==
    [][\A s \in SlotIds : Is(flash'[s].hdr, "NEW") /\ ~Is(flash[s].hdr, "NEW") =>
          \A i \in Offsets \ upd.stale : flash'[s].data[i] = flash'[s].hdr.version]_vars

\* "Automatically erases sectors as needed.": a page is written only onto blank units, or
\* onto what they should hold.
ErasedAsNeeded == todo # <<>> /\ Head(todo).op = "data" => Clean(Head(todo))

\* Unless the application began an update over it, there is always a confirmed image to
\* fall back to, and the device always finds something to boot: no failure during a
\* download, a trial, a rollback or a confirmation takes the last one away.
FallbackKept == gambled \/ (Confirmed # {} /\ pc # "halt")

\* An image on trial that ran and never became healthy is rolled back, and does not run
\* again, even if the rollback itself was cut off, unless the boot record of its run was
\* not stored (counted is FALSE), or its mark could not be written (unmarked).
OneChance == running \notin tried \ unmarked

\* When a slot is marked TESTING, its image is there as it was verified: setting the state in
\* the header (write_state) changes nothing else.
StateOnly ==
    [][\A s \in SlotIds : Is(flash'[s].hdr, "TESTING") /\ ~Is(flash[s].hdr, "TESTING") => Whole(s)']_vars
-----------------------------------------------------------------------------
(* The inductive invariant behind FallbackKept. *)

\* Slot s holds a confirmed image that nothing under way can reach: no flash operation of the
\* running call, no update, and no confirmation of the slot the manager takes for active.
Kept(s) == /\ Is(flash[s].hdr, "CONFIRMED")
           /\ \A i \in DOMAIN todo : todo[i].slot # s
           /\ upd.active => upd.slot # s
           /\ mgr.active = s => Is(mgr.hdr[s], "CONFIRMED")

\* An update is never made over the active slot, and only an update writes images ...
UpdateInv ==
    /\ pc \notin {"off", "select"} => mgr.active \in {NoSlot, running}
    /\ upd.active => pc \notin {"off", "select"} /\ upd.slot # mgr.active
    /\ ota \in {"DOWNLOADING", "DOWNLOADED", "VERIFYING"} => upd.active
    /\ pc \in {"begin", "chunk", "flush", "finish"} => upd.active

\* ... only a call has flash operations to perform; write_state erases, then writes; and a
\* confirmation that comes to its end has been written.
StateInv ==
    /\ pc \notin Calls => todo = <<>>
    /\ pc = "select" => \A i \in DOMAIN todo : todo[i].op = "erase" => i + 1 \in DOMAIN todo
    /\ pc = "confirm" =>
          /\ mgr.active \in SlotIds
          /\ \E h \in Headers :
                /\ h.state = "CONFIRMED"
                /\ \/ todo = <<EraseOp(mgr.active, 0), HeaderOp(mgr.active, h)>>
                   \/ todo = <<HeaderOp(mgr.active, h)>> /\ flash[mgr.active].hdr = Blank
                   \/ todo = <<>> /\ flash[mgr.active].hdr = h

\* ... and unless the last one was gambled with, a confirmed image is kept, and found.
KeptInv == ~gambled => /\ \E s \in SlotIds : Kept(s)
                       /\ pc # "halt" /\ (pc = "select" => mgr.active # NoSlot)
-----------------------------------------------------------------------------
(* The inductive invariant behind OneChance. *)

\* The images that had their chance.
Spent == tried \ unmarked

\* A boot that was not reported healthy is recorded as such, if it is recorded at all ...
RecordInv ==
    /\ record \in Records \cup {Blank} /\ tried \subseteq SlotIds
    /\ counted => Unhealthy
    /\ pc \in {"off", "select"} => running = NoSlot

\* ... write_state erases and writes the same slot; apart from it and a confirmation, a header
\* is written only to reject an image, or to finish an update; and an update begins with the
\* erasure of the header.
WriteInv ==
    /\ pc = "select" => \A i \in DOMAIN todo : todo[i].op = "erase" => todo[i + 1].slot = todo[i].slot
    /\ pc \notin {"select", "confirm"} =>
          \A i \in DOMAIN todo : todo[i].op = "header" =>
              \/ todo[i].hdr.state = "INVALID"
              \/ todo[i].hdr.state = "NEW" /\ upd.active /\ todo[i].slot = upd.slot
    /\ upd.active /\ Is(flash[upd.slot].hdr, "TESTING") => pc = "begin" /\ todo = BeginOps(upd.slot)

\* A flash operation that takes the state of an image on trial away.
Rejects(o) == \/ o.op = "erase" /\ o.sector = 0
              \/ o.op = "header" /\ o.hdr.state = "INVALID"

\* An image that had its chance is not picked, confirmed or updated; its header says that it is
\* no good, or will as soon as the device is on again.
SpentInv == \A s \in Spent :
    /\ s \notin {running, mgr.active} /\ (upd.active => s # upd.slot)
    /\ ~Is(flash[s].hdr, "NEW") /\ ~Is(flash[s].hdr, "CONFIRMED")
    /\ Is(flash[s].hdr, "TESTING") =>
          /\ Unhealthy
          /\ pc = "off" \/ (pc = "select" /\ \E i \in DOMAIN todo : todo[i].slot = s)
    /\ \A i \in DOMAIN todo : todo[i].slot = s => pc = "select" /\ Rejects(todo[i])

TrialInv == RecordInv /\ WriteInv /\ SpentInv

IndInv == TypeOK /\ UpdateInv /\ StateInv /\ KeptInv /\ TrialInv
-----------------------------------------------------------------------------
(* The inductive invariant behind NewIsWhole. *)

\* Once the pages before unit k are on their way, unit i is blank until it is written: it was
\* from the start, or its sector has been begun, and was erased.
Fresh(i, k) == i \notin upd.stale /\ (Cleared(i) => SectorStart(i) < Address(k))

\* The first n units of the update are in the flash, and the fresh ones after them are blank.
Holds(n) == \A i \in Offsets \ upd.stale : i < n => flash[upd.slot].data[i] = upd.version
Erased(n, k) == \A i \in Offsets : i >= n /\ Fresh(i, k) => flash[upd.slot].data[i] = Blank

\* The page from unit w is on its way, into a sector that is to be erased or has been.
Page(w) == [k \in 1 .. upd.written - w |-> upd.version]
Flushing == \E w \in Offsets :
    /\ w % PageSize = 0 /\ upd.written - w \in 1 .. PageSize /\ Holds(w)
    /\ \/ /\ todo = <<EraseOp(upd.slot, Address(w)), DataOp(upd.slot, w, Page(w))>>
          /\ Address(w) % SectorSize = 0 /\ Erased(w, w)
       \/ todo = <<DataOp(upd.slot, w, Page(w))>> /\ Erased(w, w + 1)

\* A header makes an image new at the end of an update only, once it is complete and intact ...
HeaderInv ==
    /\ pc = "abort" => ~upd.active
    /\ pc = "finish" => Streamed(upd) /\ (todo # <<>> => todo = FinishOps(upd))
    /\ \A i \in DOMAIN todo : todo[i].op = "header" /\ todo[i].hdr.state = "NEW" => pc = "finish"

\* ... no more is taken than the image has, and all but the last page are full ...
StreamInv == upd.active =>
    /\ upd.written + Len(upd.buf) <= ImageSize
    /\ pc = "chunk" => upd.written + Len(upd.buf) + Len(chunk) <= ImageSize
    /\ pc = "chunk" \/ ota \in {"DOWNLOADING", "DOWNLOADED"} => upd.written % PageSize = 0
    /\ pc = "begin" => upd.written = 0 /\ (todo # <<>> => todo = BeginOps(upd.slot))

\* ... and what was taken in is in the flash, on its way there, or in the page buffer.
DataInv == upd.active /\ upd.intact =>
    /\ \A k \in DOMAIN upd.buf : upd.buf[k] = upd.version
    /\ pc = "chunk" => \A k \in DOMAIN chunk : chunk[k] = upd.version
    /\ pc \in {"chunk", "flush"} /\ todo # <<>> => Flushing
    /\ todo = <<>> \/ pc \in {"confirm", "finish"} =>
          Holds(upd.written) /\ Erased(upd.written, upd.written)
    /\ pc = "begin" => \A i \in Offsets \ upd.stale : ~Cleared(i) => flash[upd.slot].data[i] = Blank

ImageInv == HeaderInv /\ StreamInv /\ DataInv
=============================================================================
