-------------------------------- MODULE FwBoot --------------------------------
(***************************************************************************)
(* What happens at reset: the boot record counts unhealthy boots           *)
(* (system/syn_boot.c), and the A/B boot manager picks a slot, gives a new  *)
(* image its trial, or rolls an unhealthy one back (system/syn_fwboot.c).  *)
(*                                                                         *)
(* The boot record is saved with syn_param_save, which leaves the old or   *)
(* the new record when the power fails, when the flash reports an error,   *)
(* and even when it returns SYN_OK, if it wrote over the remains of an     *)
(* earlier save (module Settings).  Failure counts above Threshold are     *)
(* alike.                                                                  *)
(***************************************************************************)
EXTENDS FwSlots

CONSTANT Threshold   \* safe_threshold

Records == [fail : Nat, healthy : BOOLEAN]

ASSUME BootAssumption == Threshold \in Nat \ {0} /\ Blank \notin Records

VARIABLES mgr,      \* SYN_FwBootManager: the cached headers and the active slot
          record,   \* SYN_BootData in its parameter store; Blank before the first boot
          safe      \* safe_mode

\* Mutant of BootRecord: a healthy boot stays healthy until it is marked again.
BootRecordStaysHealthy ==
    IF record = Blank THEN [fail |-> 0, healthy |-> FALSE]
    ELSE IF record.healthy THEN record
    ELSE [fail |-> IF record.fail < Threshold THEN record.fail + 1 ELSE Threshold, healthy |-> FALSE]

\* syn_boot_init
BootRecord == IF record = Blank \/ record.healthy THEN [fail |-> 0, healthy |-> FALSE]
              ELSE [fail |-> IF record.fail < Threshold THEN record.fail + 1 ELSE Threshold,
                    healthy |-> FALSE]
\* ... whose save may be lost: its status is not looked at.
BootInit(saved) == /\ record' = IF saved THEN BootRecord ELSE record
                   /\ safe' = (BootRecord.fail >= Threshold)

Unhealthy == record # Blank /\ ~record.healthy

\* syn_boot_mark_healthy
Healthy == [fail |-> 0, healthy |-> TRUE]
MarkHealthy == record' \in {record, Healthy} /\ UNCHANGED safe

\* syn_boot_clear_safe_mode
ClearSafeMode == record' \in {record, Healthy} /\ safe' = FALSE
-----------------------------------------------------------------------------
\* syn_fwboot_init and syn_fwboot_refresh read both headers.
ReadHeaders == [s \in SlotIds |-> flash[s].hdr]
NoManager == [hdr |-> [s \in SlotIds |-> Blank], active |-> NoSlot]

\* write_state
StateOps(s, h, state) == <<EraseOp(s, 0), HeaderOp(s, [h EXCEPT !.state = state])>>

First(S) == CHOOSE s \in S : \A t \in S : s <= t

\* Mutant of Failed: a rollback rejects whatever is in a slot, not only an image on trial.
FailedAny(hdrs, rollback) == {s \in SlotIds : rollback /\ HeaderValid(hdrs[s])}

\* The images on trial that syn_fwboot_select(rollback) rejects.
Failed(hdrs, rollback) == {s \in SlotIds : rollback /\ Is(hdrs[s], "TESTING")}

\* syn_fwboot_select: the images that are left in each state, ...
Left(hdrs, rollback, state) == {s \in SlotIds \ Failed(hdrs, rollback) : Is(hdrs[s], state)}
OnTrial(hdrs, rollback) == Left(hdrs, rollback, "TESTING") = {} /\ Left(hdrs, rollback, "NEW") # {}

\* ... the slot picked, ...
Newest(hdrs, S) == {s \in S : \A t \in S : hdrs[t].version <= hdrs[s].version}
Picked(hdrs, rollback) ==
    LET In(state) == Left(hdrs, rollback, state)
    IN  IF In("TESTING") # {} THEN First(In("TESTING"))
        ELSE IF In("NEW") # {} THEN First(In("NEW"))
        ELSE IF In("CONFIRMED") # {} THEN First(Newest(hdrs, In("CONFIRMED")))
        ELSE NoSlot

\* ... the states written, in the cached headers and by the flash operations.
Marked(hdrs, rollback, s) ==
    IF s \in Failed(hdrs, rollback) THEN [hdrs[s] EXCEPT !.state = "INVALID"]
    ELSE IF OnTrial(hdrs, rollback) /\ s = Picked(hdrs, rollback) THEN [hdrs[s] EXCEPT !.state = "TESTING"]
    ELSE hdrs[s]
Reject(hdrs, rollback, s) ==
    IF s \in Failed(hdrs, rollback) THEN StateOps(s, hdrs[s], "INVALID") ELSE <<>>
Select(hdrs, rollback) ==
    [active |-> Picked(hdrs, rollback),
     hdr |-> [s \in SlotIds |-> Marked(hdrs, rollback, s)],
     ops |-> Reject(hdrs, rollback, 0) \o Reject(hdrs, rollback, 1) \o
             (IF OnTrial(hdrs, rollback)
              THEN StateOps(Picked(hdrs, rollback), hdrs[Picked(hdrs, rollback)], "TESTING")
              ELSE <<>>)]

\* syn_fwboot_confirm reads the cached header of the active slot without checking it: a
\* spoiled one may hold anything.
Fields(h) == CASE h = Mix -> Headers
               [] h = Blank -> {}
               [] OTHER -> {h}
=============================================================================
