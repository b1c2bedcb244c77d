-------------------------------- MODULE FwUpdate --------------------------------
(***************************************************************************)
(* The streaming firmware updater (system/syn_fwupdate.c): a download goes *)
(* through a page buffer into a slot, and the header that makes the slot   *)
(* bootable is written last, when the image has been verified.             *)
(***************************************************************************)
EXTENDS FwSlots

Modes == {"none", "hmac", "ed25519", "gcm"}
Tags == {"absent", "wrong", "right"}

VARIABLES upd,     \* SYN_FwUpdate; intact: the running checksums are those of the image so far;
                   \* stale (history): the units it writes over something else
          chunk    \* what the running syn_fwupdate_write has still to copy

\* Nothing reads what an inactive update leaves behind but its error flag.
Inactive(error) == [active |-> FALSE, error |-> error, slot |-> 0, version |-> 0, written |-> 0,
                    buf |-> <<>>, intact |-> TRUE, stale |-> {}]
NoUpdate == Inactive(FALSE)

\* flush_page erases a sector after the first only if a page other than the first starts
\* exactly at its first address.
Cleared(i) == LET a == SectorStart(i)
              IN  a = 0 \/ (a > HeaderSize /\ (a - HeaderSize) % PageSize = 0)

\* syn_fwupdate_begin: the state it sets up, and the erase that follows.
Begun(s, v) == [active |-> TRUE, error |-> FALSE, slot |-> s, version |-> v, written |-> 0,
                buf |-> <<>>, intact |-> TRUE,
                stale |-> {i \in Offsets : ~Cleared(i) /\ flash[s].data[i] # Blank}]
BeginOps(s) == <<EraseOp(s, 0)>>

\* Mutant of FlushOps: later sectors are not erased.
FlushOpsNoErase(u) == IF u.buf = <<>> THEN <<>> ELSE <<DataOp(u.slot, u.written, u.buf)>>

\* flush_page: the erase of a sector whose first address the page starts at, the write,
\* and the new state.
FlushOps(u) ==
    LET a == Address(u.written)
        write == DataOp(u.slot, u.written, u.buf)
    IN  IF u.buf = <<>> THEN <<>>
        ELSE IF a % SectorSize = 0 /\ u.written > 0 THEN <<EraseOp(u.slot, a), write>>
        ELSE <<write>>
Flushed(u) == [u EXCEPT !.written = @ + Len(u.buf), !.buf = <<>>]

\* The running CRC, HMAC and GHASH take in the bytes x of a chunk.
Summed(x) == [upd EXCEPT !.intact = @ /\ x # Mix]

\* An iteration of the loop of syn_fwupdate_write: what fits into the page is copied into it.
Fit == IF Len(chunk) < PageSize - Len(upd.buf) THEN Len(chunk) ELSE PageSize - Len(upd.buf)
Copied == [upd EXCEPT !.buf = @ \o SubSeq(chunk, 1, Fit)]

\* The checks of syn_fwupdate_finish and syn_fwupdate_finish_gcm, after the last flush.  The
\* CRC, the HMAC and the GCM tag are those of the stream; the signature is checked against
\* what the flash holds.
Streamed(u) == u.intact /\ u.written = ImageSize
Stored(u) == \A i \in Offsets : flash[u.slot].data[i] = u.version
VerifiedGcm(u, tag) == Streamed(u) /\ tag = "right"
Verified(u, mode, tag) ==
    CASE mode = "gcm" -> VerifiedGcm(u, tag)
      [] mode = "ed25519" -> Streamed(u) /\ (tag # "absent" => tag = "right" /\ Stored(u))
      [] mode = "hmac" -> Streamed(u) /\ tag # "wrong"
      [] mode = "none" -> Streamed(u)

FinishOps(u) == <<HeaderOp(u.slot, Header(u.version, "NEW"))>>
Finished == NoUpdate

\* syn_fwupdate_abort: best effort, an active update only.
AbortOps(u) == IF u.active THEN <<EraseOp(u.slot, 0), HeaderOp(u.slot, Header(0, "INVALID"))>>
               ELSE <<>>
Aborted(u) == IF u.active THEN Inactive(TRUE) ELSE u
=============================================================================
