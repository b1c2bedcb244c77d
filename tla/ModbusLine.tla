------------------------------- MODULE ModbusLine ------------------------------
(***************************************************************************)
(* What the master and the slaves of a Modbus RTU line share: the tick     *)
(* counter and the bytes on the line.                                      *)
(*                                                                         *)
(* A frame is a record, or Junk: bytes whose CRC does not match.  Two      *)
(* frames in one buffer are one run of bytes, and Junk.  The field id      *)
(* names the request a frame belongs to; it is a history value that no     *)
(* guard reads.                                                            *)
(***************************************************************************)
EXTENDS Integers

CONSTANTS Slaves,     \* slave addresses
          Clock,      \* the tick counter wraps at this (2^32)
          None, Junk  \* no bytes; bytes that are no frame

ASSUME LineAssumption == Clock \in Nat \ {0} /\ None # Junk

VARIABLE now  \* syn_port_get_tick_ms

Since(t) == (now - t) % Clock

\* Bytes f received behind the bytes b.
Behind(b, f) == CASE b = None -> f
                  [] b # None /\ f = None -> b
                  [] b # None /\ f # None -> Junk
=============================================================================
