-------------------------------- MODULE Kernel --------------------------------
(***************************************************************************)
(* Three services side by side: the mutex (Mutex), the tickless loop       *)
(* (Tickless) and the settings (Settings).  They share no state, so each   *)
(* behaviour is of one of them while the others stay as they were          *)
(* initialised.                                                            *)
(***************************************************************************)
EXTENDS Mutex, Tickless, Settings

VARIABLE service  \* the one that is used
kernel_vars == <<all_mutex_vars, tickless_vars, vars, service>>

KernelInit == /\ MutexInit /\ TicklessInit /\ Init
              /\ service \in {"mutex", "tickless", "settings"}
              /\ service # "mutex" => base_priority = [t \in Lockers |-> 0]

Used(s) == service = s /\ UNCHANGED service
UseMutex == Used("mutex") /\ MutexNext /\ UNCHANGED <<tickless_vars, vars>>
UseTickless == Used("tickless") /\ TicklessNext /\ UNCHANGED <<all_mutex_vars, vars>>
UseSettings == Used("settings") /\ Next /\ UNCHANGED <<all_mutex_vars, tickless_vars>>

KernelNext == UseMutex \/ UseTickless \/ UseSettings
KernelSpec == KernelInit /\ [][KernelNext]_kernel_vars
=============================================================================
