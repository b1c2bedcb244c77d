SPECIFICATION Spec
CONSTANTS
    NTasks = 2
    Levels = 1
    Flags = {e1}
    Half = 4
    StartTicks = {0, 1, 2, 3, 4, 5, 6, 7}
    MaxDelay = 1
    MaxLate = 1
    Ops = {"yield", "delay", "event", "timeout"}
    Controls = {"restart"}
INVARIANTS
    BlockReturnsForAReason
    DelayIsKept
