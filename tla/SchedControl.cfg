SPECIFICATION Spec
CONSTANTS
    NTasks = 2
    Levels = 2
    Flags = {}
    Half = 2
    StartTicks = {0}
    MaxDelay = 0
    MaxLate = 0
    Ops = {"yield", "wait", "defer", "cond", "exit"}
    Controls = {"suspend", "resume", "restart", "boost", "restore", "setbase"}
INVARIANTS
    NoLostWakeup
    TickLocalStates
PROPERTIES
    SuspendHolds
