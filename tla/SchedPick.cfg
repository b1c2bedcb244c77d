SPECIFICATION FairSpec
CONSTANTS
    NTasks = 3
    Levels = 2
    Flags = {e1}
    Half = 2
    StartTicks = {0}
    MaxDelay = 0
    MaxLate = 0
    Ops = {"yield", "wait", "event", "exit"}
    Controls = {}
INVARIANTS
    StrictPriority
    WorkConserving
    RoundRobin
PROPERTIES
    ReadyRuns
