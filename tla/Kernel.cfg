SPECIFICATION KernelSpec
CONSTANTS
    Lockers = {t1, t2, t3}
    NoTask = NoTask
    Mutexes = {1, 2}
    Levels = 3
    MaxDepth = 2
    NTimers = 1
    Half = 7
    StartTicks = {0}
    MaxPeriod = 2
    MaxLate = 1
    Tasks = {t1}
    Sectors = 2
    Slots = 2
    SeqHalf = 6
    Blank = Blank
    Mix = Mix
    Values = {v1, v2}
    Defaults = v1
INVARIANTS
    OwnerHolds
    BoostEnds
    ExpiresOnTime
    NoTaskLeftBehind
    NoTimerLeftBehind
    LockKeepsAwake
    OldOrNew
    ActiveIsNewest
    UnchangedIsStored
PROPERTIES
    NoInversion
