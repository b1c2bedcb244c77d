SPECIFICATION AllSpec
CONSTANTS
    Msgs = {m1, m2}
    Capacity = 3
    OverflowWrap = 2
    Torn = torn
    Items = {i1, i2}
    NoItem = NoItem
    Tasks = {t1, t2}
    NoTask = NoTask
    MaxCount = 3
    Signals = {1, 2}
    Depth = 2
    Rows <- MCRows
    InitialState = 1
    MaxPosts = 4
INVARIANTS
    NoTornMessage
    CountIsPromise
    NeverOverdrawn
    WorkHasToken
    NoStrandedEvent
PROPERTIES
    PeekStable
    IsFifo
    WorkIsFifo
    AcceptedRuns
    AcceptedIsDispatched
