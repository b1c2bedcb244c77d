SPECIFICATION FairSpec
CONSTANTS
    Items = {i1}
    NoItem = NoItem
    Capacity = 2
    OverflowWrap = 2
    Tasks = {t1}
    NoTask = NoTask
    MaxCount = 2
PROPERTY SignalUnblocks
