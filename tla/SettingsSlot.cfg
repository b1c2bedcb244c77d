SPECIFICATION Spec
CONSTANTS
    Sectors = 2
    Slots = 2
    SeqHalf = 6
    Blank = Blank
    Mix = Mix
    Values = {v1, v2}
    Defaults = v1
INVARIANTS
    FreeSlot
