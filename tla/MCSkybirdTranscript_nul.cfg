\* A chunk one of whose lines is only a NUL: a counterexample to CountsWhatLands.
SPECIFICATION Spec
CONSTANTS
    LiveEdge = 2
    Seg = 2
    Sizes = {0, 5}
    MaxLag = 1
    Chunk = 3
    Audible = 2
    Limit = 6
    MaxPending = 2
    PerTick = 1
    Patience = 2
    MinLoss = 3
    Hearings <- WithNul
    Horizon = 8
    MaxFaults = 2
CHECK_DEADLOCK FALSE
PROPERTY CountsWhatLands
