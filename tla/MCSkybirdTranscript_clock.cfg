\* Two faults, a stream of four segments, a playlist that lists none or five.
SPECIFICATION Spec
CONSTANTS
    LiveEdge = 2
    Seg = 2
    Sizes = {0, 5}
    MaxLag = 1
    Chunk = 3
    Audible = 2
    Limit = 6
    MaxPending = 2
    PerTick = 1
    Patience = 2
    MinLoss = 3
    Hearings <- OneLine
    Horizon = 7
    MaxFaults = 2
CHECK_DEADLOCK FALSE
INVARIANTS
    StampsHold
    NextIsFree
    ClockCoversLines
PROPERTIES
    SeamsAsPlanned
    NoSilentHole
    BacklogIsHeard
