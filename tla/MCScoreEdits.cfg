CONSTANTS
    Durations <- MCDurations
    NoId <- NoEventId
    Initial <- MCInitial
    Contents <- MCContents
    Capacity = 3
    MaxCascade = 2
    MaxBars = 4
    MaxEdits = 3

SPECIFICATION Spec

INVARIANT EntriesStand
INVARIANT VoicesAligned
INVARIANT BarsFit
PROPERTY BarsKeepTheirTime
PROPERTY EntriesFollowTheirBars
PROPERTY SpansAnchored

CHECK_DEADLOCK FALSE
