\* The history windows of every BETWEEN frame.
CONSTANTS
    Width = 8
    Offsets <- MCOffsets
    Extents <- MCBetweenExtents
    NoBound = NoBound
    NoExtent = NoExtent
SPECIFICATION Spec
INVARIANT HistoryWindowMatchesFrame
