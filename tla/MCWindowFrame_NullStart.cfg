\* Frames whose extents may have a null start bound.
CONSTANTS
    Width = 8
    Offsets <- MCOffsets
    Extents <- MCNullStartExtents
    NoBound = NoBound
    NoExtent = NoExtent
SPECIFICATION Spec
INVARIANT HistoryClassificationMatchesFrame
