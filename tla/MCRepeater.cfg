\* An IntRepeater refilled by a Range whose step overflows T.
CONSTANTS
    Kind = "int"
    Width = 5
    InitValues <- MCInitValues
    Fills <- RangeFills
    MaxLen = 40
SPECIFICATION Spec
\* A Range loop that never ends leaves the program hung: nothing follows.
CHECK_DEADLOCK FALSE
INVARIANT RangeReturnsProgression
