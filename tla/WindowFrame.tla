---------------------------- MODULE WindowFrame ----------------------------
(***************************************************************************)
(* The window-frame value types of src/include/node/sql_node.h:           *)
(* FrameBound (a bound type and an int64 offset), FrameExtent (a start and *)
(* an end bound, either of which may be a null pointer) and FrameNode (a   *)
(* frame type, an optional range extent, an optional rows extent and a     *)
(* max size), with the derived "history" metrics the aggregation runner    *)
(* uses to decide how far back to scan.                                    *)
(*                                                                         *)
(* int64_t is modelled as a two's-complement integer of Width bits, so     *)
(* INT64_MIN / INT64_MAX are the sentinels IntMin / IntMax and every       *)
(* multiplication by -1 wraps the way the compiled code does.              *)
(*                                                                         *)
(* The state is one FrameNode; the only operation that changes a frame    *)
(* after construction is set_frame_type.                                  *)
(***************************************************************************)
EXTENDS Integers

CONSTANTS
    Width,      \* bit width standing for int64_t
    Offsets,    \* the offsets a FrameBound may carry
    Extents,    \* the FrameExtent values (and NoExtent) the planner builds
    NoBound,    \* a null FrameBound* inside an extent
    NoExtent    \* a null FrameExtent* inside a frame

ASSUME Width \in 3..16
ASSUME Offsets \subseteq Nat

IntMin == -(2 ^ (Width - 1))
IntMax == 2 ^ (Width - 1) - 1

\* Two's-complement wrap of an exact integer into Width bits.
Wrap(x) == ((x - IntMin) % (2 ^ Width)) + IntMin

BoundTypes == {"PrecedingUnbound", "OpenPreceding", "Preceding", "Current",
               "OpenFollowing", "Following", "FollowingUnbound"}
FrameTypes == {"Rows", "Range", "RowsRange", "RowsMergeRowsRange"}

\* FrameBound(bound_type, offset, is_time_offset); the single-argument
\* constructor used for CURRENT ROW and the unbounded bounds sets offset 0.
Bounds ==
    {[bound_type |-> t, offset |-> o] :
        t \in {"OpenPreceding", "Preceding", "OpenFollowing", "Following"},
        o \in Offsets}
    \cup {[bound_type |-> t, offset |-> 0] :
            t \in {"PrecedingUnbound", "Current", "FollowingUnbound"}}

\* FrameExtent(start, end): either pointer may be null.
AllExtents == [start : Bounds \cup {NoBound}, end : Bounds \cup {NoBound}]

\* FrameExtent values written "BETWEEN x AND y", both bounds present.
BetweenExtents == [start : Bounds, end : Bounds]

Frames == [frame_type : FrameTypes, frame_range : Extents, frame_rows : Extents]

VARIABLE frame

vars == <<frame>>

(***************************************************************************)
(* FrameBound::GetSignedOffset                                             *)
(***************************************************************************)
GetSignedOffset(b) ==
    CASE b.bound_type = "Current"          -> 0
      [] b.bound_type = "Following"        -> b.offset
      [] b.bound_type = "OpenFollowing"    -> Wrap(b.offset - 1)
      [] b.bound_type = "Preceding"        -> Wrap(-1 * b.offset)
      [] b.bound_type = "OpenPreceding"    -> Wrap(-1 * Wrap(b.offset - 1))
      [] b.bound_type = "PrecedingUnbound" -> IntMin
      [] b.bound_type = "FollowingUnbound" -> IntMax

\* The "x > 0 ? 0 : x" clamp the history metrics apply to a bound.
ClampToHistory(b) == IF GetSignedOffset(b) > 0 THEN 0 ELSE GetSignedOffset(b)

(***************************************************************************)
(* FrameNode history metrics, each a translation of the nested            *)
(* conditional expression of the same name.                                *)
(***************************************************************************)
GetHistoryRangeStart(f) ==
    CASE f.frame_rows = NoExtent /\ f.frame_range = NoExtent -> IntMin
      [] f.frame_rows = NoExtent ->
            IF f.frame_range.start = NoBound THEN IntMin
            ELSE ClampToHistory(f.frame_range.start)
      [] OTHER ->
            IF f.frame_range = NoExtent \/ f.frame_range.start = NoBound THEN 0
            ELSE ClampToHistory(f.frame_range.start)

GetHistoryRangeEnd(f) ==
    IF f.frame_range = NoExtent \/ f.frame_range.end = NoBound THEN 0
    ELSE ClampToHistory(f.frame_range.end)

\* Faulty variant: the start bound is not clamped to the current row.
GetHistoryRowsStartUnclamped(f) ==
    CASE f.frame_rows = NoExtent /\ f.frame_range = NoExtent -> IntMin
      [] f.frame_range = NoExtent ->
            IF f.frame_rows.start = NoBound THEN IntMin
            ELSE GetSignedOffset(f.frame_rows.start)
      [] OTHER ->
            IF f.frame_rows = NoExtent \/ f.frame_rows.start = NoBound THEN 0
            ELSE GetSignedOffset(f.frame_rows.start)

GetHistoryRowsStart(f) ==
    CASE f.frame_rows = NoExtent /\ f.frame_range = NoExtent -> IntMin
      [] f.frame_range = NoExtent ->
            IF f.frame_rows.start = NoBound THEN IntMin
            ELSE ClampToHistory(f.frame_rows.start)
      [] OTHER ->
            IF f.frame_rows = NoExtent \/ f.frame_rows.start = NoBound THEN 0
            ELSE ClampToHistory(f.frame_rows.start)

\* -1 * GetHistoryRowsStart(): wraps at INT64_MIN.
GetHistoryRowsStartPreceding(f) == Wrap(-1 * GetHistoryRowsStart(f))

\* Both branches test frame_rows_->start() for null and then read
\* frame_rows_->end(); with a range extent present the end is clamped,
\* without one it is returned as it is.
GetHistoryRowsEnd(f) ==
    CASE f.frame_rows = NoExtent /\ f.frame_range = NoExtent -> IntMin
      [] f.frame_range = NoExtent ->
            IF f.frame_rows.start = NoBound THEN IntMin
            ELSE GetSignedOffset(f.frame_rows.end)
      [] OTHER ->
            IF f.frame_rows = NoExtent \/ f.frame_rows.start = NoBound THEN 0
            ELSE ClampToHistory(f.frame_rows.end)

IsHistoryFrame(f) ==
    IF f.frame_type = "Rows" THEN GetHistoryRowsEnd(f) < 0
    ELSE GetHistoryRangeEnd(f) < 0

IsPureHistoryFrame(f) ==
    CASE f.frame_type = "Rows"               -> GetHistoryRowsEnd(f) < 0
      [] f.frame_type = "RowsRange"          -> GetHistoryRangeEnd(f) < 0
      [] f.frame_type = "RowsMergeRowsRange" ->
            GetHistoryRangeEnd(f) < 0 /\ GetHistoryRowsEnd(f) < 0
      [] f.frame_type = "Range"              -> FALSE

(***************************************************************************)
(* Initial frames are the ones the planner constructs; set_frame_type is  *)
(* the one mutator (the planner retypes a frame when it merges windows).  *)
(***************************************************************************)
Init == frame \in Frames

set_frame_type(t) == frame' = [frame EXCEPT !.frame_type = t]

Next == \E t \in FrameTypes : set_frame_type(t)

Spec == Init /\ [][Next]_vars

-----------------------------------------------------------------------------
(***************************************************************************)
(* What a frame means (spec.md, sections 3 and 4.2).  The extent that     *)
(* decides whether a frame is a history frame is the rows extent of a     *)
(* Rows frame and the range extent of every other frame type.  An absent  *)
(* start is unbounded preceding, an absent end unbounded following.  The  *)
(* history part of an extent is the extent with every bound that looks    *)
(* forward clamped to the current row (offset 0).                          *)
(***************************************************************************)
RelevantExtent(f) ==
    IF f.frame_type = "Rows" THEN f.frame_rows ELSE f.frame_range

\* The planner builds a Rows frame with a rows extent only, a Range or
\* RowsRange frame with a range extent only, and a merged frame with both.
WellFormed(f) ==
    CASE f.frame_type = "Rows" ->
            f.frame_rows # NoExtent /\ f.frame_range = NoExtent
      [] f.frame_type \in {"Range", "RowsRange"} ->
            f.frame_range # NoExtent /\ f.frame_rows = NoExtent
      [] f.frame_type = "RowsMergeRowsRange" ->
            f.frame_rows # NoExtent /\ f.frame_range # NoExtent

\* The frame ends strictly before the current row.
EndsBeforeCurrent(e) == e.end # NoBound /\ GetSignedOffset(e.end) < 0

HistoryLow(e)  == IF e.start = NoBound THEN IntMin
                  ELSE IF GetSignedOffset(e.start) > 0 THEN 0
                       ELSE GetSignedOffset(e.start)
HistoryHigh(e) == IF e.end = NoBound THEN 0
                  ELSE IF GetSignedOffset(e.end) > 0 THEN 0
                       ELSE GetSignedOffset(e.end)

\* Offsets at and before the current row that a window can reach.
Probes == {-(o + 1) : o \in Offsets} \cup {-o : o \in Offsets}

InWindow(o, lo, hi) == lo <= o /\ o <= hi

-----------------------------------------------------------------------------
\* IsHistoryFrame (used to decide whether the request row can be left out
\* of the window scan) holds exactly when the frame's relevant extent ends
\* strictly before the current row, for the extents the planner builds,
\* a null start bound (unbounded preceding) included.
HistoryClassificationMatchesFrame ==
    WellFormed(frame) =>
        (IsHistoryFrame(frame) <=> EndsBeforeCurrent(RelevantExtent(frame)))

\* The rows and range windows spanned by GetHistoryRowsStart..End and
\* GetHistoryRangeStart..End contain exactly the offsets at or before the
\* current row that the history part of the extent contains.
HistoryWindowMatchesFrame ==
    WellFormed(frame) =>
        \A o \in Probes :
            /\ frame.frame_rows # NoExtent =>
                 (InWindow(o, GetHistoryRowsStart(frame), GetHistoryRowsEnd(frame))
                    <=> InWindow(o, HistoryLow(frame.frame_rows),
                                    HistoryHigh(frame.frame_rows)))
            /\ frame.frame_range # NoExtent =>
                 (InWindow(o, GetHistoryRangeStart(frame), GetHistoryRangeEnd(frame))
                    <=> InWindow(o, HistoryLow(frame.frame_range),
                                    HistoryHigh(frame.frame_range)))

=============================================================================
