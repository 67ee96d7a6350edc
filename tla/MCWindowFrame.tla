--------------------------- MODULE MCWindowFrame ---------------------------
(***************************************************************************)
(* Model-checking instance of WindowFrame: int64_t as 8 bits, offsets 0   *)
(* (where OPEN PRECEDING turns positive), 1 (where an open bound becomes  *)
(* the current row) and 2.                                                 *)
(***************************************************************************)
EXTENDS WindowFrame

MCOffsets == {0, 1, 2}

\* Frames written ROWS/RANGE BETWEEN x AND y.
MCBetweenExtents == BetweenExtents \cup {NoExtent}

\* Extents with a null start pointer as well (the end is always present:
\* a null end is dereferenced by GetHistoryRowsEnd).
MCNullStartExtents == [start : Bounds \cup {NoBound}, end : Bounds] \cup {NoExtent}

=============================================================================
