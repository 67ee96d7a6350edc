---------------------------- MODULE MCRepeater ----------------------------
(***************************************************************************)
(* An IntRepeater over a 5-bit T (-16..15), built from a vector of three  *)
(* values as BuildOnePkTableData builds col6, and refilled by Range calls *)
(* inside T and near its top.                                              *)
(***************************************************************************)
EXTENDS Repeater

\* The constructor's vector.
MCInitValues == {<<5, 6, 7>>}

RangeCall(a, b, s) == [op |-> "range", min |-> a, max |-> b, step |-> s]

\* 1..3 step 1 stays inside T.  13..14 step 3 pushes 13, and 13 + 3 = 16
\* wraps to -16, which is <= 14, so the loop goes on through the wrapped
\* values until one of them exceeds 14.
RangeFills == {RangeCall(1, 3, 1), RangeCall(13, 14, 3)}

=============================================================================
