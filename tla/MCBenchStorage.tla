--------------------------- MODULE MCBenchStorage ---------------------------
(***************************************************************************)
(* BuildOnePkTableStorage(data_size) for data_size 0, 1, 3 and 9: col6's  *)
(* eight strings wrap at row 9, col0's single one at every row.           *)
(*                                                                         *)
(* col1..col3 keep the code's Range arguments (col3 is real, but every   *)
(* value of 1.0 + 3.0i is an exact integer, as is every 100.0 + 10.0i of   *)
(* col4).  col4's range is cut from 100..10000 (991 values) to 100..500    *)
(* (41): TLC evaluates the loop recursively and deeper loops overflow its  *)
(* stack.                                                                  *)
(* col5's timestamps 1576571615000 - 1e8 .. 1576571615000 lie outside     *)
(* TLC's integers: they are shifted down by 1576571615000 - 1e8 and the    *)
(* range is cut to its first 51 values, which leaves the first nine rows   *)
(* as the code builds them up to the shift.  TLC's integers are 32-bit, so *)
(* the int32, float, double and int64 columns get 30 bits: none of their  *)
(* values comes near 2^29, and int16 keeps its 16.                         *)
(***************************************************************************)
EXTENDS BenchStorage

MCCol0Init == <<"hello">>
MCCol6Init == <<"astring", "bstring", "cstring", "dstring",
                "estring", "fstring", "gstring", "hstring">>

RangeArg(a, b, s) == [min |-> a, max |-> b, step |-> s]

MCRangeArgs == <<RangeArg(1, 100, 1), RangeArg(1, 100, 2), RangeArg(1, 100, 3),
                 RangeArg(100, 500, 10), RangeArg(0, 50000, 1000)>>

MCWidths == <<30, 16, 30, 30, 30>>

\* A row, tables and partitions of buffers b1..b4 (one partition shares
\* b2 between two segments), the null pointer, and a table and a partition
\* whose iterator is null.
MCHandlers ==
    {[kind |-> "null"],
     [kind |-> "row", row |-> "b1"],
     [kind |-> "table", iter |-> "live", rows |-> <<>>],
     [kind |-> "table", iter |-> "live", rows |-> <<"b1", "b2", "b3">>],
     [kind |-> "table", iter |-> "null", rows |-> <<"b1">>],
     [kind |-> "partition", iter |-> "live", windows |-> <<<<"b1", "b2">>, <<"b3">>, <<"b4">>>>],
     [kind |-> "partition", iter |-> "live", windows |-> <<<<>>, <<"b2", "b4">>, <<"b2">>>>],
     [kind |-> "partition", iter |-> "null", windows |-> <<<<"b1">>>>]}

=============================================================================
