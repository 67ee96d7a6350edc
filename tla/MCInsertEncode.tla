-------------------------- MODULE MCInsertEncode --------------------------
(***************************************************************************)
(* One INSERT row against a table of one column of each type, or of an    *)
(* int32 and a varchar column, with int16, int32 and int64 literals in     *)
(* and out of range, a bool, fractional and whole reals, strings that are *)
(* and are not dates, NULL and a non-constant expression.                 *)
(***************************************************************************)
EXTENDS InsertEncode

Col(n, t) == [name |-> n, type |-> t]

MCSchemas ==
    {<<Col("c1", t)>> : t \in {"kInt16", "kInt32", "kInt64", "kTimestamp", "kFloat",
                               "kVarchar", "kDate", "kBool"}}
    \cup {<<Col("c1", "kInt32"), Col("c2", "kVarchar")>>}

MCColumnLists == {<<>>, <<"c1">>, <<"c1", "c2">>, <<"c2", "c1">>, <<"c1", "c1">>, <<"cx">>}

Consts ==
    { [dt |-> "kInt16", v |-> 5], [dt |-> "kInt32", v |-> 20], [dt |-> "kInt32", v |-> -3],
      [dt |-> "kInt64", v |-> 100], [dt |-> "kBool", v |-> 1],
      [dt |-> "kFloat", v |-> [num |-> 5, den |-> 2]],
      [dt |-> "kDouble", v |-> [num |-> 4, den |-> 1]],
      [dt |-> "kVarchar", v |-> <<"a">>],
      [dt |-> "kVarchar", v |-> <<"1", "-", "2", "-", "3">>],
      [dt |-> "kVarchar", v |-> <<"1", "-", "-", "2", "-", "3">>],
      [dt |-> "kVarchar", v |-> <<"1", "-", "2">>],
      [dt |-> "kNull"], [dt |-> "expr"] }

MCValueLists == {<<c>> : c \in Consts} \cup {<<c, d>> : c, d \in Consts}
=============================================================================
