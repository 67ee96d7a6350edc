---------------------------- MODULE MCAnalyser ----------------------------
(***************************************************************************)
(* The analyser over a catalog of two tables, t1(c1) and t2(c2), and      *)
(* vectors of one or two statements.  The select lists draw on columns    *)
(* with and without a relation (of the FROM table and of the other one),  *)
(* an empty column name, *, t1.* and t2.*, a literal, and calls: an       *)
(* aggregate with and without a window, a scalar with a literal argument, *)
(* an aggregate nested in a scalar, an unknown function and an aggregate  *)
(* of a missing column.                                                   *)
(***************************************************************************)
EXTENDS Analyser

MCTables == << [name |-> "t1", columns |-> {"c1"}],
               [name |-> "t2", columns |-> {"c2"}] >>

Col(r, c) == [kind |-> "column", relation |-> r, column |-> c]
\* A call as the parser builds it: not yet flagged as an aggregate.
Fn(f, as, w) == [kind |-> "func", name |-> f, args |-> as, over |-> w, agg |-> FALSE]
All(r) == [kind |-> "all", relation |-> r]
Prim == [kind |-> "primary"]

Vals ==
    { Col("", "c1"), Col("t1", "c1"), Col("", "c2"), Col("t2", "c2"), Col("", ""),
      Fn("SUM", <<Col("", "c1")>>, TRUE), Fn("SUM", <<Col("", "c1")>>, FALSE),
      Fn("SUBSTR", <<Col("", "c1"), Prim>>, FALSE),
      Fn("TRIM", <<Fn("COUNT", <<Col("t1", "c1")>>, TRUE)>>, FALSE),
      Fn("FOO", <<>>, FALSE), Fn("COUNT", <<Col("", "c9")>>, TRUE),
      All(""), All("t1"), All("t2"), Prim }

Target(v) == [type |-> "ResTarget", val |-> v]
Select(ts, l) == [type |-> "select", tables |-> ts, targets |-> l]
Create(t, ine) == [type |-> "create", table |-> t, if_not_exist |-> ine]

\* Lists of two put a valid or an invalid item before each item.
SelectLists ==
    {<<Target(v)>> : v \in Vals}
    \cup {<<Target(v), Target(w)>> : v \in {Col("", "c1"), Col("", "c9")}, w \in Vals}

Others ==
    { Select(<<>>, <<Target(All(""))>>), Select(<<NoVal>>, <<Target(All(""))>>),
      Select(<<"t3">>, <<Target(All(""))>>), Select(<<"t1", "t2">>, <<Target(All(""))>>),
      Create("t1", FALSE), Create("t1", TRUE), Create("t3", FALSE),
      [type |-> "insert"], [type |-> "cmd"], [type |-> "update"], NoVal }

Trees == {Select(<<"t1">>, l) : l \in SelectLists} \cup Others

\* Statements that may come first in a vector of two: a valid one and an
\* invalid one.
Firsts == { Select(<<"t1">>, <<Target(Col("", "c1"))>>), Create("t1", FALSE) }

MCParserTrees == {<<>>} \cup {<<t>> : t \in Trees} \cup {<<f, t>> : f \in Firsts, t \in Trees}

\* Select lists with a node that is not a ResTarget and a null value.
BadTrees == { Select(<<"t1">>, <<[type |-> "ColumnRef"]>>),
              Select(<<"t1">>, <<Target(NoVal)>>),
              Select(<<"t1">>, <<Target(Col("", "c1")), Target(NoVal)>>) }

MCBadParserTrees == MCParserTrees \cup {<<t>> : t \in BadTrees}
=============================================================================
