--------------------------- MODULE RunnerService ---------------------------
(***************************************************************************)
(* What the runner engine promises a caller that feeds it table rows      *)
(* (spec.md 4.3, 4.4 and 6): for each row, in table order and up to the   *)
(* limit, the caller receives exactly the result of evaluating the start  *)
(* runner's plan against that row.  Each row is served in one atomic step;*)
(* how the DAG is walked and memoised is left out.  A caller makes       *)
(* Calls(t) such passes over the table, each into a fresh result vector. *)
(***************************************************************************)
EXTENDS Naturals, Sequences

CONSTANTS
    Threads,    \* callers, each serving the rows of the table
    TableRows,  \* the rows the table iterator yields, in order
    LimitCnt,   \* LimitCnt[t]: the row limit thread t runs with
    Expected(_),\* Expected(row): the start runner's result for that row
    Calls(_)    \* Calls(t): the passes thread t makes

VARIABLES
    res,        \* res[t]: the results thread t has collected in this pass
    round       \* round[t]: the passes thread t has completed

svars == <<res, round>>

Served(t) == IF LimitCnt[t] < Len(TableRows) THEN LimitCnt[t] ELSE Len(TableRows)

Init == res = [t \in Threads |-> <<>>] /\ round = [t \in Threads |-> 0]

ServeRow(t) ==
    /\ Len(res[t]) < Served(t)
    /\ res' = [res EXCEPT ![t] = Append(@, Expected(TableRows[Len(@) + 1]))]
    /\ UNCHANGED round

\* A complete pass that is not the last one is followed by a fresh one.
NextPass(t) ==
    /\ Len(res[t]) = Served(t)
    /\ round[t] + 1 < Calls(t)
    /\ res' = [res EXCEPT ![t] = <<>>]
    /\ round' = [round EXCEPT ![t] = @ + 1]

Next == \E t \in Threads : ServeRow(t) \/ NextPass(t)

Spec == Init /\ [][Next]_svars /\ \A t \in Threads : WF_svars(ServeRow(t) \/ NextPass(t))

=============================================================================
