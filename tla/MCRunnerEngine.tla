-------------------------- MODULE MCRunnerEngine ---------------------------
(***************************************************************************)
(* Two callers over a five-runner plan in which runner 4 (the request     *)
(* runner) is a producer of both 2 and 3, so it is pulled twice per row. *)
(*                                                                         *)
(*        1 (op) -> <<2, 3>>     2 (op) -> <<4>>     3 (op) -> <<4, 5>>    *)
(*        4 (request)            5 (source)                                *)
(*                                                                         *)
(* The table yields rows r1, r2, r1; caller t1 runs with limit 2 (the     *)
(* limit ends its loop), t2 with limit 4 (the iterator ends it).           *)
(* t1 runs RequestUnionRunnerCase in BENCHMARK mode, one iteration and   *)
(* then TEST's pass; t2 runs AggRunnerCase in TEST mode.                  *)
(***************************************************************************)
EXTENDS RunnerEngine, TLC

CONSTANTS n1, n2, n3, n4, n5, t1, t2, r1, r2

MCThreads == {t1, t2}
MCNodes == {n1, n2, n3, n4, n5}
MCId == (n1 :> 1 @@ n2 :> 2 @@ n3 :> 3 @@ n4 :> 4 @@ n5 :> 5)
MCKind == (n1 :> "op" @@ n2 :> "op" @@ n3 :> "op" @@ n4 :> "request" @@ n5 :> "source")
MCProducers == (n1 :> <<n2, n3>> @@ n2 :> <<n4>> @@ n3 :> <<n4, n5>>
                @@ n4 :> <<>> @@ n5 :> <<>>)
MCTableRows == <<r1, r2, r1>>
MCLimitCnt == (t1 :> 2 @@ t2 :> 4)
MCMode == (t1 :> "BENCHMARK" @@ t2 :> "TEST")
MCCaseOf == (t1 :> "request_union" @@ t2 :> "agg")

=============================================================================
