---------------------------- MODULE RunnerEngine ----------------------------
(***************************************************************************)
(* The runner DAG evaluated with per-request memoisation, driven by the   *)
(* benchmark harness of examples/toydb/src/bm/runner_bm_case.cc.           *)
(*                                                                         *)
(* Each caller thread looks the start runner up by id (GetRunner), then   *)
(* walks the table (RunnerRun): for every row it builds a fresh           *)
(* RunnerContext holding the row and an empty cache and calls             *)
(* RunWithCache on the start runner.  RunWithCache (spec.md 4.3) returns  *)
(* ctx.cache[id] when present; otherwise it pulls every producer through  *)
(* its own RunWithCache, in order, computes, stores and returns.  The     *)
(* recursion is an explicit call stack per thread, so the steps of        *)
(* concurrent callers interleave at every call and return.  The plan      *)
(* (Id, Kind, Producers) is shared and never written.                     *)
(*                                                                         *)
(* A result is abstracted to the runner id that produced it, the request  *)
(* row it read (request runners only) and the producer results it was     *)
(* computed from.                                                          *)
(***************************************************************************)
EXTENDS Naturals, Sequences

CONSTANTS
    Threads,     \* caller threads sharing the plan
    Nodes,       \* runner objects of the plan
    Id,          \* Id[n]: the runner id of node n
    Kind,        \* Kind[n] \in {"request", "source", "op"}
    Producers,   \* Producers[n]: the producer nodes of n, in order
    Root,        \* the main task's root runner
    StartId,     \* the runner id the harness starts from
    TableRows,   \* the rows the table iterator yields, in order
    LimitCnt,    \* LimitCnt[t]: limit_cnt of thread t
    Mode,        \* Mode[t]: "BENCHMARK" or "TEST"
    CaseOf,      \* CaseOf[t]: "request_union" (RequestUnionRunnerCase) or
                 \* "agg" (AggRunnerCase)
    Iterations,  \* the iterations benchmark::State runs in BENCHMARK mode
    None         \* null pointer / absent cache entry / no row

Ids == {Id[n] : n \in Nodes}

VARIABLES
    pc,      \* pc[t]: "find", "loop", "eval", "done", or "aborted"
             \* (an ASSERT of the case failed)
    runs,    \* runs[t]: the RunnerRun calls of the case that have returned
    start,   \* start[t]: the runner GetRunner returned
    cnt,     \* cnt[t]: rows taken from the table iterator
    ctx,     \* ctx[t]: the RunnerContext of the current row
    stack,   \* stack[t]: the RunWithCache calls in progress, innermost last
    res      \* res[t]: the results pushed into the result vector

vars == <<pc, runs, start, cnt, ctx, stack, res>>

(***************************************************************************)
(* GetRunner: depth-first search over producers, the first match wins.    *)
(***************************************************************************)
RECURSIVE GetRunner(_, _), FirstInProducers(_, _)
GetRunner(root, id) ==
    IF root = None THEN None
    ELSE IF id = Id[root] THEN root
    ELSE FirstInProducers(Producers[root], id)

FirstInProducers(ps, id) ==
    IF ps = <<>> THEN None
    ELSE LET found == GetRunner(Head(ps), id)
         IN  IF found # None THEN found ELSE FirstInProducers(Tail(ps), id)

(***************************************************************************)
(* The computation a runner performs once its producers have returned.   *)
(***************************************************************************)
Compute(n, row, inputs) ==
    [id     |-> Id[n],
     row    |-> IF Kind[n] = "request" THEN row ELSE None,
     inputs |-> inputs]

\* A call of RunWithCache(ctx) on node n, before its cache lookup.
Call(n) == [node |-> n, phase |-> "lookup", inputs |-> <<>>]

\* The RunnerContext built for one row: the row and an empty cache.
NewContext(row) == [row |-> row, cache |-> [i \in Ids |-> None]]

\* ctx.cache lookup by runner id.
\* Faulty variant: the memo lives in the shared runner, so a lookup sees
\* the entry any caller stored.
CacheLookupShared(t, id) ==
    IF \E u \in Threads : ctx[u].cache[id] # None
    THEN ctx[CHOOSE u \in Threads : ctx[u].cache[id] # None].cache[id]
    ELSE None

CacheLookup(t, id) == ctx[t].cache[id]

\* Return v from the innermost call: to the calling runner, which records
\* it as its next producer's result, or, from the outermost call, to
\* RunnerRun, which advances the iterator and appends v to the result.
Return(t, v) ==
    LET rest == SubSeq(stack[t], 1, Len(stack[t]) - 1)
    IN  IF rest = <<>>
        THEN /\ stack' = [stack EXCEPT ![t] = <<>>]
             /\ res' = [res EXCEPT ![t] = Append(@, v)]
             /\ pc' = [pc EXCEPT ![t] = "loop"]
        ELSE /\ stack' = [stack EXCEPT ![t] =
                   [rest EXCEPT ![Len(rest)].inputs = Append(@, v)]]
             /\ UNCHANGED <<res, pc>>

Top(t) == stack[t][Len(stack[t])]

\* The RunnerRun calls a case makes: "switch (mode)" has no break, so
\* BENCHMARK runs one call per benchmark iteration and then falls through
\* into TEST's call.
Calls(t) == IF Mode[t] = "BENCHMARK" THEN Iterations + 1 ELSE 1

-----------------------------------------------------------------------------
Init ==
    /\ pc = [t \in Threads |-> "find"]
    /\ runs = [t \in Threads |-> 0]
    /\ start = [t \in Threads |-> None]
    /\ cnt = [t \in Threads |-> 0]
    /\ ctx = [t \in Threads |-> NewContext(None)]
    /\ stack = [t \in Threads |-> <<>>]
    /\ res = [t \in Threads |-> <<>>]

\* Faulty variant: the runner id is kept in place of the runner.
FindStartRunnerById(t) ==
    /\ pc[t] = "find"
    /\ start' = [start EXCEPT ![t] = StartId]
    /\ pc' = [pc EXCEPT ![t] = "loop"]
    /\ UNCHANGED <<runs, cnt, ctx, stack, res>>

\* start_runner = GetRunner(session.GetMainTask(), runner_id);
\* ASSERT_TRUE(nullptr != start_runner) ends the case when nothing is found.
FindStartRunner(t) ==
    /\ pc[t] = "find"
    /\ LET found == GetRunner(Root, StartId)
       IN  /\ start' = [start EXCEPT ![t] = found]
           /\ pc' = [pc EXCEPT ![t] = IF found = None THEN "aborted" ELSE "loop"]
    /\ UNCHANGED <<runs, cnt, ctx, stack, res>>

\* Faulty variant: one RunnerContext reused for every row, only its row
\* replaced.
NextRowReuseContext(t) ==
    /\ pc[t] = "loop"
    /\ cnt[t] < LimitCnt[t]
    /\ cnt[t] < Len(TableRows)
    /\ cnt' = [cnt EXCEPT ![t] = @ + 1]
    /\ ctx' = [ctx EXCEPT ![t].row = TableRows[cnt[t] + 1]]
    /\ stack' = [stack EXCEPT ![t] = <<Call(start[t])>>]
    /\ pc' = [pc EXCEPT ![t] = "eval"]
    /\ UNCHANGED <<runs, start, res>>

\* while (cnt < limit_cnt && iter->Valid()): cnt++, a new RunnerContext
\* for the row, runner->RunWithCache(ctx).
NextRow(t) ==
    /\ pc[t] = "loop"
    /\ cnt[t] < LimitCnt[t]
    /\ cnt[t] < Len(TableRows)
    /\ cnt' = [cnt EXCEPT ![t] = @ + 1]
    /\ ctx' = [ctx EXCEPT ![t] = NewContext(TableRows[cnt[t] + 1])]
    /\ stack' = [stack EXCEPT ![t] = <<Call(start[t])>>]
    /\ pc' = [pc EXCEPT ![t] = "eval"]
    /\ UNCHANGED <<runs, start, res>>

\* The loop condition fails and RunnerRun returns true.
RunnerRunReturns(t) ==
    /\ pc[t] = "loop"
    /\ ~(cnt[t] < LimitCnt[t] /\ cnt[t] < Len(TableRows))

\* A benchmark iteration's RunnerRun returns; the next call starts with a
\* fresh res vector, a new table iterator and cnt = 0.
EndBenchmarkRun(t) ==
    /\ RunnerRunReturns(t)
    /\ runs[t] + 1 < Calls(t)
    /\ runs' = [runs EXCEPT ![t] = @ + 1]
    /\ cnt' = [cnt EXCEPT ![t] = 0]
    /\ res' = [res EXCEPT ![t] = <<>>]
    /\ UNCHANGED <<pc, start, ctx, stack>>

\* TEST's RunnerRun returns and the case ends; RequestUnionRunnerCase
\* first asserts ASSERT_EQ(res.size(), limit_cnt), AggRunnerCase does not.
EndTestRun(t) ==
    /\ RunnerRunReturns(t)
    /\ runs[t] + 1 = Calls(t)
    /\ pc' = [pc EXCEPT ![t] =
           IF CaseOf[t] = "request_union" /\ Len(res[t]) # LimitCnt[t]
           THEN "aborted" ELSE "done"]
    /\ UNCHANGED <<runs, start, cnt, ctx, stack, res>>

\* RunWithCache finds the runner's id in ctx.cache and returns the entry.
CacheHit(t) ==
    /\ pc[t] = "eval"
    /\ Top(t).phase = "lookup"
    /\ CacheLookup(t, Id[Top(t).node]) # None
    /\ Return(t, CacheLookup(t, Id[Top(t).node]))
    /\ UNCHANGED <<runs, start, cnt, ctx>>

\* No cache entry: the runner starts pulling from its producers.
CacheMiss(t) ==
    /\ pc[t] = "eval"
    /\ Top(t).phase = "lookup"
    /\ CacheLookup(t, Id[Top(t).node]) = None
    /\ stack' = [stack EXCEPT ![t][Len(stack[t])].phase = "pull"]
    /\ UNCHANGED <<pc, runs, start, cnt, ctx, res>>

\* The next producer not yet pulled is called through RunWithCache.
PullProducer(t) ==
    /\ pc[t] = "eval"
    /\ Top(t).phase = "pull"
    /\ Len(Top(t).inputs) < Len(Producers[Top(t).node])
    /\ stack' = [stack EXCEPT ![t] =
          Append(@, Call(Producers[Top(t).node][Len(Top(t).inputs) + 1]))]
    /\ UNCHANGED <<pc, runs, start, cnt, ctx, res>>

\* Every producer has returned: compute, store in ctx.cache, return.
ComputeAndStore(t) ==
    /\ pc[t] = "eval"
    /\ Top(t).phase = "pull"
    /\ Len(Top(t).inputs) = Len(Producers[Top(t).node])
    /\ LET n == Top(t).node
           v == Compute(n, ctx[t].row, Top(t).inputs)
       IN  /\ ctx' = [ctx EXCEPT ![t].cache[Id[n]] = v]
           /\ Return(t, v)
    /\ UNCHANGED <<runs, start, cnt>>

Next ==
    \E t \in Threads :
        \/ FindStartRunner(t)
        \/ NextRow(t)
        \/ EndBenchmarkRun(t)
        \/ EndTestRun(t)
        \/ CacheHit(t)
        \/ CacheMiss(t)
        \/ PullProducer(t)
        \/ ComputeAndStore(t)

\* Every caller is an ordinary thread: once it can take a step it is not
\* descheduled forever.
Fairness ==
    \A t \in Threads :
        WF_vars(FindStartRunner(t) \/ NextRow(t) \/ EndBenchmarkRun(t)
                \/ EndTestRun(t) \/ CacheHit(t)
                \/ CacheMiss(t) \/ PullProducer(t) \/ ComputeAndStore(t))

Spec == Init /\ [][Next]_vars /\ Fairness

-----------------------------------------------------------------------------
(***************************************************************************)
(* The result evaluating runner n against a row must give: its producers  *)
(* evaluated against the same row, then its own computation.              *)
(***************************************************************************)
RECURSIVE Expected(_, _)
Expected(n, row) ==
    Compute(n, row, [i \in 1..Len(Producers[n]) |-> Expected(Producers[n][i], row)])

NodeOf(id) == CHOOSE n \in Nodes : Id[n] = id

Service == INSTANCE RunnerService
               WITH Expected <- LAMBDA row : Expected(GetRunner(Root, StartId), row),
                    Calls <- Calls, round <- runs

TypeOK ==
    /\ pc \in [Threads -> {"find", "loop", "eval", "done", "aborted"}]
    /\ \A t \in Threads : runs[t] \in 0..(Calls(t) - 1)
    /\ start \in [Threads -> Nodes \cup {None}]
    /\ cnt \in [Threads -> 0..Len(TableRows)]
    /\ \A t \in Threads :
         /\ ctx[t].row \in {TableRows[i] : i \in DOMAIN TableRows} \cup {None}
         /\ DOMAIN ctx[t].cache = Ids
         /\ \A k \in 1..Len(stack[t]) :
              /\ stack[t][k].node \in Nodes
              /\ stack[t][k].phase \in {"lookup", "pull"}
              /\ Len(stack[t][k].inputs) <= Len(Producers[stack[t][k].node])
         /\ Len(res[t]) <= cnt[t]

\* Every entry of a context's cache is the result of that runner for the
\* context's own row: no entry is left over from another row of the same
\* caller, or taken from a context of another caller.
CacheEntriesMatchRow ==
    \A t \in Threads, i \in Ids :
        ctx[t].cache[i] # None => ctx[t].cache[i] = Expected(NodeOf(i), ctx[t].row)

\* The harness implements the service: each caller receives, row by row in
\* table order up to its limit, the start runner's result for that row.
ServiceSpec == Service!Spec

=============================================================================
