----------------------------- MODULE TabletSdk -----------------------------
(***************************************************************************)
(* The toydb tablet client of examples/toydb/src/sdk/tablet_sdk.cc: one   *)
(* caller making a sequence of Insert, Query and Explain calls through    *)
(* the same TabletSdkImpl and the same sdk::Status object.                *)
(*                                                                         *)
(* Insert(db, sql) parses and plans the statement, then for each VALUES   *)
(* row builds an InsertRequest (one GetTableSchema RPC, column-count and  *)
(* value-type checks) and sends it with one Insert RPC.  Every RPC may    *)
(* complete, be rejected by the server, be lost before it reaches the     *)
(* server, or time out after the server applied it.                       *)
(*                                                                         *)
(* SQL text, schemas and row values are abstracted: a statement is its    *)
(* planning outcome and, per VALUES row, the check that row fails (or     *)
(* "ok"); a status is its code.                                            *)
(***************************************************************************)
EXTENDS Naturals, Sequences

CONSTANTS
    MaxRows,    \* most VALUES rows in one INSERT statement
    MaxCalls    \* calls the caller makes

\* Outcome of GetSqlPlan and the plan checks of Insert.
PlanOutcomes == {"insert", "parse_error", "plan_error", "empty_plan",
                 "other_plan", "null_insert_stmt"}

\* The check a VALUES row fails in BuildInsertRequest, or "ok".
RowKinds == {"ok", "null_values", "count_mismatch", "not_const", "bad_value"}

Statements ==
    [plan : PlanOutcomes, rows : UNION {[1..k -> RowKinds] : k \in 1..MaxRows}]

\* brpc outcomes of one call: answered, answered with an error status,
\* lost before the server saw it, or timed out after the server applied it.
RpcOutcomes == {"ok", "error_response", "lost_request", "lost_reply"}

\* No RPC made yet in the current call.
NoRpc == [call |-> "none", o |-> "ok"]

Codes == {"kOk", "MinusOne", "kConnError", "kTypeError", "kPlanError",
          "kUnSupport", "kNullPointer", "kSchemaCodecError", "SqlError",
          "ServerError"}

VARIABLES
    pc,         \* "create" before CreateTabletSdk returns, "no_sdk" when it
                \* returned null; "idle" between calls; "plan", "build",
                \* "send" inside Insert
    lastCall,   \* the call that ran last: "none", "insert", "query", "explain"
    calls,      \* calls made so far
    stmt,       \* the statement of the current or last Insert
    idx,        \* the VALUES row the Insert loop is at
    status,     \* status->code
    attempted,  \* rows of the current Insert sent with an Insert RPC
    stored,     \* rows of the current Insert the server applied
    rpc         \* the last RPC of the current call and its outcome

vars == <<pc, lastCall, calls, stmt, idx, status, attempted, stored, rpc>>

Init ==
    /\ pc = "create"
    /\ lastCall = "none"
    /\ calls = 0
    /\ stmt = [plan |-> "insert", rows |-> <<>>]
    /\ idx = 0
    /\ status = "kOk"
    /\ attempted = {}
    /\ stored = {}
    /\ rpc = NoRpc

\* TabletSdkImpl::Init: it creates the brpc channel and returns whether
\* channel_->Init(endpoint) returned 0, which depends on the endpoint.
ChannelInitResults == BOOLEAN

\* CreateTabletSdk(endpoint): when Init fails the object is deleted and the
\* caller gets a null pointer, so no call follows.
CreateTabletSdk ==
    /\ pc = "create"
    /\ \E channelOk \in ChannelInitResults : pc' = IF channelOk THEN "idle" ELSE "no_sdk"
    /\ UNCHANGED <<lastCall, calls, stmt, idx, status, attempted, stored, rpc>>

\* A call of Insert(db, sql, status) with statement s.
CallInsert(s) ==
    /\ pc = "idle"
    /\ calls < MaxCalls
    /\ calls' = calls + 1
    /\ lastCall' = "insert"
    /\ stmt' = s
    /\ idx' = 0
    /\ attempted' = {}
    /\ stored' = {}
    /\ pc' = "plan"
    /\ rpc' = NoRpc
    /\ UNCHANGED status

\* GetSqlPlan writes the status only when parsing or planning fails; then
\* "if (0 != status->code) return" looks at whatever the status holds, and
\* the plan checks follow.
InsertPlan ==
    /\ pc = "plan"
    /\ IF stmt.plan \in {"parse_error", "plan_error"}
       THEN status' = "SqlError" /\ pc' = "idle" /\ UNCHANGED idx
       ELSE IF status # "kOk"
       THEN pc' = "idle" /\ UNCHANGED <<status, idx>>
       ELSE CASE stmt.plan = "empty_plan" ->
                   status' = "kPlanError" /\ pc' = "idle" /\ UNCHANGED idx
              [] stmt.plan = "other_plan" ->
                   status' = "kUnSupport" /\ pc' = "idle" /\ UNCHANGED idx
              [] stmt.plan = "null_insert_stmt" ->
                   status' = "kNullPointer" /\ pc' = "idle" /\ UNCHANGED idx
              [] stmt.plan = "insert" ->
                   idx' = 1 /\ pc' = "build" /\ UNCHANGED status
    /\ UNCHANGED <<lastCall, calls, stmt, attempted, stored, rpc>>

\* Mutant: GetSchema without its cntl.Failed() test, so a lost call keeps
\* the default response status and counts as answered.
GetSchemaCodeNoFailCheck(o) ==
    CASE o = "error_response" -> "ServerError"
      [] OTHER                -> "kOk"

\* GetSchema: the response status is tested before cntl.Failed(); a lost
\* call leaves the default (ok) response status, so it ends in kConnError.
GetSchemaCode(o) ==
    CASE o = "ok"             -> "kOk"
      [] o = "error_response" -> "ServerError"
      [] o \in {"lost_request", "lost_reply"} -> "kConnError"

\* The code BuildInsertRequest leaves for a row whose schema was fetched.
BuildCode(kind) ==
    CASE kind = "ok"             -> "kOk"
      [] kind = "count_mismatch" -> "MinusOne"
      [] kind = "not_const"      -> "kTypeError"
      [] kind = "bad_value"      -> "kTypeError"

\* BuildInsertRequest for row idx, then "if (status->code != 0) return".
BuildRow ==
    /\ pc = "build"
    /\ LET kind == stmt.rows[idx] IN
       IF kind = "null_values"
       THEN /\ status' = "MinusOne"
            /\ pc' = "idle"
            /\ UNCHANGED rpc
       ELSE \E o \in RpcOutcomes :
              LET code == IF o = "ok" THEN BuildCode(kind) ELSE GetSchemaCode(o)
              IN  /\ status' = code
                  /\ pc' = IF code = "kOk" THEN "send" ELSE "idle"
                  /\ rpc' = [call |-> "getschema", o |-> o]
    /\ UNCHANGED <<lastCall, calls, stmt, idx, attempted, stored>>

\* Faulty variants of SendRow: the row index moves past the last row, and
\* the loop exits one row early.
SendRowPastEnd ==
    /\ pc = "send"
    /\ \E o \in RpcOutcomes :
          /\ attempted' = attempted \cup {idx}
          /\ stored' = IF o \in {"ok", "lost_reply"} THEN stored \cup {idx}
                       ELSE stored
          /\ rpc' = [call |-> "insert", o |-> o]
    /\ status' = "kOk"
    /\ idx' = idx + 1
    /\ pc' = IF idx < Len(stmt.rows) THEN "build" ELSE "idle"
    /\ UNCHANGED <<lastCall, calls, stmt>>

SendRowStopsEarly ==
    /\ pc = "send"
    /\ \E o \in RpcOutcomes :
          /\ attempted' = attempted \cup {idx}
          /\ stored' = IF o \in {"ok", "lost_reply"} THEN stored \cup {idx}
                       ELSE stored
          /\ rpc' = [call |-> "insert", o |-> o]
    /\ status' = "kOk"
    /\ IF idx < Len(stmt.rows) - 1
       THEN idx' = idx + 1 /\ pc' = "build"
       ELSE pc' = "idle" /\ UNCHANGED idx
    /\ UNCHANGED <<lastCall, calls, stmt>>

\* Insert(request, status): the Insert RPC, then status->code = 0 whatever
\* cntl.Failed() said; the response status is never read.  The loop moves
\* to the next row or Insert returns.
SendRow ==
    /\ pc = "send"
    /\ \E o \in RpcOutcomes :
          /\ attempted' = attempted \cup {idx}
          /\ stored' = IF o \in {"ok", "lost_reply"} THEN stored \cup {idx}
                       ELSE stored
          /\ rpc' = [call |-> "insert", o |-> o]
    /\ status' = "kOk"
    /\ IF idx < Len(stmt.rows)
       THEN idx' = idx + 1 /\ pc' = "build"
       ELSE pc' = "idle" /\ UNCHANGED idx
    /\ UNCHANGED <<lastCall, calls, stmt>>

\* Query(db, sql, row, is_batch, status): one Query RPC with a 10 s timeout.
CallQuery ==
    /\ pc = "idle"
    /\ calls < MaxCalls
    /\ \E o \in RpcOutcomes :
          /\ status' = CASE o \in {"lost_request", "lost_reply"} -> "kConnError"
                         [] o = "error_response"                 -> "ServerError"
                         [] o = "ok"                             -> "kOk"
          /\ rpc' = [call |-> "query", o |-> o]
    /\ calls' = calls + 1
    /\ lastCall' = "query"
    /\ UNCHANGED <<pc, stmt, idx, attempted, stored>>

\* Explain(db, sql, status): one Explain RPC, then both schemas decoded.
CallExplain ==
    /\ pc = "idle"
    /\ calls < MaxCalls
    /\ \E o \in RpcOutcomes, decoded \in BOOLEAN :
          /\ status' = CASE o \in {"lost_request", "lost_reply"} -> "kConnError"
                         [] o = "error_response"                 -> "ServerError"
                         [] o = "ok" /\ ~decoded                 -> "kSchemaCodecError"
                         [] o = "ok" /\ decoded                  -> "kOk"
          /\ rpc' = [call |-> "explain", o |-> o]
    /\ calls' = calls + 1
    /\ lastCall' = "explain"
    /\ UNCHANGED <<pc, stmt, idx, attempted, stored>>

Next ==
    \/ CreateTabletSdk
    \/ \E s \in Statements : CallInsert(s)
    \/ InsertPlan
    \/ BuildRow
    \/ SendRow
    \/ CallQuery
    \/ CallExplain

Spec == Init /\ [][Next]_vars

-----------------------------------------------------------------------------
\* An Insert call has returned.
InsertReturned == pc = "idle" /\ lastCall = "insert"

TypeOK ==
    /\ pc \in {"create", "no_sdk", "idle", "plan", "build", "send"}
    /\ lastCall \in {"none", "insert", "query", "explain"}
    /\ calls \in 0..MaxCalls
    /\ idx \in 0..Len(stmt.rows)
    /\ pc \in {"build", "send"} => idx \in 1..Len(stmt.rows)
    /\ status \in Codes
    /\ attempted \subseteq 1..MaxRows
    /\ stored \subseteq attempted
    /\ rpc \in [call : {"none", "getschema", "insert", "query", "explain"},
                o : RpcOutcomes]

\* Insert reports success only after it has sent an Insert RPC for every
\* VALUES row of the statement.
OkInsertSentEveryRow ==
    (InsertReturned /\ status = "kOk" /\ stmt.plan = "insert")
        => attempted = DOMAIN stmt.rows

\* spec.md section 9 has every operation report its own outcome in the
\* status: when an INSERT that parsed and planned as an insert returns an
\* error, the error comes from one of its VALUES rows, not from an earlier
\* call that left the same status object non-zero.
InsertErrorIsOwn ==
    (InsertReturned /\ status # "kOk" /\ stmt.plan = "insert") => idx >= 1

\* GetSchema, Query and Explain each report a failed RPC: from the moment
\* one of them has failed, whether the server answered with an error, the
\* request was lost, or the 10 s timeout fired after the server applied
\* it, the status is an error until the caller's next call begins.
\* GetSchema tests the response status before cntl.Failed(), so a lost
\* call is caught only by the second test (tablet_sdk.cc 200-209); Insert
\* RPCs are excluded, InsertFailureReported is about them.
FailedRpcReported ==
    (rpc.call \in {"getschema", "query", "explain"} /\ rpc.o # "ok")
        => status # "kOk"

=============================================================================
