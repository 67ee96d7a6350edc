\* Insert's row loop across statements of one and two VALUES rows.
CONSTANTS
    MaxRows = 2
    MaxCalls = 3
SPECIFICATION Spec
\* The caller stops after MaxCalls calls.
CHECK_DEADLOCK FALSE
INVARIANT TypeOK
INVARIANT OkInsertSentEveryRow
INVARIANT FailedRpcReported
