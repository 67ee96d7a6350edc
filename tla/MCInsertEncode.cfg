\* Every statement shape over every schema; the one step is the call.
CONSTANTS
    W16 = 4
    W32 = 6
    W64 = 8
    Schemas <- MCSchemas
    ColumnLists <- MCColumnLists
    ValueLists <- MCValueLists
SPECIFICATION Spec
\* BuildInsertRequest returns once; nothing follows it.
CHECK_DEADLOCK FALSE
INVARIANT WellTypedRowsStoredExactly
