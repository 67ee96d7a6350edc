\* Per-row cache contents and the service refinement
\* for two concurrent callers sharing one plan.
CONSTANTS
    n1 = n1  n2 = n2  n3 = n3  n4 = n4  n5 = n5
    t1 = t1  t2 = t2  r1 = r1  r2 = r2
    None = None
    Threads <- MCThreads
    Nodes <- MCNodes
    Id <- MCId
    Kind <- MCKind
    Producers <- MCProducers
    Root = n1
    StartId = 1
    TableRows <- MCTableRows
    LimitCnt <- MCLimitCnt
    Mode <- MCMode
    CaseOf <- MCCaseOf
    Iterations = 1
SPECIFICATION Spec
\* The harness returns once every caller has left its loop.
CHECK_DEADLOCK FALSE
INVARIANT TypeOK
INVARIANT CacheEntriesMatchRow
PROPERTY ServiceSpec
