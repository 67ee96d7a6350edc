\* BuildOnePkTableStorage over data_size 0, 1, 3 and 9, with every outcome of the
\* catalog, handler and Put calls it makes.
CONSTANTS
    Col0Init <- MCCol0Init
    Col6Init <- MCCol6Init
    RangeArgs <- MCRangeArgs
    Widths <- MCWidths
    MaxLen = 120
    DataSizes = {0, 1, 3, 9}
    Handlers <- MCHandlers
    Buffers = {"b1", "b2", "b3", "b4"}

INIT Init
NEXT Next

\* The builder is a single call: it stops after returning the catalog, or
\* after dereferencing the null one; DeleteData then runs once on a result
\* handler, or crashes on its null iterator.
CHECK_DEADLOCK FALSE

INVARIANTS
    TypeOK
    RowsCycleColumns
