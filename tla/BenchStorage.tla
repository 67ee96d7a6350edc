---------------------------- MODULE BenchStorage ----------------------------
(***************************************************************************)
(* The benchmark data builders of src/src/bm/base_bm.h 78-281.            *)
(*                                                                         *)
(* BuildOnePkTableData drives seven value generators, one per column of   *)
(* t1: col0 and col6 are string Repeaters built from a vector, col1..col5 *)
(* are Int/RealRepeaters filled by Range.  Each is an instance of the     *)
(* Repeater module with its own variables, composed here.  Every row      *)
(* takes one GetValue of each column.  BuildOnePkTableStorage then makes  *)
(* the table, the catalog (BuildCommonCatalog, AddTable) and the request  *)
(* table, and Puts every row, deleting its buffer.  The calls it makes    *)
(* into the storage and tablet libraries (not in this repository) may     *)
(* succeed or fail; the code ignores most of their results.               *)
(*                                                                         *)
(* DeleteData, the clean-up of a query's result handler, is a pure        *)
(* operator over handler shapes.                                           *)
(***************************************************************************)
EXTENDS Integers, Sequences, SequencesExt

CONSTANTS
    Col0Init,     \* col0's vector: <<"hello">>
    Col6Init,     \* col6's vector: the eight strings
    RangeArgs,    \* k \in 1..5 |-> [min, max, step] of colk.Range
    Widths,       \* k \in 1..5 |-> the bits of colk's T
    MaxLen,       \* the longest Range loop before it is cut off
    DataSizes,    \* the data_size arguments a caller may pass
    Handlers,     \* result handlers DeleteData may be given
    Buffers       \* the row buffers they hold

VARIABLES
    c0vals, c0idx, c0ret, c0fill, c1vals, c1idx, c1ret, c1fill,
    c2vals, c2idx, c2ret, c2fill, c3vals, c3idx, c3ret, c3fill,
    c4vals, c4idx, c4ret, c4fill, c5vals, c5idx, c5ret, c5fill,
    c6vals, c6idx, c6ret, c6fill,
    pc,       \* where BuildOnePkTableStorage is
    size,     \* data_size
    buffer,   \* the rows built: one tuple <<col0, ..., col6>> per Slice
    catalog,  \* [live |-> FALSE] for the null pointer, or the tables it holds
    table,    \* the rows t1's storage::Table holds, in Put order
    k,        \* the next row of buffer to Put
    deleted,  \* the buffers deleted so far
    cleanup   \* the DeleteData calls made on result handlers: [h, out]

c0 == <<c0vals, c0idx, c0ret, c0fill>>
c1 == <<c1vals, c1idx, c1ret, c1fill>>
c2 == <<c2vals, c2idx, c2ret, c2fill>>
c3 == <<c3vals, c3idx, c3ret, c3fill>>
c4 == <<c4vals, c4idx, c4ret, c4fill>>
c5 == <<c5vals, c5idx, c5ret, c5fill>>
c6 == <<c6vals, c6idx, c6ret, c6fill>>
cols == <<c0, c1, c2, c3, c4, c5, c6>>
vars == <<cols, pc, size, buffer, catalog, table, k, deleted, cleanup>>

\* The string columns: Kind and Width are unused, as nothing refills them.
Col0 == INSTANCE Repeater WITH Kind <- "int", Width <- 8, InitValues <- {Col0Init},
          Fills <- {}, values <- c0vals, idx <- c0idx, ret <- c0ret, fill <- c0fill
Col6 == INSTANCE Repeater WITH Kind <- "int", Width <- 8, InitValues <- {Col6Init},
          Fills <- {}, values <- c6vals, idx <- c6idx, ret <- c6ret, fill <- c6fill
\* The number columns: IntRepeater<int32_t>, <int16_t>, RealRepeater<float>,
\* <double>, IntRepeater<int64_t>, all default-constructed (empty).
Col1 == INSTANCE Repeater WITH Kind <- "int", Width <- Widths[1], InitValues <- {<<>>},
          Fills <- {}, values <- c1vals, idx <- c1idx, ret <- c1ret, fill <- c1fill
Col2 == INSTANCE Repeater WITH Kind <- "int", Width <- Widths[2], InitValues <- {<<>>},
          Fills <- {}, values <- c2vals, idx <- c2idx, ret <- c2ret, fill <- c2fill
Col3 == INSTANCE Repeater WITH Kind <- "real", Width <- Widths[3], InitValues <- {<<>>},
          Fills <- {}, values <- c3vals, idx <- c3idx, ret <- c3ret, fill <- c3fill
Col4 == INSTANCE Repeater WITH Kind <- "real", Width <- Widths[4], InitValues <- {<<>>},
          Fills <- {}, values <- c4vals, idx <- c4idx, ret <- c4ret, fill <- c4fill
Col5 == INSTANCE Repeater WITH Kind <- "int", Width <- Widths[5], InitValues <- {<<>>},
          Fills <- {}, values <- c5vals, idx <- c5idx, ret <- c5ret, fill <- c5fill

\* BuildTableDef: db.t1 and its column types, in the order the row
\* builder appends them.
TableDef ==
    [name |-> "t1", catalog |-> "db",
     columns |-> <<"varchar", "int32", "int16", "float", "double", "int64", "varchar">>]

Null == [live |-> FALSE, tables |-> {}]

Init ==
    /\ Col0!Init /\ Col1!Init /\ Col2!Init /\ Col3!Init
    /\ Col4!Init /\ Col5!Init /\ Col6!Init
    /\ pc = "ranges"
    /\ size \in DataSizes
    /\ buffer = <<>>
    /\ catalog = Null
    /\ table = <<>>
    /\ k = 1
    /\ deleted = 0
    /\ cleanup = {}

-----------------------------------------------------------------------------
(***************************************************************************)
(* BuildOnePkTableData                                                     *)
(***************************************************************************)
\* The five Range calls, each refilling its own generator.
Ranges ==
    /\ pc = "ranges"
    /\ Col1!Range(RangeArgs[1].min, RangeArgs[1].max, RangeArgs[1].step)
    /\ Col2!Range(RangeArgs[2].min, RangeArgs[2].max, RangeArgs[2].step)
    /\ Col3!Range(RangeArgs[3].min, RangeArgs[3].max, RangeArgs[3].step)
    /\ Col4!Range(RangeArgs[4].min, RangeArgs[4].max, RangeArgs[4].step)
    /\ Col5!Range(RangeArgs[5].min, RangeArgs[5].max, RangeArgs[5].step)
    /\ pc' = "rows"
    /\ UNCHANGED <<c0, c6, size, buffer, catalog, table, k, deleted, cleanup>>

\* Mutant: the number columns are appended with the values read for the
\* previous row.
BuildRowStale ==
    /\ pc = "rows"
    /\ Len(buffer) < size
    /\ Col0!GetValue /\ Col6!GetValue /\ Col1!GetValue /\ Col2!GetValue
    /\ Col3!GetValue /\ Col4!GetValue /\ Col5!GetValue
    /\ buffer' = Append(buffer, <<c0ret'.v, c1ret.v, c2ret.v, c3ret.v,
                                  c4ret.v, c5ret.v, c6ret'.v>>)
    /\ UNCHANGED <<pc, size, catalog, table, k, deleted, cleanup>>

\* One iteration of the data_size loop: one GetValue of every column, in
\* the order col0, col6, col1, ..., col5, appended to the row builder in
\* schema order, and the buffer pushed.
BuildRow ==
    /\ pc = "rows"
    /\ Len(buffer) < size
    /\ Col0!GetValue /\ Col6!GetValue /\ Col1!GetValue /\ Col2!GetValue
    /\ Col3!GetValue /\ Col4!GetValue /\ Col5!GetValue
    /\ buffer' = Append(buffer, <<c0ret'.v, c1ret'.v, c2ret'.v, c3ret'.v,
                                  c4ret'.v, c5ret'.v, c6ret'.v>>)
    /\ UNCHANGED <<pc, size, catalog, table, k, deleted, cleanup>>

(***************************************************************************)
(* BuildOnePkTableStorage, after the data: the index, the table and its   *)
(* Init (result ignored), then BuildCommonCatalog: catalog->Init, then     *)
(* AddTable, i.e. handler->Init and catalog->AddTable.  Any failure gives  *)
(* the null catalog.                                                       *)
(***************************************************************************)
BuildCommonCatalog ==
    /\ pc = "rows"
    /\ Len(buffer) = size
    /\ \E catalogInit, handlerInit, added \in BOOLEAN :
          catalog' = IF catalogInit /\ handlerInit /\ added
                     THEN [live |-> TRUE, tables |-> {"db.t1"}]
                     ELSE Null
    /\ pc' = "request"
    /\ UNCHANGED <<cols, size, buffer, table, k, deleted, cleanup>>

\* AddTable(catalog, request_def, request), its result ignored: a handler
\* whose Init fails returns early; otherwise catalog->AddTable is called,
\* on the null pointer if BuildCommonCatalog failed.
AddRequestTable ==
    /\ pc = "request"
    /\ \E handlerInit, added \in BOOLEAN :
          IF ~handlerInit THEN pc' = "put" /\ UNCHANGED catalog
          ELSE IF ~catalog.live THEN pc' = "crash" /\ UNCHANGED catalog
          ELSE /\ pc' = "put"
               /\ catalog' = IF added
                             THEN [catalog EXCEPT !.tables = @ \cup {"request.t1"}]
                             ELSE catalog
    /\ UNCHANGED <<cols, size, buffer, table, k, deleted, cleanup>>

\* Mutant: the loop Puts the row but never deletes its buffer.
PutRowNoDelete ==
    /\ pc = "put"
    /\ k <= Len(buffer)
    /\ \E stored \in BOOLEAN :
          table' = IF stored THEN Append(table, buffer[k]) ELSE table
    /\ k' = k + 1
    /\ UNCHANGED <<cols, pc, size, buffer, catalog, deleted, cleanup>>

\* for (auto row : buffer) { table->Put(...); delete row.buf(); }: a Put
\* that fails is ignored.
PutRow ==
    /\ pc = "put"
    /\ k <= Len(buffer)
    /\ \E stored \in BOOLEAN :
          table' = IF stored THEN Append(table, buffer[k]) ELSE table
    /\ deleted' = deleted + 1
    /\ k' = k + 1
    /\ UNCHANGED <<cols, pc, size, buffer, catalog, cleanup>>

\* return catalog.
Return ==
    /\ pc = "put"
    /\ k > Len(buffer)
    /\ pc' = "done"
    /\ UNCHANGED <<cols, size, buffer, catalog, table, k, deleted, cleanup>>


-----------------------------------------------------------------------------
(***************************************************************************)
(* DeleteData(data_handler).  A handler is the null pointer            *)
(* [kind |-> "null"], a row handler                                     *)
(* [kind |-> "row", row], a table handler [kind |-> "table", iter, rows]  *)
(* or a partition handler [kind |-> "partition", iter, windows]: a        *)
(* sequence of segments, each a sequence of rows.  iter is "live", or     *)
(* "null" when GetIterator / GetWindowIterator returns a null pointer, as *)
(* the catalog.h defaults and SimpleCatalog's table handler do.  The      *)
(* result is the buffers deleted, in order, and the count returned, or a  *)
(* crash on the null iterator, which DeleteData dereferences unchecked.   *)
(***************************************************************************)
\* HandlerType and the handler classes of src/src/vm/catalog.h: a
\* RowHandler's GetValue is one row, a TableHandler's iterator yields rows,
\* a PartitionHandler's GetWindowIterator yields segments, each an iterator
\* over rows.
IsHandler(h, B) ==
    CASE h.kind = "null"      -> TRUE
      [] h.kind = "row"       -> h.row \in B
      [] h.kind = "table"     -> h.iter \in {"live", "null"} /\ h.rows \in Seq(B)
      [] h.kind = "partition" -> h.iter \in {"live", "null"} /\ h.windows \in Seq(Seq(B))

ASSUME \A h \in Handlers : IsHandler(h, Buffers)

Deletion(freed, cnt) == [crash |-> FALSE, freed |-> freed, cnt |-> cnt]
NullDeref == [crash |-> TRUE, freed |-> <<>>, cnt |-> 0]

DeleteData(h) ==
    CASE h.kind = "null"      -> Deletion(<<>>, 0)
      [] h.kind = "row"       -> Deletion(<<h.row>>, 1)
      [] h.iter = "null"      -> NullDeref
      [] h.kind = "table"     -> Deletion(h.rows, Len(h.rows))
      [] h.kind = "partition" -> Deletion(FlattenSeq(h.windows), Len(h.windows))

\* DeleteData(h) on the result handler of one query run over the returned
\* catalog; a null iterator ends the process.
DeleteResult(h) ==
    /\ pc = "done"
    /\ cleanup = {}
    /\ cleanup' = cleanup \cup {[h |-> h, out |-> DeleteData(h)]}
    /\ pc' = IF DeleteData(h).crash THEN "crash" ELSE pc
    /\ UNCHANGED <<cols, size, buffer, catalog, table, k, deleted>>

Next == Ranges \/ BuildRow \/ BuildCommonCatalog \/ AddRequestTable
          \/ PutRow \/ Return \/ \E h \in Handlers : DeleteResult(h)

\* The builder runs once: it ends returning or crashing.  After it returns,
\* a benchmark may pass the result of a query to DeleteData.
Spec == Init /\ [][Next]_vars

-----------------------------------------------------------------------------
\* What the generators promise, independently of their loops: column c of
\* the i-th row is the i-th value of c's cycle, the constructor's vector or
\* the progression Range was asked for.
Cycle(s, i) == s[((i - 1) % Len(s)) + 1]

RangeValues(c) == Col1!Progression(RangeArgs[c].min, RangeArgs[c].max, RangeArgs[c].step)

ExpectedRow(i) ==
    <<Cycle(Col0Init, i), Cycle(RangeValues(1), i), Cycle(RangeValues(2), i),
      Cycle(RangeValues(3), i), Cycle(RangeValues(4), i), Cycle(RangeValues(5), i),
      Cycle(Col6Init, i)>>

TypeOK ==
    /\ pc \in {"ranges", "rows", "request", "put", "done", "crash"}
    /\ size \in DataSizes
    /\ \A r \in ToSet(buffer) :
          /\ DOMAIN r = DOMAIN TableDef.columns
          /\ \A c \in DOMAIN r :
                IF TableDef.columns[c] = "varchar" THEN r[c] \in STRING ELSE r[c] \in Int
    /\ catalog.live \in BOOLEAN
    /\ catalog.tables \subseteq {"db.t1", "request.t1"}
    /\ k \in 1..(Len(buffer) + 1)
    /\ deleted = k - 1

\* BuildOnePkTableData (base_bm.h 170-206) with the seven Repeaters of
\* base_bm.h 25-77: the i-th row pushed holds, in every column, the i-th
\* value of that column's cycle (the Range loops stop exactly at max, the
\* GetValue cursors wrap at each column's own length and every column is
\* read once per row); and when every Put succeeded, the returned table
\* holds exactly those rows in order.
RowsCycleColumns ==
    /\ \A i \in DOMAIN buffer : buffer[i] = ExpectedRow(i)
    /\ (pc = "done" /\ Len(table) = size) => table = buffer

=============================================================================
