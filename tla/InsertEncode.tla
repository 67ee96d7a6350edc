--------------------------- MODULE InsertEncode ---------------------------
(***************************************************************************)
(* How the toydb client turns the VALUES of one INSERT row into a stored  *)
(* row: TabletSdkImpl::BuildInsertRequest (tablet_sdk.cc 289-449) after   *)
(* GetSchema has answered, with the ConstNode conversions it calls        *)
(* (sql_node.h 719-989).                                                  *)
(*                                                                         *)
(* A ConstNode is [dt, v]: its data type and the union member that type   *)
(* sets.  Integers are two's-complement of W16, W32 and W64 bits (scaled  *)
(* down, in the same order); a float is a fraction [num, den]; a varchar  *)
(* is a sequence of characters.  A VALUES item that is not a constant is  *)
(* the record [dt |-> "expr"].                                            *)
(*                                                                         *)
(* BuildInsertRequest is one step: it either returns a status code or     *)
(* does something undefined, modelled as "crash" or as a corrupt value     *)
(* ("ub" chooses, as the build may do either).                            *)
(***************************************************************************)
EXTENDS Integers, Sequences, SequencesExt

CONSTANTS
    W16, W32, W64,  \* bits of int16_t, int32_t, int64_t
    Schemas,        \* the table schemas: sequences of [name, type]
    ColumnLists,    \* the INSERT column lists (<<>>: none given)
    ValueLists      \* the VALUES rows

VARIABLES
    schema,   \* the schema GetSchema returned
    columns,  \* the column list of the statement
    values,   \* values->children_
    code,     \* status->code after the call: "none" before it
    row       \* the row the builder wrote: column name -> stored value

vars == <<schema, columns, values, code, row>>

-----------------------------------------------------------------------------
\* Two's-complement narrowing to w bits, as a static_cast does.
WrapTo(w, x) == ((x + 2 ^ (w - 1)) % (2 ^ w)) - 2 ^ (w - 1)

\* static_cast of a float or double to an integer type truncates toward 0.
Trunc(f) == IF f.num < 0 THEN -((-f.num) \div f.den) ELSE f.num \div f.den

IntTypes == {"kInt16", "kInt32", "kInt64"}
RealTypes == {"kFloat", "kDouble"}

\* The integer a numeric ConstNode holds, converted to int64_t as
\* GetAsInt64 does; 0 for every other type (its default branch).
GetAsInt64(c) ==
    CASE c.dt \in IntTypes  -> c.v
      [] c.dt \in RealTypes -> WrapTo(W64, Trunc(c.v))
      [] OTHER              -> 0

\* GetAsInt32: the int64_t member and the reals go through int64_t and are
\* then narrowed on return.
GetAsInt32(c) == WrapTo(W32, GetAsInt64(c))

GetAsInt16(c) == WrapTo(W16, GetAsInt64(c))

\* GetAsFloat / GetAsDouble: the value as a fraction; 0.0 for others.
GetAsReal(c) ==
    CASE c.dt \in IntTypes  -> [num |-> c.v, den |-> 1]
      [] c.dt \in RealTypes -> c.v
      [] OTHER              -> [num |-> 0, den |-> 1]

IsNull(c) == c.dt = "kNull"

(***************************************************************************)
(* GetAsDate: boost::split on "-" with token_compress_on, then            *)
(* lexical_cast<int32_t> of date_vec[0..2].  A run of "-" is one          *)
(* separator, but a leading or trailing one still yields an empty token, *)
(* so the vector is never empty.  lexical_cast throws on an empty or      *)
(* non-numeric token; nothing catches it.  Indexing past a vector of      *)
(* fewer than three tokens is undefined.                                  *)
(***************************************************************************)
RECURSIVE SplitCompress(_, _)
SplitCompress(s, acc) ==
    IF s = <<>> THEN acc
    ELSE IF Head(s) = "-"
         THEN IF Last(acc) = <<>> /\ Len(acc) > 1
              THEN SplitCompress(Tail(s), acc)
              ELSE SplitCompress(Tail(s), Append(acc, <<>>))
         ELSE SplitCompress(Tail(s), [acc EXCEPT ![Len(acc)] = Append(@, Head(s))])

Digit == [d \in {"0", "1", "2", "3"} |-> CASE d = "0" -> 0 [] d = "1" -> 1
                                           [] d = "2" -> 2 [] d = "3" -> 3]

IsNumeral(tok) == tok # <<>> /\ \A i \in DOMAIN tok : tok[i] \in DOMAIN Digit

LexicalCast(tok) == FoldLeft(LAMBDA acc, ch : 10 * acc + Digit[ch], 0, tok)

\* The date a VALUES string gives ([ok |-> "yes", y, m, d]), "no" for a
\* non-string (GetAsDate returns false), or "crash".  The casts run in order, so a bad token before the end
\* of the vector throws; a read past its end crashes or, as "ub" chooses,
\* reads a garbage string taken here as 0.
GetAsDate(c, ub) ==
    LET toks  == SplitCompress(c.v, <<<<>>>>)
        bad   == {i \in 1..3 : i > Len(toks) \/ ~IsNumeral(toks[i])}
        Field(i) == IF i <= Len(toks) /\ IsNumeral(toks[i]) THEN LexicalCast(toks[i]) ELSE 0
    IN  CASE c.dt # "kVarchar"         -> [ok |-> "no"]
          [] bad # {} /\ Min(bad) <= Len(toks) -> [ok |-> "crash"]
          [] bad # {} /\ ub = "crash"  -> [ok |-> "crash"]
          [] OTHER -> [ok |-> "yes", y |-> Field(1), m |-> Field(2), d |-> Field(3)]

-----------------------------------------------------------------------------
\* What the row builder stores for one column.
Null == [t |-> "null"]
IntCell(x) == [t |-> "int", v |-> x]
RealCell(f) == [t |-> "real", v |-> f]
StrCell(s) == [t |-> "str", v |-> s]
DateCell(y, m, d) == [t |-> "date", y |-> y, m |-> m, d |-> d]

\* Mutant: the values are matched to the schema by position even when the
\* statement names its columns.
ColumnValueMapPositional(sch, cols, vals) ==
    [n \in {sch[i].name : i \in DOMAIN sch \cap DOMAIN vals} |->
        vals[CHOOSE i \in DOMAIN sch : sch[i].name = n]]

\* The column -> value map: by the column list, where std::map::insert
\* keeps the first of two equal names, or by schema position.
ColumnValueMap(sch, cols, vals) ==
    IF cols # <<>>
    THEN [n \in ToSet(cols) |-> vals[CHOOSE i \in DOMAIN cols :
                                      cols[i] = n /\ \A j \in 1..(i - 1) : cols[j] # n]]
    ELSE [n \in {sch[i].name : i \in DOMAIN sch} |->
            vals[CHOOSE i \in DOMAIN sch : sch[i].name = n]]

(***************************************************************************)
(* One column of the append loop (tablet_sdk.cc 371-439): [code, cell].   *)
(* AppendString of a non-string constant reads the union's integer bits   *)
(* as a char pointer.  AppendDate is outside this repository: it is taken *)
(* to accept a calendar date and to accept or refuse any other ("dok").   *)
(***************************************************************************)
AppendColumn(col, c, ub, dok) ==
    CASE col.type = "kNull"      -> [code |-> "kOk", cell |-> Null]
      [] col.type = "kInt16"     -> [code |-> "kOk", cell |-> IntCell(GetAsInt16(c))]
      [] col.type = "kInt32"     -> [code |-> "kOk", cell |-> IntCell(GetAsInt32(c))]
      [] col.type \in {"kInt64", "kTimestamp"} ->
                                    [code |-> "kOk", cell |-> IntCell(GetAsInt64(c))]
      [] col.type \in RealTypes  -> [code |-> "kOk", cell |-> RealCell(GetAsReal(c))]
      [] col.type = "kVarchar"   ->
            IF c.dt = "kVarchar" THEN [code |-> "kOk", cell |-> StrCell(c.v)]
            ELSE IF ub = "crash" THEN [code |-> "crash", cell |-> Null]
            ELSE [code |-> "kOk", cell |-> StrCell(<<"?">>)]
      [] col.type = "kDate"      ->
            LET dt == GetAsDate(c, ub)
            IN  CASE dt.ok = "crash" -> [code |-> "crash", cell |-> Null]
                  [] dt.ok = "no"    -> [code |-> "kTypeError", cell |-> Null]
                  [] dok \/ (dt.m \in 1..12 /\ dt.d \in 1..31) ->
                        [code |-> "kOk", cell |-> DateCell(dt.y, dt.m, dt.d)]
                  [] OTHER           -> [code |-> "kTypeError", cell |-> Null]
      [] OTHER                   -> [code |-> "kTypeError", cell |-> Null]

\* The loop over the schema: a column without a value, or with NULL, is
\* appended as NULL; the first failing column ends the call.
AppendRow(sch, cmap, ub, dok) ==
    LET step(acc, col) ==
          IF acc.code # "kOk" THEN acc
          ELSE IF col.name \notin DOMAIN cmap \/ IsNull(cmap[col.name])
          THEN [acc EXCEPT !.row = @ @@ (col.name :> Null)]
          ELSE LET r == AppendColumn(col, cmap[col.name], ub, dok)
               IN  [code |-> r.code, row |-> acc.row @@ (col.name :> r.cell)]
    IN  FoldLeft(step, [code |-> "kOk", row |-> <<>>], sch)

(***************************************************************************)
(* BuildInsertRequest after GetSchema: the size checks, the first pass    *)
(* over the values (a non-constant is a type error), the column map and   *)
(* the append loop; status->code = 0 at the end.                          *)
(***************************************************************************)
BuildInsertRequest(ub, dok) ==
    LET cmap == ColumnValueMap(schema, columns, values)
        r    == AppendRow(schema, cmap, ub, dok)
    IN  /\ code = "none"
        /\ CASE columns # <<>> /\ Len(columns) # Len(values) ->
                  code' = "kSizeMismatch" /\ row' = <<>>
             [] columns = <<>> /\ Len(schema) # Len(values) ->
                  code' = "kSizeMismatch" /\ row' = <<>>
             [] \E i \in DOMAIN values : values[i].dt = "expr" ->
                  code' = "kTypeError" /\ row' = <<>>
             [] OTHER -> code' = r.code /\ row' = r.row
        /\ UNCHANGED <<schema, columns, values>>

Init ==
    /\ schema \in Schemas
    /\ columns \in ColumnLists
    /\ values \in ValueLists
    /\ code = "none"
    /\ row = <<>>

Next == \E ub \in {"crash", "garbage"}, dok \in BOOLEAN : BuildInsertRequest(ub, dok)

Spec == Init /\ [][Next]_vars

-----------------------------------------------------------------------------
(***************************************************************************)
(* What an INSERT means, independently of the conversions: the value a    *)
(* literal denotes, which column types can hold it, and the cell it       *)
(* should become.  An integer column holds an integer literal in its      *)
(* range, a real column any number, a timestamp an integer, a varchar a   *)
(* string and a date a string "Y-M-D" of three numerals with a calendar   *)
(* month and day; every column holds NULL.                                *)
(***************************************************************************)
Width(t) == CASE t = "kInt16" -> W16 [] t = "kInt32" -> W32 [] OTHER -> W64

InRange(t, x) == x \in -(2 ^ (Width(t) - 1)) .. (2 ^ (Width(t) - 1) - 1)

\* The three numerals of a date string, split at its two "-".
DateParts(s) ==
    {<<SubSeq(s, 1, i - 1), SubSeq(s, i + 1, j - 1), SubSeq(s, j + 1, Len(s))>> :
        i, j \in {k \in DOMAIN s : s[k] = "-"}}

IsDateString(s) ==
    \E p \in DateParts(s) :
        /\ \A k \in 1..3 : IsNumeral(p[k])
        /\ LexicalCast(p[2]) \in 1..12 /\ LexicalCast(p[3]) \in 1..31

Holds(t, c) ==
    \/ IsNull(c)
    \/ t \in IntTypes /\ c.dt \in IntTypes /\ InRange(t, c.v)
    \/ t = "kTimestamp" /\ c.dt \in IntTypes
    \/ t \in RealTypes /\ c.dt \in IntTypes \cup RealTypes
    \/ t = "kVarchar" /\ c.dt = "kVarchar"
    \/ t = "kDate" /\ c.dt = "kVarchar" /\ IsDateString(c.v)

Intended(t, c) ==
    CASE IsNull(c)                 -> Null
      [] t \in IntTypes \cup {"kTimestamp"} -> IntCell(c.v)
      [] t \in RealTypes           -> RealCell(IF c.dt \in IntTypes THEN [num |-> c.v, den |-> 1]
                                                ELSE c.v)
      [] t = "kVarchar"            -> StrCell(c.v)
      [] OTHER -> LET p == CHOOSE q \in DateParts(c.v) : \A k \in 1..3 : IsNumeral(q[k])
                  IN  DateCell(LexicalCast(p[1]), LexicalCast(p[2]), LexicalCast(p[3]))

SchemaNames == {schema[i].name : i \in DOMAIN schema}

\* The column list, if any, names schema columns, each once.
ColumnsNamedOnce ==
    columns # <<>> =>
        /\ ToSet(columns) \subseteq SchemaNames
        /\ \A i, j \in DOMAIN columns : i < j => columns[i] # columns[j]

\* The value the statement gives a column, when it gives one.
Given(n) ==
    IF columns = <<>> THEN values[CHOOSE i \in DOMAIN schema : schema[i].name = n]
    ELSE values[CHOOSE i \in DOMAIN columns : columns[i] = n]

GivenNames == IF columns = <<>> THEN SchemaNames ELSE ToSet(columns) \cap SchemaNames

SizesMatch == Len(values) = IF columns = <<>> THEN Len(schema) ELSE Len(columns)

AllConstants == \A i \in DOMAIN values : values[i].dt # "expr"

ValuesFit ==
    \A i \in DOMAIN schema : schema[i].name \in GivenNames => Holds(schema[i].type, Given(schema[i].name))

-----------------------------------------------------------------------------
\* BuildInsertRequest stores a well-typed statement exactly: every column it
\* names gets the value the literal denotes, every other column NULL, and
\* the call succeeds; this goes through the column map, the NULL checks and
\* every ConstNode conversion (tablet_sdk.cc 310-446, sql_node.h 834-987).
WellTypedRowsStoredExactly ==
    code # "none" /\ SizesMatch /\ AllConstants /\ ColumnsNamedOnce /\ ValuesFit =>
        /\ code = "kOk"
        /\ \A i \in DOMAIN schema :
              row[schema[i].name] = IF schema[i].name \in GivenNames
                                    THEN Intended(schema[i].type, Given(schema[i].name))
                                    ELSE Null

\* BuildInsertRequest returns a status for every statement: it never
\* throws or reads outside a vector (GetAsDate, sql_node.h 911-929).
BuildNeverCrashes == code # "crash"

=============================================================================
