----------------------------- MODULE Analyser -----------------------------
(***************************************************************************)
(* FeSQLAnalyser of src/src/analyser/analyser.cc: the semantic check run   *)
(* on parse trees before planning.                                         *)
(*                                                                         *)
(* Initialize() fills the built-in function table and builds table_map_,  *)
(* table name -> column names, from the tables the analyser was built     *)
(* with; a duplicate table name clears the map.  Analyse(parser_trees,    *)
(* query_trees, status) checks the trees one by one, stops at the first   *)
(* error and pushes every tree that passed.  On the way it annotates the  *)
(* nodes in place: a column or * reference without a relation gets the    *)
(* FROM table, a function call gets its aggregate flag.                   *)
(*                                                                         *)
(* A parse tree is a record; a name is a model value or string; a status  *)
(* is its error code.  Each call gets a fresh Status, as every caller of  *)
(* the planner builds one per statement.                                  *)
(***************************************************************************)
EXTENDS Naturals, Sequences, SequencesExt

CONSTANTS
    Tables,       \* the tables_ the analyser was built with: a sequence of
                  \* [name, columns]
    ParserTrees,  \* the parser_trees vectors a caller may pass
    NoVal         \* a null node pointer

VARIABLES
    func_defs,    \* function name -> "agg" | "scalar"
    table_map,    \* table name -> set of column names
    ret,          \* the code the last Analyse call returned, or "crash"
    parser_trees, \* the trees of the last call, as the caller built them
    query_trees,  \* the trees the last call pushed, with their annotations
    initialized   \* history variable, not program state: Initialize had
                  \* run when the last Analyse call was made

vars == <<func_defs, table_map, ret, parser_trees, query_trees, initialized>>

\* Result of one transform: the status code and the node as annotated.
Res(code, node) == [code |-> code, node |-> node]

IsTableExist(t) == t \in DOMAIN table_map

IsColumnExistInTable(c, t) == IsTableExist(t) /\ c \in table_map[t]

GetAggFunDefType(f) ==
    IF f \in DOMAIN func_defs THEN func_defs[f] ELSE "unknown"

\* A column reference: an empty name is an error, an empty relation takes
\* the FROM table, then the column must exist in that relation.
TransformColumnRef(e, table) ==
    IF e.column = "" THEN Res("kAnalyserErrorColumnNameIsEmpty", e)
    ELSE LET e1 == IF e.relation = "" THEN [e EXCEPT !.relation = table] ELSE e
         IN  IF IsColumnExistInTable(e1.column, e1.relation)
             THEN Res("kOk", e1)
             ELSE Res("kAnalyserErrorColumnNotExist", e1)

\* SELECT *: an empty relation takes the FROM table; another one is an
\* error.
\* Mutant: a * that already names the FROM table is refused.
TransformAllRefOnlyEmpty(e, table) ==
    IF e.relation = "" THEN Res("kOk", [e EXCEPT !.relation = table])
    ELSE Res("kAnalyserErrorTableNotExist", e)

TransformAllRef(e, table) ==
    CASE e.relation = ""    -> Res("kOk", [e EXCEPT !.relation = table])
      [] e.relation = table -> Res("kOk", e)
      [] OTHER              -> Res("kAnalyserErrorTableNotExist", e)

\* The loop "for each arg: transform; if (0 != status.code) return", as a
\* left fold that leaves the remaining args untouched after an error.
RECURSIVE TransformExprNode(_, _), TransformFuncNode(_, _)
TransformArgs(args, table) ==
    LET step(acc, a) ==
          IF acc.code # "kOk" THEN [acc EXCEPT !.node = Append(@, a)]
          ELSE LET r == TransformExprNode(a, table)
               IN  Res(r.code, Append(acc.node, r.node))
    IN  FoldLeft(step, Res("kOk", <<>>), args)

\* A function call: its args, then its definition type sets the aggregate
\* flag; an aggregate needs an OVER window, which is then transformed.
\* The window of a call: each PARTITION BY and ORDER BY item goes through
\* TransformPartition / TransformOrder, whose bodies are empty.
TransformWindowDef(e, table) == Res("kOk", e)

\* Mutant: the aggregate flag is checked but never stored on the node.
TransformFuncNodeNoSetAgg(e, table) ==
    LET ra == TransformArgs(e.args, table)
        e1 == [e EXCEPT !.args = ra.node]
        ft == GetAggFunDefType(e.name)
    IN  CASE ra.code # "kOk"          -> Res(ra.code, e1)
          [] ft = "unknown"           -> Res("kAnalyserErrorGlobalAggFunction", e1)
          [] ~e.over /\ ft = "agg"    -> Res("kAnalyserErrorGlobalAggFunction", e1)
          [] OTHER                    -> Res("kOk", e1)

TransformFuncNode(e, table) ==
    LET ra == TransformArgs(e.args, table)
        e1 == [e EXCEPT !.args = ra.node]
        ft == GetAggFunDefType(e.name)
        e2 == [e1 EXCEPT !.agg = (ft = "agg")]
    IN  CASE ra.code # "kOk"      -> Res(ra.code, e1)
          [] ft = "unknown"   -> Res("kAnalyserErrorGlobalAggFunction", e1)
          [] ~e.over /\ e2.agg -> Res("kAnalyserErrorGlobalAggFunction", e2)
          [] e.over           -> TransformWindowDef(e2, table)
          [] OTHER            -> Res("kOk", e2)

TransformExprNode(e, table) ==
    CASE e = NoVal             -> Res("kExecuteErrorNullNode", e)
      [] e.kind = "column"     -> TransformColumnRef(e, table)
      [] e.kind = "func"       -> TransformFuncNode(e, table)
      [] OTHER                 -> Res("kAnalyserErrorSQLTypeNotSupport", e)

(***************************************************************************)
(* One select-list item.  A non-ResTarget node only sets the status and   *)
(* is then read as a ResTarget anyway (undefined: the build either        *)
(* crashes on the bogus value or carries on with the error, as "ub"       *)
(* chooses); a null value sets the status and is then dereferenced.      *)
(***************************************************************************)
TransformTarget(n, table, ub) ==
    CASE n.type # "ResTarget"    -> Res(ub, n)
      [] n.val = NoVal           -> Res("crash", n)
      [] n.val.kind = "column"   ->
            LET r == TransformColumnRef(n.val, table) IN Res(r.code, [n EXCEPT !.val = r.node])
      [] n.val.kind = "func"     ->
            LET r == TransformFuncNode(n.val, table) IN Res(r.code, [n EXCEPT !.val = r.node])
      [] n.val.kind = "all"      ->
            LET r == TransformAllRef(n.val, table) IN Res(r.code, [n EXCEPT !.val = r.node])
      [] OTHER                   -> Res("kAnalyserErrorSQLTypeNotSupport", n)

TransformSingleTableSelectNode(s, ub) ==
    LET table == s.tables[1]
        step(acc, n) ==
          IF acc.code # "kOk" THEN [acc EXCEPT !.node = Append(@, n)]
          ELSE LET r == TransformTarget(n, table, ub)
               IN  Res(r.code, Append(acc.node, r.node))
        rl == FoldLeft(step, Res("kOk", <<>>), s.targets)
    IN  CASE table = NoVal             -> Res("kAnalyserErrorTableRefIsNull", s)
          [] ~IsTableExist(table)      -> Res("kAnalyserErrorTableNotExist", s)
          [] OTHER                     -> Res(rl.code, [s EXCEPT !.targets = rl.node])

TransformSelectNode(s, ub) ==
    CASE s.tables = <<>>     -> Res("kAnalyserErrorFromListEmpty", s)
      [] Len(s.tables) = 1   -> TransformSingleTableSelectNode(s, ub)
      [] OTHER               -> Res("kAnalyserErrorQueryMultiTable", s)

TransformCreateNode(c) ==
    IF ~c.if_not_exist /\ IsTableExist(c.table)
    THEN Res("kAnalyserErrorTableAlreadyExist", c)
    ELSE Res("kOk", c)

\* TransformInsertNode and TransformCmdNode: nothing to check.
TransformStmtNoOp(t) == Res("kOk", t)

\* Analyse(SQLNode*, status): dispatch on the statement type.
AnalyseTree(t, ub) ==
    CASE t = NoVal                  -> Res("kPlanErrorNullNode", t)
      [] t.type = "select"          -> TransformSelectNode(t, ub)
      [] t.type = "create"          -> TransformCreateNode(t)
      [] t.type \in {"cmd", "insert"} -> TransformStmtNoOp(t)
      [] OTHER                      -> Res("kAnalyserErrorSQLTypeNotSupport", t)

-----------------------------------------------------------------------------
Init ==
    /\ func_defs = <<>>
    /\ table_map = <<>>
    /\ ret = "kOk"
    /\ parser_trees = <<>>
    /\ query_trees = <<>>
    /\ initialized = FALSE

\* table_map_[name] = the column names of that table.
MapOf(ts) ==
    [n \in {ts[i].name : i \in DOMAIN ts} |->
        ts[CHOOSE i \in DOMAIN ts : ts[i].name = n].columns]

HasDuplicate(ts) == \E i, j \in DOMAIN ts : i < j /\ ts[i].name = ts[j].name

\* Mutant: COUNT registered as a scalar function.
InitializeCountScalar ==
    /\ ret # "crash"
    /\ func_defs' = [f \in {"SUBSTR", "TRIM", "COUNT"} |-> "scalar"]
                    @@ [f \in {"SUM", "AVG", "MIN", "MAX"} |-> "agg"]
    /\ table_map' = CASE Tables = <<>>     -> table_map
                      [] HasDuplicate(Tables) -> <<>>
                      [] OTHER             -> MapOf(Tables)
    /\ UNCHANGED <<ret, parser_trees, query_trees, initialized>>

Initialize ==
    /\ ret # "crash"
    /\ func_defs' = [f \in {"SUBSTR", "TRIM"} |-> "scalar"]
                    @@ [f \in {"COUNT", "SUM", "AVG", "MIN", "MAX"} |-> "agg"]
    /\ table_map' = CASE Tables = <<>>     -> table_map
                      [] HasDuplicate(Tables) -> <<>>
                      [] OTHER             -> MapOf(Tables)
    /\ UNCHANGED <<ret, parser_trees, query_trees, initialized>>

(***************************************************************************)
(* Analyse(parser_trees, query_trees, status): an empty vector is an      *)
(* error; otherwise each tree is analysed in turn and pushed when its     *)
(* status is still kOk; the first error (or a crash) ends the call.         *)
(***************************************************************************)
Analyse(pts, ub) ==
    LET step(acc, t) ==
          IF acc.code # "kOk" THEN acc
          ELSE LET r == AnalyseTree(t, ub)
               IN  IF r.code = "kOk" THEN Res("kOk", Append(acc.node, r.node))
                   ELSE Res(r.code, acc.node)
        r == FoldLeft(step, Res("kOk", <<>>), pts)
    IN  /\ ret # "crash"
        /\ parser_trees' = pts
        /\ initialized' = (func_defs # <<>>)
        /\ IF pts = <<>>
           THEN ret' = "kAnalyserErrorParserTreeEmpty" /\ query_trees' = <<>>
           ELSE ret' = r.code /\ query_trees' = r.node
        /\ UNCHANGED <<func_defs, table_map>>

Next ==
    \/ Initialize
    \/ \E pts \in ParserTrees, ub \in {"crash", "kAnalyserErrorUnSupport"} :
          Analyse(pts, ub)

Spec == Init /\ [][Next]_vars

-----------------------------------------------------------------------------
(***************************************************************************)
(* What a statement over the catalog means, independently of the walk     *)
(* above: a single-table SELECT is valid when every item is a column of   *)
(* the FROM table, a * of the FROM table, or a call of a known function   *)
(* whose arguments are valid columns or calls and which, if it is an      *)
(* aggregate, has an OVER window.  A CREATE is valid unless the table     *)
(* exists and IF NOT EXISTS is absent; INSERT and commands always are.    *)
(***************************************************************************)
AggFuncs == {"COUNT", "SUM", "AVG", "MIN", "MAX"}
KnownFuncs == AggFuncs \cup {"SUBSTR", "TRIM"}

CatalogNames == {Tables[i].name : i \in DOMAIN Tables}
CatalogColumns(t) == UNION {Tables[i].columns : i \in {j \in DOMAIN Tables : Tables[j].name = t}}

RECURSIVE ValidExpr(_, _)
ValidExpr(e, t) ==
    /\ e # NoVal
    /\ CASE e.kind = "column" ->
              e.column # "" /\ e.relation \in {"", t} /\ e.column \in CatalogColumns(t)
         [] e.kind = "func" ->
              /\ e.name \in KnownFuncs
              /\ e.name \in AggFuncs => e.over
              /\ \A i \in DOMAIN e.args :
                    e.args[i] # NoVal /\ e.args[i].kind \in {"column", "func"}
                    /\ ValidExpr(e.args[i], t)
         [] e.kind = "all" -> e.relation \in {"", t}
         [] OTHER -> FALSE

ValidTree(x) ==
    /\ x # NoVal
    /\ CASE x.type = "select" ->
              /\ Len(x.tables) = 1
              /\ x.tables[1] \in CatalogNames
              /\ \A i \in DOMAIN x.targets :
                    x.targets[i].type = "ResTarget" /\ ValidExpr(x.targets[i].val, x.tables[1])
         [] x.type = "create" -> x.if_not_exist \/ x.table \notin CatalogNames
         [] x.type \in {"cmd", "insert"} -> TRUE
         [] OTHER -> FALSE

AllValid(pts) == \A i \in DOMAIN pts : ValidTree(pts[i])

\* The last call was made after Initialize over a catalog whose table names
\* are distinct.
ConsistentCall ==
    initialized /\ Tables # <<>> /\ ~HasDuplicate(Tables) /\ parser_trees # <<>>

\* The column, * and function nodes of an expression, nested ones included.
RECURSIVE ExprNodes(_)
ExprNodes(e) ==
    IF e = NoVal THEN {}
    ELSE {e} \cup (IF e.kind = "func"
                   THEN UNION {ExprNodes(e.args[i]) : i \in DOMAIN e.args}
                   ELSE {})

\* Every expression node of the select lists the last call pushed.
PushedNodes ==
    LET sel == {query_trees[k] : k \in {i \in DOMAIN query_trees :
                                           query_trees[i] # NoVal
                                           /\ query_trees[i].type = "select"}}
    IN  UNION {UNION {ExprNodes(s.targets[j].val) : j \in DOMAIN s.targets} : s \in sel}

-----------------------------------------------------------------------------
TypeOK ==
    /\ ret \in STRING
    /\ initialized \in BOOLEAN
    /\ DOMAIN func_defs \subseteq KnownFuncs
    /\ \A f \in DOMAIN func_defs : func_defs[f] = IF f \in AggFuncs THEN "agg" ELSE "scalar"
    /\ DOMAIN table_map \subseteq CatalogNames
    /\ Len(query_trees) <= Len(parser_trees)

\* Completeness of Analyse (analyser.cc 15-32 with the transforms it calls):
\* after Initialize over a consistent catalog, a vector of statements that
\* are all valid is accepted, and every one of them is pushed.
ValidStatementsAccepted ==
    ConsistentCall /\ AllValid(parser_trees) =>
        /\ ret = "kOk"
        /\ Len(query_trees) = Len(parser_trees)

\* The annotations the planner relies on (TransformColumnRef, TransformAllRef,
\* TransformFuncNode): when a call succeeds, every column and * reference it
\* pushed names a relation, and every function call, nested ones included,
\* carries the aggregate flag of its definition; an aggregate has a window.
AcceptedTreesAnnotated ==
    ret = "kOk" =>
        \A e \in PushedNodes :
            /\ e.kind \in {"column", "all"} => e.relation # ""
            /\ e.kind = "func" => (e.agg = (e.name \in AggFuncs) /\ (e.agg => e.over))

\* The select-list walk (analyser.cc 107-121) never dereferences a bad node:
\* every input ends in a status code.
AnalyseNeverCrashes == ret # "crash"

=============================================================================
