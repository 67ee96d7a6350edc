-------------------------- MODULE ColumnIndexTTL --------------------------
(***************************************************************************)
(* ColumnIndexNode::SetTTL, src/src/include/node/sql_node.h 1881-1955,    *)
(* with ConstNode::GetMillis (824-841): the TTL list of an index in a      *)
(* CREATE TABLE becomes abs_ttl_ (milliseconds) and lat_ttl_ (a row       *)
(* count).  The constructor sets both to -2; SetTTL marks a list it        *)
(* refuses by setting both to -1.                                          *)
(*                                                                         *)
(* A TTL item is a ConstNode [dt, v, ttl] or a node of another expression *)
(* type ([dt |-> "expr"]), or NoNode for a null child; the list itself    *)
(* may be NoNode.  A time-unit constant is always kAbsolute: the          *)
(* constructor that builds it does not take a TTL type.                   *)
(***************************************************************************)
EXTENDS Integers, Sequences, SequencesExt

CONSTANTS
    TTLLists,  \* the ttl_node_list arguments the parser may pass
    NoNode     \* a null pointer

VARIABLES
    abs_ttl,   \* abs_ttl_
    lat_ttl,   \* lat_ttl_
    ttl_list   \* history, not program state: the list SetTTL was given

vars == <<abs_ttl, lat_ttl, ttl_list>>

TimeUnits == {"kDay", "kHour", "kMinute", "kSecond"}

\* Mutant: hour and minute multipliers swapped.
GetMillisSwapped(c) ==
    CASE c.dt = "kDay"    -> 86400000 * c.v
      [] c.dt = "kHour"   -> 60000 * c.v
      [] c.dt = "kMinute" -> 3600000 * c.v
      [] c.dt = "kSecond" -> 1000 * c.v
      [] OTHER            -> -1

\* ConstNode::GetMillis: the count times the unit's milliseconds, -1 for a
\* constant that is not a time unit.
GetMillis(c) ==
    CASE c.dt = "kDay"    -> 86400000 * c.v
      [] c.dt = "kHour"   -> 3600000 * c.v
      [] c.dt = "kMinute" -> 60000 * c.v
      [] c.dt = "kSecond" -> 1000 * c.v
      [] OTHER            -> -1

Refused == [abs |-> -1, lat |-> -1]

(***************************************************************************)
(* The loop over the items as a left fold on [abs, lat, stop]: a refused  *)
(* item sets both to -1 and stops; an unsupported constant type or        *)
(* expression type stops without touching either (the default branches'  *)
(* bare return).                                                          *)
(***************************************************************************)
TTLStep(acc, n) ==
    CASE acc.stop                        -> acc
      [] n = NoNode                      -> [abs |-> -1, lat |-> -1, stop |-> TRUE]
      [] n.dt = "expr"                   -> [acc EXCEPT !.stop = TRUE]
      [] n.dt \in {"kInt32", "kInt64"}   ->
            IF n.ttl = "kAbsolute" THEN [abs |-> -1, lat |-> -1, stop |-> TRUE]
            ELSE [acc EXCEPT !.lat = n.v]
      [] n.dt \in TimeUnits              ->
            IF n.ttl = "kAbsolute" THEN [acc EXCEPT !.abs = GetMillis(n)]
            ELSE [abs |-> -1, lat |-> -1, stop |-> TRUE]
      [] OTHER                           -> [acc EXCEPT !.stop = TRUE]

\* SetTTL: a null list or one of more than two items is refused outright.
SetTTL(l) ==
    LET r == IF l = NoNode \/ Len(l) > 2 THEN Refused
             ELSE LET f == FoldLeft(TTLStep, [abs |-> abs_ttl, lat |-> lat_ttl, stop |-> FALSE], l)
                  IN  [abs |-> f.abs, lat |-> f.lat]
    IN  /\ ttl_list = "none"
        /\ abs_ttl' = r.abs
        /\ lat_ttl' = r.lat
        /\ ttl_list' = l

Init ==
    /\ abs_ttl = -2
    /\ lat_ttl = -2
    /\ ttl_list = "none"

Next == \E l \in TTLLists : SetTTL(l)

Spec == Init /\ [][Next]_vars

-----------------------------------------------------------------------------
(***************************************************************************)
(* What a TTL list means: at most one absolute TTL, a time-unit count,    *)
(* and at most one latest TTL, an integer row count.  Anything else in    *)
(* the list (a constant of another type, another expression, a null       *)
(* child) makes it unusable.                                              *)
(***************************************************************************)
IsAbs(n) == n # NoNode /\ n.dt \in TimeUnits /\ n.ttl = "kAbsolute"
IsLat(n) == n # NoNode /\ n.dt \in {"kInt32", "kInt64"} /\ n.ttl = "kLatest"

MillisOf(n) ==
    n.v * CASE n.dt = "kDay" -> 24 * 60 * 60 * 1000 [] n.dt = "kHour" -> 60 * 60 * 1000
             [] n.dt = "kMinute" -> 60 * 1000 [] OTHER -> 1000

WellFormed(l) ==
    /\ l # NoNode
    /\ \A i \in DOMAIN l : IsAbs(l[i]) \/ IsLat(l[i])
    /\ \A i, j \in DOMAIN l : i < j => ~(IsAbs(l[i]) /\ IsAbs(l[j])) /\ ~(IsLat(l[i]) /\ IsLat(l[j]))

\* SetTTL stores a well-formed list exactly: the absolute TTL in
\* milliseconds through GetMillis, the latest TTL as given, and the -2 of
\* the constructor for a kind the list leaves out (sql_node.h 1881-1955).
WellFormedTTLStored ==
    ttl_list # "none" /\ WellFormed(ttl_list) =>
        /\ abs_ttl = IF \E i \in DOMAIN ttl_list : IsAbs(ttl_list[i])
                     THEN MillisOf(ttl_list[CHOOSE i \in DOMAIN ttl_list : IsAbs(ttl_list[i])])
                     ELSE -2
        /\ lat_ttl = IF \E i \in DOMAIN ttl_list : IsLat(ttl_list[i])
                     THEN ttl_list[CHOOSE i \in DOMAIN ttl_list : IsLat(ttl_list[i])].v
                     ELSE -2

=============================================================================
