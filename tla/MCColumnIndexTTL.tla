------------------------- MODULE MCColumnIndexTTL -------------------------
(***************************************************************************)
(* SetTTL on a new index node, given a null list or a list of up to three *)
(* items: row counts marked latest or (as a bare integer) absolute, time  *)
(* counts of each unit, a varchar constant, another expression and a null *)
(* child.                                                                 *)
(***************************************************************************)
EXTENDS ColumnIndexTTL

Items ==
    { [dt |-> "kInt32", v |-> 10, ttl |-> "kLatest"],
      [dt |-> "kInt64", v |-> 20, ttl |-> "kLatest"],
      [dt |-> "kInt32", v |-> 10, ttl |-> "kAbsolute"],
      [dt |-> "kDay", v |-> 2, ttl |-> "kAbsolute"],
      [dt |-> "kHour", v |-> 3, ttl |-> "kAbsolute"],
      [dt |-> "kMinute", v |-> 5, ttl |-> "kAbsolute"],
      [dt |-> "kSecond", v |-> 7, ttl |-> "kAbsolute"],
      [dt |-> "kVarchar", v |-> 0, ttl |-> "kAbsolute"],
      [dt |-> "expr"], NoNode }

MCTTLLists ==
    {NoNode, <<>>} \cup {<<a>> : a \in Items} \cup {<<a, b>> : a, b \in Items}
    \cup {<<a, b, c>> : a, b, c \in {[dt |-> "kHour", v |-> 3, ttl |-> "kAbsolute"],
                                     [dt |-> "kInt32", v |-> 10, ttl |-> "kLatest"]}}
=============================================================================
