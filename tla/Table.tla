------------------------------- MODULE Table -------------------------------
(***************************************************************************)
(* One Table object (table.cpp): the committed map key_value and the map    *)
(* key_value_temp of changes not yet committed.  A std::map is a total      *)
(* function in which NoValue stands for "no such key".  The operators are   *)
(* the member functions, on the two maps kv and temp of one table; the      *)
(* mutex table_mutex belongs to the threads' module, KVServer.              *)
(*                                                                         *)
(* StaleGet, AnyKey and KeepChanges are mutants of the operators that       *)
(* follow them: nothing uses them but the mutation runs.                    *)
(***************************************************************************)
EXTENDS Values

CONSTANTS Keys

Map == [Keys -> Vals \cup {NoValue}]

\* The constructor: both maps start empty.
EmptyMap == [k \in Keys |-> NoValue]

\* Table::set records the value among the pending changes only.
TableSet(temp, k, v) == [temp EXCEPT ![k] = v]

\* Table::get looks at the pending changes first.
StaleGet(kv, temp, k) == IF kv[k] # NoValue THEN kv[k] ELSE temp[k]
TableGet(kv, temp, k) == IF temp[k] # NoValue THEN temp[k] ELSE kv[k]

\* Table::get throws OperationException when neither map has the key.
AnyKey(kv, temp, k) == TRUE
HasKey(kv, temp, k) == temp[k] # NoValue \/ kv[k] # NoValue

\* Table::commit_changes copies every pending change over the committed map
\* and clears the pending one, which is EmptyMap from then on.
CommitChanges(kv, temp) ==
  [k \in Keys |-> IF temp[k] # NoValue THEN temp[k] ELSE kv[k]]

\* Table::rollback_changes clears the pending map.
KeepChanges(temp)     == temp
RollbackChanges(temp) == EmptyMap
=============================================================================
