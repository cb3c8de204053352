-------------------------- MODULE MCKVServerSerial --------------------------
(* Constants of the TLC models of KVServerSerial. *)
EXTENDS KVServerSerial, TLC

MCVals  == {"0", "1"}
MCStoi  == [v \in MCVals |-> IF v = "0" THEN 0 ELSE -1]
MCToStr == [i \in -1 .. 0 |-> IF i = 0 THEN "0" ELSE "1"]

\* Transactions and single operations on tables, which exist already.
TxnRequests == [type : {"LOGIN", "BEGIN", "COMMIT"}]
               \cup [type : {"GET", "SET"}, table : Tables, key : Keys]
               \cup [type : {"PUSH"}, value : {"1"}]

Symmetry == Permutations(Conns) \cup Permutations(Tables)
=============================================================================
