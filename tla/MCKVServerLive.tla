--------------------------- MODULE MCKVServerLive ---------------------------
(* Constants of the TLC models of KVServerLive. *)
EXTENDS KVServerLive

MCVals  == {"0", "1"}
MCStoi  == [v \in MCVals |-> IF v = "0" THEN 0 ELSE -1]
MCToStr == [i \in -1 .. 0 |-> IF i = 0 THEN "0" ELSE "1"]

MCRequests == [type : {"LOGIN", "BEGIN", "COMMIT", "BYE"}]
              \cup [type : {"CREATE"}, table : Tables]
              \cup [type : {"GET"}, table : Tables, key : Keys]
=============================================================================
