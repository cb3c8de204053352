----------------------------- MODULE MCKVServer -----------------------------
(* Constants of the TLC models of KVServer. *)
EXTENDS KVServer, TLC

(***************************************************************************)
(* Ints of three bits, their numerals, and three more values: one stoi      *)
(* parses with a suffix left over, one that is no number, one that is out   *)
(* of range.                                                                *)
(***************************************************************************)
MCIntMax == 3
MCInts   == -4 .. 3
MCToStr  == [i \in MCInts |-> ToString(i)]
Numerals == {ToString(i) : i \in MCInts}
MCVals   == Numerals \cup {"1up", "word", "99"}
MCStoi   == [v \in Numerals \cup {"1up"} |->
               IF v = "1up" THEN 1 ELSE CHOOSE i \in MCInts : ToString(i) = v]

Plain(types) == [type : types]
OnTables     == [type : {"CREATE"}, table : Tables]
OnKeys       == [type : {"GET", "SET"}, table : Tables, key : Keys]
Pushes(vs)   == [type : {"PUSH"}, value : vs]

\* Transactions and single operations on tables.
TxnRequests == Plain({"LOGIN", "BEGIN", "COMMIT"}) \cup OnTables \cup OnKeys
               \cup Pushes({"1"})

\* Everything else a client can send.
CalcRequests == Plain(PlainTypes \ {"NONE"}) \cup Pushes(MCVals)

Symmetry == Permutations(Conns) \cup Permutations(Tables)
=============================================================================
