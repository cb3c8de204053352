---------------------------- MODULE MCKVClients ----------------------------
(* Constants of the TLC models of KVClients. *)
EXTENDS KVClients, TLC

CONSTANTS c1, c2

\* Ints of three bits and their numerals, of which the clients use 0 to 3.
MCInts  == -4 .. 3
MCToStr == [i \in MCInts |-> ToString(i)]
MCVals  == {ToString(i) : i \in MCInts}
MCStoi  == [v \in MCVals |-> CHOOSE i \in MCInts : ToString(i) = v]

MCRequests == {Program(r)[i].line : r \in {"get"}, i \in 1 .. 3}
              \cup [type : {"BEGIN", "COMMIT", "ADD", "BYE", "GARBAGE"}]
              \cup [type : {"PUSH"}, value : {One, NewValue}]
              \cup {OnKey("SET").line}

Sound(r)        == [role |-> r, flaw |-> NoFlaw]
Flawed(r, w, a) == [role |-> r, flaw |-> [what |-> w, arg |-> a]]
Pair(x, y)      == c1 :> x @@ c2 :> y

\* Two increments, and an increment beside each other program, also with a
\* name that decode refuses and a value that encode does.
Pairs == {Pair(Sound("incr_t"), Sound("incr_t")),
          Pair(Sound("incr_t"), Sound("get")),
          Pair(Sound("incr_t"), Flawed("get", "invalid", "name")),
          Pair(Sound("incr_t"), Flawed("set", "long", "value")),
          Pair(Sound("incr_t"), Sound("set")),
          Pair(Sound("incr_t"), Sound("incr")),
          Pair(Sound("incr"), Sound("set"))}

OnlySet == {[c \in Conns |-> Sound("set")]}
=============================================================================
