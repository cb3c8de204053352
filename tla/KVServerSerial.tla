--------------------------- MODULE KVServerSerial ---------------------------
(***************************************************************************)
(* The server implements AtomicStore.  Two history variables follow the     *)
(* server and never restrain it: told[c] is what the GET requests of the    *)
(* transaction of c have read from the committed maps, got the result of    *)
(* the last step if that was the access of a GET.                           *)
(*                                                                         *)
(* A transaction takes effect when handle_commit starts its loop: it holds  *)
(* every table it used, so the tables the loop has still to visit already   *)
(* count as committed.  It is dropped when a rollback loop starts.          *)
(***************************************************************************)
EXTENDS KVServer

CONSTANT OldValue   \* what earlier sessions have stored

ASSUME SerialAssumption == OldValue \in Vals

VARIABLES told, got

\* c returns from Table::get in this step.
Gets(c) == /\ pc[c] = "access" /\ pc'[c] # "access" /\ req[c].type = "GET"
           /\ process' = "running"

Live(c) == m_in_transaction[c] /\ pc[c] \notin {"commit", "rollback", "dtor"}

\* What the GET gave the client: the value it pushed, or nothing.
Got(c) == IF Len(m_stack'[c]) > Len(m_stack[c]) THEN GetTop(m_stack'[c])
                                                ELSE NoValue

\* The transaction reads what it has written itself.
OwnWrite(c) == key_value_temp[req[c].table][req[c].key] # NoValue

Tells(c) ==
  IF ~Live(c)' THEN {}
  ELSE IF Gets(c) /\ Live(c) /\ ~OwnWrite(c)
  THEN told[c] \cup {<<req[c].table, req[c].key, Got(c)>>}
  ELSE told[c]

\* Earlier sessions have created every table and set every key.
HInit == /\ InitWith(Tables, EachTable([k \in Keys |-> OldValue]))
         /\ told = EachConn({}) /\ got = {}

HNext ==
  /\ Next
  /\ told' = [c \in Conns |-> IF process' = "running" THEN Tells(c) ELSE {}]
  /\ got' = {<<c, Got(c)>> : c \in {d \in Conns : Gets(d)}}

hvars == <<vars, told, got>>

HSpec == HInit /\ [][HNext]_hvars

(***************************************************************************)
(* The refinement mapping.                                                 *)
(***************************************************************************)
Committing(t) == \E c \in Conns : pc[c] = "commit" /\ t \in rest[c]

StoreBar ==
  [t \in Tables |-> IF Committing(t)
                    THEN CommitChanges(key_value[t], key_value_temp[t])
                    ELSE key_value[t]]

WritesBar ==
  [c \in Conns |->
    [t \in Tables |-> IF Live(c) /\ t \in locked_tables[c]
                      THEN key_value_temp[t] ELSE EmptyMap]]

A == INSTANCE AtomicStore WITH store <- StoreBar,
                               active <- [c \in Conns |-> Live(c)],
                               reads <- told,
                               writes <- WritesBar,
                               seen <- got

\* Serializability: every behaviour of the server, with its locks, pending
\* maps and table-by-table commit, is one of the atomic store.  In
\* particular a commit is seen whole or not at all, a committed transaction
\* has read nothing that changed before its commit, a rollback leaves no
\* trace, a transaction reads its own writes, and an autocommit request reads
\* and writes committed data only.
Serializable == A!ASpec
=============================================================================
