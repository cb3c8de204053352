---------------------------- MODULE AtomicStore -----------------------------
(***************************************************************************)
(* What the store promises its clients, without locks, threads or pending   *)
(* maps: serializable transactions beside atomic single operations.         *)
(*                                                                         *)
(* A transaction collects what it has read from the store and what it wants *)
(* to write.  It commits in one step, and only if everything it has read is *)
(* still so: it behaves as if it had run alone at that moment.  Otherwise   *)
(* it is dropped without a trace.                                           *)
(***************************************************************************)
EXTENDS Table

CONSTANTS Conns, Tables

VARIABLES store,   \* the committed maps
          active,  \* is the connection in a transaction?
          reads,   \* what its transaction has read: <<table, key, value>>
          writes,  \* what its transaction has written so far
          seen     \* what the last step returned: {} or {<<client, value>>}

avars == <<store, active, reads, writes, seen>>

NoWrites == [t \in Tables |-> EmptyMap]

\* The store may hold something from the beginning.
AInit ==
  /\ store \in [Tables -> Map]
  /\ active = [c \in Conns |-> FALSE]
  /\ reads = [c \in Conns |-> {}]
  /\ writes = [c \in Conns |-> NoWrites]
  /\ seen = {}

Begin(c) ==
  /\ ~active[c]
  /\ active' = [active EXCEPT ![c] = TRUE]
  /\ seen' = {}
  /\ UNCHANGED <<store, reads, writes>>

\* A read of what the transaction wrote itself tells nothing of the store.
ReadOwn(c, t, k) ==
  /\ active[c]
  /\ writes[c][t][k] # NoValue
  /\ seen' = {<<c, writes[c][t][k]>>}
  /\ UNCHANGED <<store, active, reads, writes>>

Read(c, t, k) ==
  /\ active[c]
  /\ writes[c][t][k] = NoValue
  /\ seen' = {<<c, store[t][k]>>}
  /\ reads' = [reads EXCEPT ![c] = @ \cup {<<t, k, store[t][k]>>}]
  /\ UNCHANGED <<store, active, writes>>

Write(c, t, k, v) ==
  /\ active[c]
  /\ writes' = [writes EXCEPT ![c][t][k] = v]
  /\ seen' = {}
  /\ UNCHANGED <<store, active, reads>>

\* The connection leaves its transaction, if it is in one.
Drop(c) ==
  /\ active' = [active EXCEPT ![c] = FALSE]
  /\ reads' = [reads EXCEPT ![c] = {}]
  /\ writes' = [writes EXCEPT ![c] = NoWrites]
  /\ seen' = {}

Commit(c) ==
  /\ active[c]
  /\ \A r \in reads[c] : store[r[1]][r[2]] = r[3]
  /\ store' = [t \in Tables |-> CommitChanges(store[t], writes[c][t])]
  /\ Drop(c)

Abort(c) == Drop(c) /\ UNCHANGED store

\* Autocommit GET and SET are atomic by themselves.
ReadOne(c, t, k) ==
  /\ ~active[c]
  /\ seen' = {<<c, store[t][k]>>}
  /\ UNCHANGED <<store, active, reads, writes>>

WriteOne(c, t, k, v) ==
  /\ ~active[c]
  /\ store' = [store EXCEPT ![t][k] = v]
  /\ seen' = {}
  /\ UNCHANGED <<active, reads, writes>>

\* Nothing happens to the store: seen is about the last step only.
Idle == seen' = {} /\ UNCHANGED <<store, active, reads, writes>>

\* The server process ends and takes the store with it.
Crash ==
  /\ store' = NoWrites
  /\ active' = [c \in Conns |-> FALSE]
  /\ reads' = [c \in Conns |-> {}]
  /\ writes' = [c \in Conns |-> NoWrites]
  /\ seen' = {}

ANext ==
  \/ \E c \in Conns :
       \/ Begin(c) \/ Commit(c) \/ Abort(c)
       \/ \E t \in Tables, k \in Keys :
            \/ ReadOwn(c, t, k) \/ Read(c, t, k) \/ ReadOne(c, t, k)
            \/ \E v \in Vals : Write(c, t, k, v) \/ WriteOne(c, t, k, v)
  \/ Crash \/ Idle

ASpec == AInit /\ [][ANext]_avars
=============================================================================
