---------------------------- MODULE KVServerLive ----------------------------
(***************************************************************************)
(* What the server must eventually do.  The clients together send at most   *)
(* MaxRequests requests, and none after closing; any number of them may     *)
(* connect and close.                                                       *)
(*                                                                         *)
(* Fairness is that of the scheduler and the kernel: a thread that can go   *)
(* on does, and a blocked read returns once the peer has closed.  Nothing   *)
(* is assumed of the mutexes: a thread blocked in pthread_mutex_lock gets   *)
(* the mutex only if it stays free (weak fairness), since pthread mutexes   *)
(* are not queues.                                                          *)
(***************************************************************************)
EXTENDS KVServer

CONSTANT MaxRequests

ASSUME LiveAssumption == MaxRequests \in Nat /\ ~Impatient

VARIABLE sent   \* requests received so far

lvars == <<vars, sent>>

LInit == Init /\ sent = 0

Request(c) ==
  /\ sent < MaxRequests
  /\ \E m \in Requests : Dispatch(c, m)
  /\ sent' = sent + 1

LNext ==
  \/ \E c \in Conns :
       \/ Request(c)
       \/ (AcceptClient(c) \/ PeerCloses(c) \/ ReadEOF(c) \/ Work(c))
          /\ UNCHANGED sent
  \/ (AcceptError \/ Ended) /\ UNCHANGED sent

Threads == \A c \in Conns : WF_lvars(Work(c) /\ UNCHANGED sent)
                         /\ WF_lvars(ReadEOF(c) /\ UNCHANGED sent)

\* Every client closes, or ends, at some time.
Clients == \A c \in Conns : WF_lvars(PeerCloses(c) /\ UNCHANGED sent)

\* Clients may stay connected, and idle in a transaction, for ever.
IdleSpec == LInit /\ [][LNext]_lvars /\ Threads

\* A request inside a transaction never waits for another client: it is
\* answered whatever the others do, even if they keep tables locked for ever
\* (the README's "the transaction does not wait").
TransactionNeverWaits ==
  \A c \in Conns :
    (m_in_transaction[c] /\ pc[c] # "read") ~> pc[c] \in {"read", "off"}

\* If clients end, every connection is torn down, however its client ended and
\* whoever it had to wait for: its thread, stack and tables are freed.
Drained ==
  Clients => \A c \in Conns : pc[c] # "off" ~> pc[c] = "off"
=============================================================================
