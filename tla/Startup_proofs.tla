--------------------------- MODULE Startup_proofs ---------------------------
(***************************************************************************)
(* The socket that start-up leaves behind, for every number of addresses.   *)
(* SocketInv says at which calls the socket of the address being tried is   *)
(* open, and how the result tells the caller.                               *)
(***************************************************************************)
EXTENDS Startup, FiniteSetTheorems, TLAPS

\* The function has failed, having closed its socket unless close failed, or
\* it returns the descriptor of the one socket.
Returned ==
  \/ ret \in {-1, -2} /\ ready = {} /\ (unclosed \/ open = {})
  \/ ret = p /\ open = {p} /\ ready = {p}

SocketInv ==
  /\ p \in Nat \ {0} /\ ret \in Int
  /\ open \subseteq {p}
  /\ pc \in {"getaddrinfo", "socket"} => open = {} /\ ready = {}
  /\ pc \in {"bind", "close", "listen"} => open = {p} /\ ready = {}
  /\ pc \in {"caller", "done"} => Returned
  /\ pc # "done" => outcome = "none"
  /\ pc \in {"getaddrinfo", "socket", "bind", "close", "listen", "caller", "done"}
  /\ outcome \in {"serving", "connected"} => ret = p
  /\ outcome \in {"exit 0", "exit 1"} => ret # p

\* A descriptor is no error code.
LEMMA NoErrorCode == /\ \A i \in Nat : i # -1 /\ i # -2 /\ ~(i < 0)
                     /\ -1 < 0 /\ -2 < 0
OBVIOUS

\* Initially there is no socket.
LEMMA InitSocket == Init => SocketInv
BY DEF Init, SocketInv

\* Every call, whether it succeeds or fails, keeps SocketInv.
LEMMA NextSocket ==
  ASSUME SocketInv, [Next]_vars
  PROVE  SocketInv'
<1> USE DEF SocketInv, Returned, Return, TryNext
<1>1. CASE Getaddrinfo
  BY <1>1 DEF Getaddrinfo
<1>2. CASE Socket
  <2>1. CASE open' = open \cup {p} /\ pc' = "bind" /\ UNCHANGED p
    BY <1>2, <2>1 DEF Socket
  <2>2. CASE TryNext /\ UNCHANGED open
    BY <1>2, <2>2 DEF Socket
  <2> QED
    BY <1>2, <2>1, <2>2 DEF Socket
<1>3. CASE Exhausted
  BY <1>3 DEF Exhausted
<1>4. CASE Bind
  BY <1>4 DEF Bind, AfterFailure
<1>5. CASE Close
  BY <1>5 DEF Close
<1>6. CASE Listen
  BY <1>6 DEF Listen
<1>n. p # -1 /\ p # -2 /\ ~(p < 0)
  BY NoErrorCode
<1>7. CASE ServerMain
  <2>1. CASE ret = p
    BY <1>7, <1>n, <2>1 DEF ServerMain
  <2>2. CASE ret # p
    <3>1. outcome' \in {"exit 0", "exit 1"}
      BY <1>7, <2>2 DEF ServerMain
    <3> QED
      BY <1>7, <2>2, <3>1 DEF ServerMain
  <2> QED
    BY <2>1, <2>2
<1>8. CASE ClientMain
  <2>1. CASE ret = p
    BY <1>8, <1>n, <2>1 DEF ClientMain
  <2>2. CASE ret # p
    <3>1. ret = -1 \/ ret = -2
      BY <1>8, <2>2 DEF ClientMain
    <3>2. ret < 0
      BY <3>1, NoErrorCode
    <3>3. outcome' = "exit 1"
      BY <1>8, <3>2 DEF ClientMain
    <3> QED
      BY <1>8, <2>2, <3>3 DEF ClientMain
  <2> QED
    BY <2>1, <2>2
<1>9. CASE UNCHANGED vars
  BY <1>9 DEF vars
<1> QED
  BY <1>1, <1>2, <1>3, <1>4, <1>5, <1>6, <1>7, <1>8, <1>9 DEF Next, Step

\* A program that goes on has one usable socket; one that gives up has left
\* none open, whichever of getaddrinfo, socket, bind, connect, listen and
\* close failed and at whichever address.
THEOREM SocketLeftBehind == Spec => []OneSocket
<1>1. SocketInv => OneSocket
  <2> SUFFICES ASSUME SocketInv PROVE OneSocket
    OBVIOUS
  <2>1. Cardinality(open) <= 1
    <3>1. open = {} \/ open = {p}
      BY DEF SocketInv
    <3>2. Cardinality({}) = 0 /\ Cardinality({p}) = 1
      BY FS_EmptySet, FS_Singleton
    <3> QED
      BY <3>1, <3>2
  <2>2. outcome \in {"serving", "connected"} => open = {ret} /\ ready = {ret}
    <3>1. p # -1 /\ p # -2
      BY NoErrorCode DEF SocketInv
    <3> QED
      BY <3>1 DEF SocketInv, Returned
  <2>3. ~unclosed /\ outcome \in {"exit 0", "exit 1"} => open = {}
    BY DEF SocketInv, Returned
  <2> QED
    BY <2>1, <2>2, <2>3 DEF OneSocket
<1> QED
  BY <1>1, InitSocket, NextSocket, PTL DEF Spec
=============================================================================
