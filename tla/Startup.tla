------------------------------- MODULE Startup -------------------------------
(***************************************************************************)
(* How the two sides get their socket: open_listenfd, Server::listen, main  *)
(* and the first Accept of the server; open_clientfd and the test of its    *)
(* result in the clients.  Both walk the list of addresses that getaddrinfo *)
(* returns: a socket for each, then bind or connect, close and the next     *)
(* address if that fails.  Every call may fail.                             *)
(*                                                                         *)
(* A descriptor is named by the address it was made for.                    *)
(***************************************************************************)
EXTENDS Integers, FiniteSets

CONSTANT MaxAddrs   \* bound on the addresses getaddrinfo returns

ASSUME StartupAssumption == MaxAddrs \in Nat \ {0}

VARIABLES
  side,      \* "server" or "client"
  addrs,     \* how many addresses there are
  pc,        \* the next call
  p,         \* the address being tried
  open,      \* open descriptors
  ready,     \* descriptors that are bound and listening, or connected
  unclosed,  \* has close() failed?
  ret,       \* what the function returns
  outcome    \* "none", "serving", "connected", or the exit status

vars == <<side, addrs, pc, p, open, ready, unclosed, ret, outcome>>

Init ==
  /\ side \in {"server", "client"} /\ addrs \in 1 .. MaxAddrs
  /\ pc = "getaddrinfo" /\ p = 1
  /\ open = {} /\ ready = {} /\ unclosed = FALSE
  /\ ret = 0 /\ outcome = "none"

Return(x) == pc' = "caller" /\ ret' = x

Getaddrinfo ==
  /\ pc = "getaddrinfo"
  /\ \/ pc' = "socket" /\ UNCHANGED ret
     \/ Return(-2)
  /\ UNCHANGED <<side, addrs, p, open, ready, unclosed, outcome>>

\* Mutant of TryNext: the list is not advanced.
TryAgain == pc' = "socket" /\ UNCHANGED p

\* p = p->ai_next
TryNext == pc' = "socket" /\ p' = p + 1

Socket ==
  /\ pc = "socket"
  /\ p <= addrs
  /\ \/ open' = open \cup {p} /\ pc' = "bind" /\ UNCHANGED p
     \/ TryNext /\ UNCHANGED open
  /\ UNCHANGED <<side, addrs, ready, unclosed, ret, outcome>>

\* No address worked.
Exhausted ==
  /\ pc = "socket"
  /\ p > addrs
  /\ Return(-1)
  /\ UNCHANGED <<side, addrs, p, open, ready, unclosed, outcome>>

\* bind or connect; a client has its descriptor then.  The mutant of
\* AfterFailure leaves the socket open.
NoClose == TryNext
AfterFailure == pc' = "close" /\ UNCHANGED p

Bind ==
  /\ pc = "bind"
  /\ \/ AfterFailure /\ UNCHANGED <<ready, ret>>
     \/ /\ side = "server"
        /\ pc' = "listen"
        /\ UNCHANGED <<p, ready, ret>>
     \/ /\ side = "client"
        /\ ready' = ready \cup {p}
        /\ Return(p)
        /\ UNCHANGED p
  /\ UNCHANGED <<side, addrs, open, unclosed, outcome>>

\* close of the failed socket; if close fails the function gives up.
Close ==
  /\ pc = "close"
  /\ \/ open' = open \ {p} /\ TryNext /\ UNCHANGED <<unclosed, ret>>
     \/ unclosed' = TRUE /\ Return(-1) /\ UNCHANGED <<p, open>>
  /\ UNCHANGED <<side, addrs, ready, outcome>>

Listen ==
  /\ pc = "listen"
  /\ \/ ready' = ready \cup {p} /\ Return(p) /\ UNCHANGED open
     \/ open' = open \ {p} /\ Return(-1) /\ UNCHANGED ready
  /\ UNCHANGED <<side, addrs, p, unclosed, outcome>>

\* Server::listen throws for -1 alone, and main returns 1; any other result
\* goes to Accept, which exits with status 0 if it is no descriptor.
ServerMain ==
  /\ pc = "caller" /\ side = "server"
  /\ outcome' = IF ret = -1 THEN "exit 1"
                ELSE IF ret = -2 THEN "exit 0" ELSE "serving"
  /\ pc' = "done"
  /\ UNCHANGED <<side, addrs, p, open, ready, unclosed, ret>>

ClientMain ==
  /\ pc = "caller" /\ side = "client"
  /\ outcome' = IF ret < 0 THEN "exit 1" ELSE "connected"
  /\ pc' = "done"
  /\ UNCHANGED <<side, addrs, p, open, ready, unclosed, ret>>

Step == Getaddrinfo \/ Socket \/ Exhausted \/ Bind \/ Close \/ Listen
        \/ ServerMain \/ ClientMain

Next == Step \/ (pc = "done" /\ UNCHANGED vars)

Spec == Init /\ [][Next]_vars /\ WF_vars(Step)

-----------------------------------------------------------------------------
(***************************************************************************)
(* Properties.                                                             *)
(***************************************************************************)

\* A program that goes on has exactly one socket, and it is bound and
\* listening or connected; one that gives up has left none open, and at no
\* time is more than one (unless close itself has failed).
OneSocket ==
  /\ outcome \in {"serving", "connected"} => open = {ret} /\ ready = {ret}
  /\ ~unclosed => /\ Cardinality(open) <= 1
                  /\ outcome \in {"exit 0", "exit 1"} => open = {}

\* Start-up ends, whichever calls fail.
StartupEnds == <>(outcome # "none")
=============================================================================
