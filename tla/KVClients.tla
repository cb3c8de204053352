------------------------------ MODULE KVClients ------------------------------
(***************************************************************************)
(* The client programs get_value, set_value and incr_value [-t], run        *)
(* against the server of KVServer: each client has one connection, a queue  *)
(* of lines to the server and a queue of responses back.                    *)
(*                                                                         *)
(* A program is a sequence of requests with the response it insists on.     *)
(* at[c] is where client c is:                                              *)
(*                                                                         *)
(*   start   before open_clientfd       close   BYE is written             *)
(*   send    about to write a request   done    the client has ended       *)
(*   recv    in rio_readlineb                                              *)
(*                                                                         *)
(* The clients ignore what rio_readlineb returns and decode buf: at end of  *)
(* file, or on an error, it holds the response before.                      *)
(***************************************************************************)
EXTENDS KVServer, FiniteSets

CONSTANTS
  Starts,      \* the programs that may run together, with their arguments
  Kills,       \* may a client be killed from outside?
  T, K,        \* the table and key all of them are given
  StartValue,  \* what an earlier session has stored there
  NewValue,    \* set_value's value
  One          \* the value "1" that incr_value pushes

\* A program, and what is wrong with its arguments.
NoFlaw     == [what |-> "none", arg |-> "none"]
SetFlaws   == {NoFlaw} \cup
              [what : {"invalid", "long"}, arg : {"user", "name", "value"}]
OtherFlaws == {f \in SetFlaws : f.arg # "value"}
Start      == [role : {"set"}, flaw : SetFlaws] \cup
              [role : {"get", "incr", "incr_t"}, flaw : OtherFlaws]

ASSUME ClientsAssumption ==
  /\ Impatient
  /\ Starts \subseteq [Conns -> Start]
  /\ Kills \in BOOLEAN
  /\ T \in Tables /\ K \in Keys
  /\ {StartValue, One} \subseteq DOMAIN Stoi /\ Stoi[One] = 1
  /\ NewValue \in Vals

VARIABLES
  role, flaw,  \* how the client was started
  at, step,    \* where it is, and at which request of its program
  buf,         \* the line in its buffer
  status,      \* how it ended
  accepted,    \* has server_loop taken the connection?
  requests,    \* lines on the way to the server
  responses,   \* lines on the way back
  link,        \* has a reset from the server's host arrived?
  printed,     \* what get_value wrote to standard output
  stale,       \* history: a response was taken that nobody sent
  floor        \* history: the stored value when the client connected

client == <<role, flaw, at, step, buf, status, printed, stale, floor>>
net    == <<accepted, requests, responses, link>>
cvars  == <<vars, client, net>>

-----------------------------------------------------------------------------
(***************************************************************************)
(* The programs.                                                           *)
(***************************************************************************)
Ask(m, want) == [line |-> m, want |-> want]
Plain(type)  == Ask([type |-> type], "OK")
OnKey(type)  == Ask([type |-> type, table |-> T, key |-> K], "OK")
PushOf(v)    == Ask([type |-> "PUSH", value |-> v], "OK")
Bye          == Ask([type |-> "BYE"], "nothing")

get_value == <<Plain("LOGIN"), OnKey("GET"), Ask([type |-> "TOP"], "DATA"), Bye>>

set_value == <<Plain("LOGIN"), PushOf(NewValue), OnKey("SET"), Bye>>

Increment == <<OnKey("GET"), PushOf(One), Plain("ADD"), OnKey("SET")>>

incr_value == <<Plain("LOGIN")>> \o Increment \o <<Bye>>

\* Mutant of incr_value_t: -t is not looked at.
incr_value_plain == incr_value

incr_value_t == <<Plain("LOGIN"), Plain("BEGIN")>> \o Increment
                \o <<Plain("COMMIT"), Bye>>

Program(r) == CASE r = "get"    -> get_value
                [] r = "set"    -> set_value
                [] r = "incr"   -> incr_value
                [] r = "incr_t" -> incr_value_t

ASSUME LinesAssumption ==
  /\ [type |-> "GARBAGE"] \in Requests
  /\ \A r \in {"get", "set", "incr", "incr_t"} :
       \A i \in DOMAIN Program(r) : Program(r)[i].line \in Requests

Current(c) == Program(role[c])[step[c]]

\* The command line argument a request carries.
Arg(type) == CASE type = "LOGIN"          -> "user"
               [] type \in {"GET", "SET"} -> "name"
               [] type = "PUSH"           -> "value"
               [] OTHER                   -> "nothing"

\* The argument of the current request is flawed: decode will refuse the line
\* ("invalid"), or encode refuses to make it ("long").
IsFlawed(c, what) ==
  flaw[c].what = what /\ flaw[c].arg = Arg(Current(c).line.type)

\* The line the server gets.
Line(c) == IF IsFlawed(c, "invalid") THEN [type |-> "GARBAGE"]
                                     ELSE Current(c).line

-----------------------------------------------------------------------------
Stored == key_value[T][K]

\* The server has run before: an earlier session has created T and set K.
CInit ==
  /\ InitWith({T}, [EachTable(EmptyMap) EXCEPT ![T][K] = StartValue])
  /\ \E s \in Starts : /\ role = [c \in Conns |-> s[c].role]
                       /\ flaw = [c \in Conns |-> s[c].flaw]
  /\ at = EachConn("start") /\ step = EachConn(1)
  /\ buf = EachConn([type |-> "unset"]) /\ status = EachConn("none")
  /\ printed = EachConn(NoValue) /\ stale = EachConn(FALSE)
  /\ floor = EachConn(NoValue)
  /\ accepted = EachConn(FALSE) /\ link = EachConn("open")
  /\ requests = EachConn(<< >>) /\ responses = EachConn(<< >>)

-----------------------------------------------------------------------------
(***************************************************************************)
(* The client.                                                             *)
(***************************************************************************)

\* The server has closed its end.
ServerGone(c) == process # "running" \/ (accepted[c] /\ pc[c] = "off")

\* What an ending client leaves as it is.
Stays == UNCHANGED <<step, printed, stale, floor, link>>

\* The process ends and its socket closes: with unread data in it the server
\* gets a reset, without any the end of the file.
Ends(c, how, unread) ==
  /\ at' = [at EXCEPT ![c] = "done"]
  /\ status' = [status EXCEPT ![c] = how]
  /\ responses' = [responses EXCEPT ![c] = << >>]
  /\ buf' = [buf EXCEPT ![c] = [type |-> "unset"]]
  /\ sock' = IF ServerGone(c) \/ at[c] = "start" THEN sock
             ELSE [sock EXCEPT ![c] =
                     IF unread = << >> THEN "closed" ELSE "reset"]
  /\ UNCHANGED <<process, registry, tables, pc, session, req, value, resp,
                 rest, role, flaw, accepted, requests>>

Connect(c) ==
  /\ at[c] = "start"
  /\ process = "running"
  /\ at' = [at EXCEPT ![c] = "send"]
  /\ floor' = [floor EXCEPT ![c] = Stored]
  /\ UNCHANGED <<vars, role, flaw, step, buf, status, printed, stale, net>>

\* open_clientfd returns -1 or -2.
ConnectFails(c) ==
  at[c] = "start" /\ Ends(c, "error", << >>) /\ Stays

\* encode throws.
EncodeThrows(c) ==
  /\ at[c] = "send"
  /\ IsFlawed(c, "long")
  /\ Ends(c, "error", responses[c])
  /\ Stays

\* Mutant of AfterWrite: the response to SET is not waited for.
AfterWriteHasty(c) ==
  IF Current(c).line.type = "SET"
  THEN step' = [step EXCEPT ![c] = @ + 1] /\ UNCHANGED at
  ELSE /\ at' = [at EXCEPT ![c] = IF Current(c) = Bye THEN "close" ELSE "recv"]
       /\ UNCHANGED step

\* Each request is followed by a read, but BYE by the end of the program.
AfterWrite(c) ==
  /\ at' = [at EXCEPT ![c] = IF Current(c) = Bye THEN "close" ELSE "recv"]
  /\ UNCHANGED step

\* encode and rio_writen, whose result is ignored.
SendRequest(c) ==
  /\ at[c] = "send"
  /\ ~IsFlawed(c, "long")
  /\ link[c] = "open"
  /\ requests' = [requests EXCEPT ![c] = Append(@, Line(c))]
  /\ AfterWrite(c)
  /\ UNCHANGED <<vars, role, flaw, buf, status, printed, stale, floor,
                 accepted, responses, link>>

\* SIGPIPE of a write after the server's host has sent a reset.
WriteToReset(c) ==
  /\ at[c] = "send"
  /\ ~IsFlawed(c, "long")
  /\ link[c] = "reset"
  /\ Ends(c, "SIGPIPE", responses[c])
  /\ Stays

\* decode(buf), and the test of the type of the response; unread is what is
\* left in the socket.
Judge(c, line, unread) ==
  IF line.type = Current(c).want
  THEN /\ at' = [at EXCEPT ![c] = "send"]
       /\ step' = [step EXCEPT ![c] = @ + 1]
       /\ buf' = [buf EXCEPT ![c] = line]
       /\ printed' = [printed EXCEPT ![c] =
            IF line.type = "DATA" THEN line.value ELSE @]
       /\ responses' = [responses EXCEPT ![c] = unread]
       /\ UNCHANGED <<vars, role, flaw, status, accepted, requests>>
  ELSE Ends(c, "error", unread) /\ UNCHANGED <<step, printed>>

ReadResponse(c) ==
  /\ at[c] = "recv"
  /\ responses[c] # << >>
  /\ Judge(c, Head(responses[c]), Tail(responses[c]))
  /\ UNCHANGED <<stale, floor, link>>

\* rio_readlineb returns 0 or -1 and leaves buf as it is: the response before,
\* or what was on the stack, which nothing has made a valid line.  A line the
\* server has not read makes its host send a reset, here by now or not.
ReadNothing(c) ==
  /\ at[c] = "recv"
  /\ ServerGone(c)
  /\ responses[c] = << >>
  /\ Judge(c, buf[c], << >>)
  /\ stale' = [stale EXCEPT ![c] = TRUE]
  /\ link' \in IF requests[c] = << >> THEN {link}
               ELSE {link, [link EXCEPT ![c] = "reset"]}
  /\ UNCHANGED floor

\* The end of main: exit status 0.
Finish(c) ==
  at[c] = "close" /\ Ends(c, "ok", responses[c]) /\ Stays

\* A signal from outside.
Killed(c) ==
  /\ Kills
  /\ at[c] \in {"send", "recv", "close"}
  /\ Ends(c, "killed", responses[c])
  /\ Stays

-----------------------------------------------------------------------------
(***************************************************************************)
(* The server, connected to the queues.                                    *)
(***************************************************************************)
AcceptConnection(c) ==
  /\ at[c] # "start" /\ ~accepted[c]
  /\ at[c] = "done" => sock[c] # "open"
  /\ AcceptClient(c)
  /\ accepted' = [accepted EXCEPT ![c] = TRUE]
  /\ UNCHANGED <<client, requests, responses, link>>

ReadRequest(c) ==
  /\ requests[c] # << >>
  /\ Dispatch(c, Head(requests[c]))
  /\ requests' = [requests EXCEPT ![c] = Tail(@)]
  /\ UNCHANGED <<client, accepted, responses, link>>

ReadEnd(c) ==
  requests[c] = << >> /\ ReadEOF(c) /\ UNCHANGED <<client, net>>

\* What reaches an open socket can be read there.
Response(c) == IF resp[c] = "DATA" THEN [type |-> "DATA", value |-> value[c]]
                                   ELSE [type |-> resp[c]]

ServerWorks(c) ==
  /\ Work(c)
  /\ responses' =
       IF pc[c] \in {"reply", "last_reply"} /\ sock[c] = "open"
       THEN [responses EXCEPT ![c] = Append(@, Response(c))]
       ELSE responses
  /\ UNCHANGED <<client, accepted, requests, link>>

ServerExits == AcceptError /\ UNCHANGED <<client, net>>

Client(c) ==
  \/ Connect(c)     \/ ConnectFails(c) \/ EncodeThrows(c) \/ SendRequest(c)
  \/ WriteToReset(c) \/ ReadResponse(c) \/ ReadNothing(c) \/ Finish(c)

Server(c) ==
  AcceptConnection(c) \/ ReadRequest(c) \/ ReadEnd(c) \/ ServerWorks(c)

AllDone == (\A c \in Conns : at[c] = "done") /\ UNCHANGED cvars

CNext == \/ \E c \in Conns : Client(c) \/ Killed(c) \/ Server(c)
         \/ ServerExits
         \/ AllDone

CSpec == CInit /\ [][CNext]_cvars

(***************************************************************************)
(* Fairness: a client that can go on does, server_loop accepts whoever has  *)
(* connected, threads go on as in KVServerLive.  Nobody has to be killed    *)
(* and accept need not fail.                                                *)
(***************************************************************************)
FairCSpec == /\ CSpec
             /\ \A c \in Conns : WF_cvars(Client(c)) /\ WF_cvars(Server(c))

-----------------------------------------------------------------------------
(***************************************************************************)
(* Properties.                                                             *)
(***************************************************************************)
Increments(how) == {c \in Conns : role[c] = "incr_t" /\ status[c] \in how}

\* The clients whose COMMIT is sent or about to be.
Committing ==
  {c \in Increments({"none", "ok", "SIGPIPE", "killed"}) :
     Current(c).line.type \in {"COMMIT", "BYE"}}

\* No update is lost and none is made up: while the server runs, the counter
\* has grown by one for every incr_value -t that ended with status 0, and
\* beyond them only for some that are at their COMMIT, or were when they were
\* killed; one that reported a failure has changed nothing.
NoLostUpdate ==
  process = "running" /\ (\A c \in Conns : role[c] \in {"incr_t", "get"}) =>
    Stoi[Stored] - Stoi[StartValue] \in
      Cardinality(Increments({"ok"})) .. Cardinality(Committing)

\* What get_value prints beside incr_value -t was committed, and is not older
\* than its connection, whoever was killed in the middle of a transaction.
FreshRead ==
  \A c \in Conns :
    printed[c] # NoValue /\ (\A d \in Conns : role[d] \in {"incr_t", "get"}) =>
      /\ Stoi[floor[c]] <= Stoi[printed[c]]
      /\ process = "running" => Stoi[printed[c]] <= Stoi[Stored]

\* The clients are no danger to the server, however they end: one that leaves
\* without its response to BYE, or is killed with a response due, makes at
\* most one write to a closed socket, never the second that raises SIGPIPE.
ServerUnharmed == process \in {"running", "exited"}

\* Every client ends: no response is forgotten, no table stays locked behind
\* a client that was killed or refused, and a server that exits releases the
\* clients that wait for it.
ClientsTerminate == \A c \in Conns : <>(at[c] = "done")

\* set_value throws "Error: SET failed. Server response: ..." unless the server
\* has answered OK, and so do the others for each of their requests.  A
\* server that exits leaves the response before in buf: violated.
SuccessIsReal == \A c \in Conns : status[c] = "ok" => ~stale[c]
=============================================================================
