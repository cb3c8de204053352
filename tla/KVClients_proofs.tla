--------------------------- MODULE KVClients_proofs ---------------------------
(***************************************************************************)
(* The client programs against the server, for any number of clients.       *)
(*                                                                         *)
(* ServerInv: the server's own invariants hold beside the clients.          *)
(* ClientTypeInv: types, and where a program can be.                        *)
(* QueueInv: a connection has at most one request or response under way,    *)
(* and nothing is left to answer once a reset has been seen.                *)
(***************************************************************************)
EXTENDS KVClients, KVServer_proofs

Roles    == {"get", "set", "incr", "incr_t"}
Places   == {"start", "send", "recv", "close", "done"}
Statuses == {"none", "ok", "error", "SIGPIPE", "killed"}

\* What the programs send: no DIV, and no key but K of T.
SafeLines ==
  {m \in Requests : /\ m.type # "DIV"
                    /\ m.type \in {"GET", "SET"} => m.table = T /\ m.key = K}

\* What the server sends, and what is in a client's buffer.
Replies == [type : {"NONE", "OK", "FAILED", "ERROR"}] \cup
           [type : {"DATA"}, value : Vals \cup {NoValue}]
Buffers == Replies \cup {[type |-> "unset"]}

\* The thread is not serving a request.
IdlePCs == {"off", "read", "dtor"}

ServerInv == TypeInv /\ LockInv /\ PendingInv /\ ValueInv /\ EndedInv /\ LoginInv

ClientTypeInv ==
  /\ role \in [Conns -> Roles] /\ flaw \in [Conns -> SetFlaws]
  /\ at \in [Conns -> Places] /\ step \in [Conns -> Nat]
  /\ buf \in [Conns -> Buffers] /\ status \in [Conns -> Statuses]
  /\ printed \in [Conns -> Vals \cup {NoValue}]
  /\ floor \in [Conns -> Vals \cup {NoValue}]
  /\ stale \in [Conns -> BOOLEAN] /\ accepted \in [Conns -> BOOLEAN]
  /\ link \in [Conns -> {"open", "reset"}]
  /\ requests \in [Conns -> Seq(SafeLines)]
  /\ responses \in [Conns -> Seq(Replies)]
  /\ \A c \in Conns :
       /\ step[c] \in 1 .. Len(Program(role[c]))
       /\ at[c] = "recv" => step[c] \in 1 .. Len(Program(role[c])) - 1
       /\ req[c].type \in {"GET", "SET"} => req[c].table = T /\ req[c].key = K

\* The requests being served.
Serving(c) == IF pc[c] \in IdlePCs THEN 0 ELSE 1

\* One request, one response: a client with a request under way waits for its
\* response, so one that is gone makes the server write at most once.
OneUnderWay(c) ==
  /\ pc[c] # "off" => accepted[c]
  /\ sock[c] # "open" => at[c] = "done"
  /\ ~ServerGone(c) =>
       /\ Len(requests[c]) + Serving(c) + Len(responses[c]) <= 1
       /\ at[c] \in {"start", "send"} =>
            Len(requests[c]) + Serving(c) + Len(responses[c]) = 0
       /\ sock[c] = "reset" => Len(requests[c]) + Serving(c) = 0

QueueInv == \A c \in Conns : OneUnderWay(c)

-----------------------------------------------------------------------------
(***************************************************************************)
(* The programs.                                                           *)
(***************************************************************************)

\* The requests of the programs.
Asks == {Plain("LOGIN"), Plain("BEGIN"), Plain("ADD"), Plain("COMMIT"),
         OnKey("GET"), OnKey("SET"), PushOf(One), PushOf(NewValue),
         Ask([type |-> "TOP"], "DATA"), Bye}

\* What the requests carry, and the response they wait for.
LEMMA AskFields ==
  ASSUME NEW x \in Asks
  PROVE  /\ x.line.type # "DIV"
         /\ x.line.type \in {"GET", "SET"} => x.line.table = T /\ x.line.key = K
         /\ x.want \in {"OK", "DATA", "nothing"}
         /\ x = Bye <=> x.want = "nothing"
BY DEF Asks, Ask, Plain, OnKey, PushOf, Bye

\* get_value, request by request.
LEMMA GetProgram ==
  /\ Len(Program("get")) = 4 /\ DOMAIN Program("get") = 1 .. 4
  /\ Program("get")[1] = Plain("LOGIN")
  /\ Program("get")[2] = OnKey("GET")
  /\ Program("get")[3] = Ask([type |-> "TOP"], "DATA")
  /\ Program("get")[4] = Bye
BY DEF Program, get_value

\* set_value, request by request.
LEMMA SetProgram ==
  /\ Len(Program("set")) = 4 /\ DOMAIN Program("set") = 1 .. 4
  /\ Program("set")[1] = Plain("LOGIN")
  /\ Program("set")[2] = PushOf(NewValue)
  /\ Program("set")[3] = OnKey("SET")
  /\ Program("set")[4] = Bye
BY DEF Program, set_value

\* incr_value, request by request.
LEMMA IncrProgram ==
  /\ Len(Program("incr")) = 6 /\ DOMAIN Program("incr") = 1 .. 6
  /\ Program("incr")[1] = Plain("LOGIN")
  /\ Program("incr")[2] = OnKey("GET")
  /\ Program("incr")[3] = PushOf(One)
  /\ Program("incr")[4] = Plain("ADD")
  /\ Program("incr")[5] = OnKey("SET")
  /\ Program("incr")[6] = Bye
BY DEF Program, incr_value, Increment

\* incr_value -t, request by request.
LEMMA IncrTProgram ==
  /\ Len(Program("incr_t")) = 8 /\ DOMAIN Program("incr_t") = 1 .. 8
  /\ Program("incr_t")[1] = Plain("LOGIN")
  /\ Program("incr_t")[2] = Plain("BEGIN")
  /\ Program("incr_t")[3] = OnKey("GET")
  /\ Program("incr_t")[4] = PushOf(One)
  /\ Program("incr_t")[5] = Plain("ADD")
  /\ Program("incr_t")[6] = OnKey("SET")
  /\ Program("incr_t")[7] = Plain("COMMIT")
  /\ Program("incr_t")[8] = Bye
BY DEF Program, incr_value_t, Increment

\* A program ends with BYE, which it sends nowhere else.
EndsWithBye(p) ==
  /\ Len(p) \in Nat /\ Len(p) > 1 /\ DOMAIN p = 1 .. Len(p)
  /\ \A i \in 1 .. Len(p) : p[i] \in Asks /\ (p[i] = Bye <=> i = Len(p))

\* BYE at the end, other requests before it.
LEMMA ByeAtEnd ==
  ASSUME NEW p,
         Len(p) \in Nat /\ Len(p) > 1 /\ DOMAIN p = 1 .. Len(p),
         \A i \in 1 .. Len(p) - 1 : p[i] \in Asks \ {Bye},
         p[Len(p)] = Bye
  PROVE  EndsWithBye(p)
<1>1. ASSUME NEW i \in 1 .. Len(p)
      PROVE  p[i] \in Asks /\ (p[i] = Bye <=> i = Len(p))
  <2>1. CASE i = Len(p)
    BY <2>1 DEF Asks
  <2>2. CASE i \in 1 .. Len(p) - 1
    BY <2>2
  <2>3. \A n \in Nat : \A j \in 1 .. n : j = n \/ j \in 1 .. n - 1
    OBVIOUS
  <2> QED
    BY <2>1, <2>2, <2>3
<1> QED
  BY <1>1 DEF EndsWithBye

\* Each of the four main functions writes BYE last.
LEMMA ProgramAsks ==
  ASSUME NEW r \in Roles
  PROVE  EndsWithBye(Program(r))
<1>b. Bye \in Asks /\ Asks \ {Bye} =
        {Plain("LOGIN"), Plain("BEGIN"), Plain("ADD"), Plain("COMMIT"),
         OnKey("GET"), OnKey("SET"), PushOf(One), PushOf(NewValue),
         Ask([type |-> "TOP"], "DATA")}
  BY DEF Asks, Ask, Plain, OnKey, PushOf, Bye
<1>1. EndsWithBye(Program("get"))
  <2>1. \A i \in 1 .. 4 - 1 : Program("get")[i] \in Asks \ {Bye}
    BY <1>b, GetProgram
  <2>2. /\ Len(Program("get")) = 4 /\ Len(Program("get")) \in Nat /\ Len(Program("get")) > 1
        /\ DOMAIN Program("get") = 1 .. Len(Program("get"))
        /\ Program("get")[Len(Program("get"))] = Bye
    BY GetProgram
  <2> QED
    BY <2>1, <2>2, ByeAtEnd
<1>2. EndsWithBye(Program("set"))
  <2>1. \A i \in 1 .. 4 - 1 : Program("set")[i] \in Asks \ {Bye}
    BY <1>b, SetProgram
  <2>2. /\ Len(Program("set")) = 4 /\ Len(Program("set")) \in Nat /\ Len(Program("set")) > 1
        /\ DOMAIN Program("set") = 1 .. Len(Program("set"))
        /\ Program("set")[Len(Program("set"))] = Bye
    BY SetProgram
  <2> QED
    BY <2>1, <2>2, ByeAtEnd
<1>3. EndsWithBye(Program("incr"))
  <2>1. \A i \in 1 .. 6 - 1 : Program("incr")[i] \in Asks \ {Bye}
    BY <1>b, IncrProgram
  <2>2. /\ Len(Program("incr")) = 6 /\ Len(Program("incr")) \in Nat /\ Len(Program("incr")) > 1
        /\ DOMAIN Program("incr") = 1 .. Len(Program("incr"))
        /\ Program("incr")[Len(Program("incr"))] = Bye
    BY IncrProgram
  <2> QED
    BY <2>1, <2>2, ByeAtEnd
<1>4. EndsWithBye(Program("incr_t"))
  <2>1. \A i \in 1 .. 8 - 1 : Program("incr_t")[i] \in Asks \ {Bye}
    BY <1>b, IncrTProgram
  <2>2. /\ Len(Program("incr_t")) = 8 /\ Len(Program("incr_t")) \in Nat /\ Len(Program("incr_t")) > 1
        /\ DOMAIN Program("incr_t") = 1 .. Len(Program("incr_t"))
        /\ Program("incr_t")[Len(Program("incr_t"))] = Bye
    BY IncrTProgram
  <2> QED
    BY <2>1, <2>2, ByeAtEnd
<1> QED
  BY <1>1, <1>2, <1>3, <1>4 DEF Roles

\* Every program sends safe lines only.
LEMMA ProgramLines ==
  ASSUME NEW r \in Roles, NEW i \in 1 .. Len(Program(r))
  PROVE  Program(r)[i].line \in SafeLines
<1>1. EndsWithBye(Program(r))
  BY ProgramAsks
<1>2. Program(r)[i] \in Asks /\ i \in DOMAIN Program(r)
  BY <1>1 DEF EndsWithBye
<1>3. Program(r)[i].line \in Requests
  BY <1>2, LinesAssumption DEF Roles
<1> QED
  BY <1>2, <1>3, AskFields DEF SafeLines

-----------------------------------------------------------------------------
(***************************************************************************)
(* The server's side of a step.                                            *)
(***************************************************************************)

\* Queues.
LEMMA SeqFacts ==
  ASSUME NEW S, NEW s \in Seq(S)
  PROVE  /\ Len(s) \in Nat
         /\ s = << >> <=> Len(s) = 0
         /\ s # << >> => /\ Head(s) \in S /\ Tail(s) \in Seq(S)
                         /\ Len(Tail(s)) = Len(s) - 1
         /\ \A x \in S : Append(s, x) \in Seq(S) /\ Len(Append(s, x)) = Len(s) + 1
         /\ << >> \in Seq(S) /\ Len(<< >>) = 0
OBVIOUS

\* The end of a client changes its socket and nothing else of the server.
PeerGone(c) ==
  /\ \/ sock' = sock
     \/ sock' = [sock EXCEPT ![c] = "closed"]
     \/ sock' = [sock EXCEPT ![c] = "reset"]
  /\ UNCHANGED <<process, registry, tables, pc, session, req, value, resp, rest>>

\* What a client does is nothing to the server but the end of its socket.
LEMMA ClientSide ==
  ASSUME NEW c \in Conns, Client(c) \/ Killed(c)
  PROVE  PeerGone(c)
<1>1. ASSUME NEW how, NEW unread, Ends(c, how, unread) PROVE PeerGone(c)
  BY <1>1 DEF Ends, PeerGone
<1>2. ASSUME NEW line, NEW unread, Judge(c, line, unread) PROVE PeerGone(c)
  BY <1>1, <1>2 DEF Judge, PeerGone, vars
<1>3. CASE Connect(c) \/ SendRequest(c)
  BY <1>3 DEF Connect, SendRequest, PeerGone, vars
<1>4. CASE ConnectFails(c) \/ EncodeThrows(c) \/ WriteToReset(c) \/ Finish(c)
           \/ Killed(c)
  BY <1>1, <1>4 DEF ConnectFails, EncodeThrows, WriteToReset, Finish, Killed
<1>5. CASE ReadResponse(c) \/ ReadNothing(c)
  BY <1>2, <1>5 DEF ReadResponse, ReadNothing
<1> QED
  BY <1>3, <1>4, <1>5 DEF Client

\* What the server does beside the clients is a step of KVServer.
LEMMA ServerSide ==
  ASSUME ClientTypeInv, NEW c \in Conns, Server(c)
  PROVE  Next
<1>1. CASE ReadRequest(c)
  <2>1. Head(requests[c]) \in Requests
    <3>1. requests[c] \in Seq(SafeLines) /\ requests[c] # << >>
      BY <1>1 DEF ClientTypeInv, ReadRequest
    <3> QED
      BY <3>1, SeqFacts DEF SafeLines
  <2> QED
    BY <1>1, <2>1 DEF ReadRequest, Next
<1>2. CASE AcceptConnection(c) \/ ReadEnd(c) \/ ServerWorks(c)
  BY <1>2 DEF AcceptConnection, ReadEnd, ServerWorks, Next
<1> QED
  BY <1>1, <1>2 DEF Server

\* The server's invariants do not depend on who its clients are.
LEMMA NextServer ==
  ASSUME ServerInv, ClientTypeInv, [CNext]_cvars
  PROVE  ServerInv'
<1>1. ASSUME [Next]_vars PROVE ServerInv'
  BY <1>1, NextType, NextLock, NextPending, NextValue, NextEnded, NextLogin
     DEF ServerInv
<1>2. ASSUME NEW c \in Conns, PeerGone(c) PROVE ServerInv'
  <2>1. TypeInv'
    BY <1>2 DEF ServerInv, TypeInv, TypeOK, RequestInv, PeerGone, registry,
                tables, session
  <2>2. LockInv' /\ PendingInv'
    BY <1>2 DEF ServerInv, LockInv, MutexInv, RegistryInv, TxnInv, Held,
                PendingInv, PeerGone, registry, tables, session
  <2>3. ValueInv' /\ EndedInv' /\ LoginInv'
    BY <1>2 DEF ServerInv, ValueInv, EndedInv, LoginInv, PeerGone, session
  <2> QED
    BY <2>1, <2>2, <2>3 DEF ServerInv
<1>3. CASE \E c \in Conns : Client(c) \/ Killed(c)
  BY <1>2, <1>3, ClientSide
<1>4. CASE \E c \in Conns : Server(c)
  BY <1>1, <1>4, ServerSide
<1>5. CASE ServerExits \/ AllDone \/ UNCHANGED cvars
  BY <1>1, <1>5 DEF ServerExits, AllDone, cvars, Next
<1> QED
  BY <1>3, <1>4, <1>5 DEF CNext

\* A request starts: the thread leaves its read and the socket is not used.
LEMMA DispatchShape ==
  ASSUME TypeInv, NEW c \in Conns, NEW m \in Requests, m.type # "DIV",
         Dispatch(c, m)
  PROVE  /\ process = "running" /\ UNCHANGED <<process, sock>>
         /\ pc[c] = "read" /\ pc'[c] \notin IdlePCs
         /\ \A d \in Conns \ {c} : pc'[d] = pc[d]
         /\ req' = req \/ req' = [req EXCEPT ![c] = m]
<1> USE DEF TypeInv, TypeOK, IdlePCs, GoTo, Answer, LastAnswer, Admitted,
            Receives, At
<1>1. ~DivisionTrap(c, m)
  BY DEF DivisionTrap
<1> QED
  BY <1>1
     DEF Dispatch, NotLoggedIn, InvalidRequest, HandleLogin, HandleBye,
         HandlePush, EmptyStack, HandlePop, HandleTop, TooFewOperands,
         BadOperands, HandleArith, HandleBegin, NestedBegin,
         NotInTransaction, HandleCreate, HandleGet, HandleSet, HandleCommit,
         FailTransaction

\* A thread on its way to the response.
Serves(c) ==
  /\ pc[c] \notin IdlePCs /\ pc'[c] \notin IdlePCs
  /\ UNCHANGED <<process, sock>>
  /\ req'[c] \in {req[c], NoMessage}

\* A thread in its destructor.
Destroys(c) ==
  /\ pc[c] = "dtor" /\ pc'[c] \in {"dtor", "off"}
  /\ UNCHANGED <<process, req>>
  /\ sock' = sock \/ sock' = [sock EXCEPT ![c] = "open"]

\* The four things a thread can do by itself.
LEMMA WorkShape ==
  ASSUME TypeInv, NEW c \in Conns, Work(c)
  PROVE  /\ process = "running"
         /\ \/ /\ \A d \in Conns \ {c} :
                    UNCHANGED <<pc[d], req[d], sock[d]>>
               /\ Serves(c) \/ Destroys(c) \/ SendReply(c)
            \/ ResponseTooLong(c)
            \/ BrokenPipe(c)
<1> USE DEF TypeInv, TypeOK, IdlePCs, GoTo, Answer, Forget, At
<1>1. CASE LockRegistry(c) \/ CreateTable(c)
  BY <1>1 DEF LockRegistry, CreateTable, Serves
<1>2. CASE FindTable(c)
  BY <1>2 DEF FindTable, LockStep, Serves
<1>3. CASE TryLock(c) \/ TryLockFails(c) \/ LockTable(c) \/ UnlockTable(c)
  BY <1>3 DEF TryLock, TryLockFails, LockTable, UnlockTable, FailTransaction,
              Serves
<1>4. CASE GetAccess(c) \/ SetAccess(c)
  BY <1>4 DEF GetAccess, SetAccess, Leave, Serves
<1>5. ASSUME NEW t \in Tables, CommitTable(c, t) \/ RollbackTable(c, t)
      PROVE  /\ process = "running"
             /\ \A d \in Conns \ {c} : UNCHANGED <<pc[d], req[d], sock[d]>>
             /\ Serves(c) \/ Destroys(c)
  BY <1>5 DEF CommitTable, RollbackTable, Serves, Destroys
<1>6. CASE CommitDone(c) \/ RollbackDone(c)
  BY <1>6 DEF CommitDone, RollbackDone, EndTransaction, Serves
<1>7. CASE DtorDone(c)
  BY <1>7 DEF DtorDone, Destroys
<1>8. CASE SendReply(c)
  BY <1>8 DEF SendReply, Destroy
<1>9. CASE ResponseTooLong(c) \/ BrokenPipe(c)
  BY <1>9 DEF ResponseTooLong, BrokenPipe
<1> QED
  BY <1>1, <1>2, <1>3, <1>4, <1>5, <1>6, <1>7, <1>8, <1>9 DEF Work

-----------------------------------------------------------------------------
(***************************************************************************)
(* Types, and the places in a program.                                     *)
(***************************************************************************)

\* The request a client is at.
LEMMA CurrentAsk ==
  ASSUME ClientTypeInv, NEW c \in Conns
  PROVE  /\ Current(c) \in Asks
         /\ Current(c).line \in SafeLines
         /\ Line(c) \in SafeLines
         /\ Len(Program(role[c])) \in Nat
         /\ Current(c) # Bye => step[c] \in 1 .. Len(Program(role[c])) - 1
         /\ Current(c) = Bye => step[c] = Len(Program(role[c]))
<1>1. role[c] \in Roles /\ step[c] \in 1 .. Len(Program(role[c]))
  BY DEF ClientTypeInv
<1>2. EndsWithBye(Program(role[c]))
  BY <1>1, ProgramAsks
<1>3. Current(c) \in Asks /\ (Current(c) = Bye <=> step[c] = Len(Program(role[c])))
  BY <1>1, <1>2 DEF EndsWithBye, Current
<1>4. Current(c).line \in SafeLines
  BY <1>1, ProgramLines DEF Current
<1>5. [type |-> "GARBAGE"] \in SafeLines
  BY LinesAssumption DEF SafeLines
<1>6. Line(c) \in SafeLines
  BY <1>4, <1>5 DEF Line
<1>7. Len(Program(role[c])) \in Nat
  BY <1>2 DEF EndsWithBye
<1> QED
  BY <1>1, <1>3, <1>4, <1>6, <1>7

\* A client that ends.
LEMMA EndsType ==
  ASSUME ClientTypeInv, NEW c \in Conns, NEW how \in Statuses, NEW unread,
         Ends(c, how, unread),
         UNCHANGED <<step, printed, floor>>,
         stale' \in [Conns -> BOOLEAN], link' \in [Conns -> {"open", "reset"}]
  PROVE  ClientTypeInv'
<1>1. responses' \in [Conns -> Seq(Replies)]
  <2>1. << >> \in Seq(Replies)
    OBVIOUS
  <2> QED
    BY <2>1 DEF ClientTypeInv, Ends
<1> QED
  BY <1>1 DEF ClientTypeInv, Ends, Places, Buffers

\* A response, or what was left of one.
LEMMA JudgeType ==
  ASSUME ClientTypeInv, NEW c \in Conns, at[c] = "recv", NEW line \in Buffers,
         NEW unread \in Seq(Replies), Judge(c, line, unread), UNCHANGED floor,
         stale' \in [Conns -> BOOLEAN], link' \in [Conns -> {"open", "reset"}]
  PROVE  ClientTypeInv'
<1>1. CASE line.type = Current(c).want
  <2>1. /\ at' = [at EXCEPT ![c] = "send"]
        /\ step' = [step EXCEPT ![c] = @ + 1]
        /\ buf' = [buf EXCEPT ![c] = line]
        /\ printed' = [printed EXCEPT ![c] =
             IF line.type = "DATA" THEN line.value ELSE @]
        /\ responses' = [responses EXCEPT ![c] = unread]
        /\ UNCHANGED <<req, role, flaw, status, accepted, requests>>
    BY <1>1 DEF Judge, vars
  <2>2. line.type = "DATA" => line.value \in Vals \cup {NoValue}
    BY DEF Buffers, Replies
  <2>3. Len(Program(role[c])) \in Nat
    BY CurrentAsk
  <2>4. step[c] + 1 \in 1 .. Len(Program(role[c]))
    BY <2>3 DEF ClientTypeInv
  <2>5. \A d \in Conns : /\ step'[d] \in 1 .. Len(Program(role[d]))
                         /\ d # c => step'[d] = step[d]
    BY <2>1, <2>4 DEF ClientTypeInv
  <2>6. /\ at' \in [Conns -> Places] /\ step' \in [Conns -> Nat]
        /\ buf' \in [Conns -> Buffers]
        /\ printed' \in [Conns -> Vals \cup {NoValue}]
        /\ responses' \in [Conns -> Seq(Replies)]
    BY <2>1, <2>2 DEF ClientTypeInv, Places
  <2> QED
    BY <2>1, <2>5, <2>6 DEF ClientTypeInv
<1>2. CASE line.type # Current(c).want
  BY <1>2, EndsType DEF Judge, Statuses
<1> QED
  BY <1>1, <1>2

\* A client's steps.
LEMMA ClientType ==
  ASSUME TypeInv, ClientTypeInv, NEW c \in Conns, Client(c) \/ Killed(c)
  PROVE  ClientTypeInv'
<1>s. /\ requests[c] \in Seq(SafeLines) /\ responses[c] \in Seq(Replies)
      /\ stale \in [Conns -> BOOLEAN] /\ link \in [Conns -> {"open", "reset"}]
  BY DEF ClientTypeInv
<1>1. CASE Connect(c)
  <2>1. Stored \in Vals \cup {NoValue}
    BY ClientsAssumption DEF Stored, TypeInv, TypeOK, Map
  <2> QED
    BY <1>1, <2>1 DEF Connect, ClientTypeInv, Places, vars, net
<1>2. CASE SendRequest(c)
  <2>1. /\ Append(requests[c], Line(c)) \in Seq(SafeLines)
        /\ Current(c) # Bye => step[c] \in 1 .. Len(Program(role[c])) - 1
    BY CurrentAsk, SeqFacts, <1>s
  <2>2. requests' \in [Conns -> Seq(SafeLines)]
    BY <1>2, <2>1 DEF SendRequest, ClientTypeInv
  <2> QED
    BY <1>2, <2>1, <2>2 DEF SendRequest, AfterWrite, ClientTypeInv, Places, vars
<1>3. CASE ConnectFails(c) \/ EncodeThrows(c) \/ WriteToReset(c) \/ Finish(c)
           \/ Killed(c)
  BY <1>3, <1>s, EndsType
     DEF ConnectFails, EncodeThrows, WriteToReset, Finish, Killed, Stays, Statuses
<1>4. CASE ReadResponse(c)
  <2>1. Head(responses[c]) \in Replies /\ Tail(responses[c]) \in Seq(Replies)
    BY <1>4, <1>s, SeqFacts DEF ReadResponse
  <2> QED
    BY <1>4, <1>s, <2>1, JudgeType DEF ReadResponse, Buffers
<1>5. CASE ReadNothing(c)
  <2>1. buf[c] \in Buffers /\ << >> \in Seq(Replies)
    BY DEF ClientTypeInv
  <2>2. /\ stale' \in [Conns -> BOOLEAN]
        /\ link' \in [Conns -> {"open", "reset"}]
    BY <1>5, <1>s DEF ReadNothing
  <2> QED
    BY <1>5, <2>1, <2>2, JudgeType DEF ReadNothing
<1> QED
  BY <1>1, <1>2, <1>3, <1>4, <1>5 DEF Client

\* The requests the threads are at stay those of the programs.
LEMMA KeepsType ==
  ASSUME ClientTypeInv, UNCHANGED <<client, accepted, link>>,
         requests' \in [Conns -> Seq(SafeLines)],
         responses' \in [Conns -> Seq(Replies)],
         \A c \in Conns : \/ req'[c] = req[c]
                          \/ req'[c] = NoMessage
                          \/ req'[c] \in SafeLines
  PROVE  ClientTypeInv'
BY NoMessageType DEF ClientTypeInv, client, SafeLines

\* The server's steps.
LEMMA ServerType ==
  ASSUME TypeInv, ClientTypeInv, NEW c \in Conns, Server(c)
  PROVE  ClientTypeInv'
<1>s. /\ requests[c] \in Seq(SafeLines) /\ responses[c] \in Seq(Replies)
      /\ requests \in [Conns -> Seq(SafeLines)]
      /\ responses \in [Conns -> Seq(Replies)]
      /\ req \in [Conns -> Message]
  BY DEF ClientTypeInv, TypeInv, TypeOK
<1>1. CASE AcceptConnection(c)
  <2>1. accepted' \in [Conns -> BOOLEAN] /\ UNCHANGED <<req, client, requests,
                                                         responses, link>>
    BY <1>1 DEF AcceptConnection, AcceptClient, ClientTypeInv
  <2> QED
    BY <2>1 DEF ClientTypeInv, client
<1>2. CASE ReadRequest(c)
  <2>1. Head(requests[c]) \in SafeLines /\ Tail(requests[c]) \in Seq(SafeLines)
    BY <1>2, <1>s, SeqFacts DEF ReadRequest
  <2>2. req' = req \/ req' = [req EXCEPT ![c] = Head(requests[c])]
    BY <1>2, <2>1, DispatchShape DEF ReadRequest, SafeLines
  <2>3. requests' \in [Conns -> Seq(SafeLines)]
    BY <1>2, <1>s, <2>1 DEF ReadRequest
  <2> QED
    BY <1>2, <1>s, <2>1, <2>2, <2>3, KeepsType DEF ReadRequest
<1>3. CASE ReadEnd(c)
  BY <1>3, <1>s, KeepsType DEF ReadEnd, ReadEOF, net
<1>4. CASE ServerWorks(c)
  <2>1. Response(c) \in Replies
    BY DEF Response, Replies, TypeInv, TypeOK
  <2>2. Append(responses[c], Response(c)) \in Seq(Replies)
    BY <1>s, <2>1, SeqFacts
  <2>3. responses' \in [Conns -> Seq(Replies)]
    BY <1>4, <1>s, <2>2 DEF ServerWorks
  <2>4. \A d \in Conns : req'[d] \in {req[d], NoMessage}
    <3>1. CASE ResponseTooLong(c) \/ BrokenPipe(c)
      BY <3>1 DEF ResponseTooLong, BrokenPipe, Dies, EachConn
    <3>2. CASE ~(ResponseTooLong(c) \/ BrokenPipe(c))
      BY <1>4, <3>2, WorkShape DEF ServerWorks, Serves, Destroys, SendReply
    <3> QED
      BY <3>1, <3>2
  <2> QED
    BY <1>4, <1>s, <2>3, <2>4, KeepsType DEF ServerWorks
<1> QED
  BY <1>1, <1>2, <1>3, <1>4 DEF Server

\* Types are kept by every step.
LEMMA NextClientType ==
  ASSUME TypeInv, ClientTypeInv, [CNext]_cvars
  PROVE  ClientTypeInv'
<1>1. CASE \E c \in Conns : Client(c) \/ Killed(c)
  BY <1>1, ClientType
<1>2. CASE \E c \in Conns : Server(c)
  BY <1>2, ServerType
<1>3. CASE ServerExits
  <2>1. \A c \in Conns : req'[c] = NoMessage
    BY <1>3 DEF ServerExits, AcceptError, Dies, EachConn
  <2>2. /\ requests' \in [Conns -> Seq(SafeLines)]
        /\ responses' \in [Conns -> Seq(Replies)]
    BY <1>3 DEF ServerExits, net, ClientTypeInv
  <2> QED
    BY <1>3, <2>1, <2>2, KeepsType DEF ServerExits, net
<1>4. CASE AllDone \/ UNCHANGED cvars
  BY <1>4 DEF AllDone, cvars, vars, client, net, ClientTypeInv
<1> QED
  BY <1>1, <1>2, <1>3, <1>4 DEF CNext

\* The programs before they connect.
LEMMA InitClientType == CInit => ServerInv /\ ClientTypeInv
<1> SUFFICES ASSUME CInit PROVE ServerInv /\ ClientTypeInv
  OBVIOUS
<1>1. PICK s \in Starts : /\ role = [c \in Conns |-> s[c].role]
                          /\ flaw = [c \in Conns |-> s[c].flaw]
  BY DEF CInit
<1>2. \A c \in Conns : s[c].role \in Roles /\ s[c].flaw \in SetFlaws
  BY ClientsAssumption DEF Start, Roles, OtherFlaws
<1>3. role \in [Conns -> Roles] /\ flaw \in [Conns -> SetFlaws]
  BY <1>1, <1>2
<1>m. [EachTable(EmptyMap) EXCEPT ![T][K] = StartValue] \in [Tables -> Map]
  BY ClientsAssumption, StoiAssumption DEF EachTable, EmptyMap, Map
<1>4. TypeInv /\ LockInv /\ PendingInv
  BY <1>m, ClientsAssumption, InitWithType, InitWithLock, InitWithPending DEF CInit
<1>5. ValueInv /\ EndedInv /\ LoginInv
  BY DEF CInit, InitWith, EachConn, ValueInv, EndedInv, LoginInv, AccessPCs,
         EarlyPCs
<1>6. \A c \in Conns : step[c] = 1 /\ 1 \in 1 .. Len(Program(role[c]))
  <2>1. \A c \in Conns : EndsWithBye(Program(role[c]))
    BY <1>3, ProgramAsks
  <2> QED
    BY <2>1 DEF CInit, EachConn, EndsWithBye
<1>7. /\ requests \in [Conns -> Seq(SafeLines)]
      /\ responses \in [Conns -> Seq(Replies)]
  <2>1. << >> \in Seq(SafeLines) /\ << >> \in Seq(Replies)
    OBVIOUS
  <2> QED
    BY <2>1 DEF CInit, EachConn
<1>8. \A c \in Conns : req[c].type \notin {"GET", "SET"}
  BY NoMessageType DEF CInit, InitWith, EachConn
<1>9. ClientTypeInv
  BY <1>3, <1>6, <1>7, <1>8
     DEF CInit, EachConn, ClientTypeInv, Places, Buffers, Statuses
<1> QED
  BY <1>4, <1>5, <1>9 DEF ServerInv

-----------------------------------------------------------------------------
(***************************************************************************)
(* One request, one response.                                              *)
(***************************************************************************)

\* A connection does not notice what happens on another one.
LEMMA OtherQueue ==
  ASSUME NEW d \in Conns, OneUnderWay(d), UNCHANGED process,
         UNCHANGED <<pc[d], accepted[d], sock[d], at[d], requests[d],
                     responses[d]>>
  PROVE  OneUnderWay(d)'
BY DEF OneUnderWay, ServerGone, Serving

\* The end of a client with nothing unread, or with its response unread.
LEMMA EndsQueue ==
  ASSUME TypeInv, ClientTypeInv, NEW c \in Conns, OneUnderWay(c),
         NEW how, NEW unread, unread \in {<< >>, responses[c]},
         Ends(c, how, unread)
  PROVE  OneUnderWay(c)'
<1>1. /\ Len(requests[c]) \in Nat /\ Len(responses[c]) \in Nat
      /\ responses[c] = << >> <=> Len(responses[c]) = 0
  BY SeqFacts DEF ClientTypeInv
<1>2. /\ at'[c] = "done" /\ responses'[c] = << >>
      /\ requests' = requests
      /\ UNCHANGED <<process, pc, accepted>>
  BY DEF Ends, ClientTypeInv
<1>3. Serving(c) \in {0, 1} /\ Serving(c)' = Serving(c)
      /\ ServerGone(c)' = ServerGone(c)
  BY <1>2 DEF Serving, ServerGone
<1>4. sock'[c] = "reset" /\ ~ServerGone(c) /\ sock[c] # "reset" =>
        Len(responses[c]) > 0
  BY <1>1 DEF Ends, TypeInv, TypeOK
<1>5. Len(responses'[c]) = 0
  BY <1>2
<1> QED
  BY <1>1, <1>2, <1>3, <1>4, <1>5 DEF OneUnderWay

\* A client's steps on its own connection.
LEMMA ClientQueue ==
  ASSUME TypeInv, ClientTypeInv, NEW c \in Conns, OneUnderWay(c),
         Client(c) \/ Killed(c)
  PROVE  OneUnderWay(c)'
<1>s. /\ requests[c] \in Seq(SafeLines) /\ responses[c] \in Seq(Replies)
      /\ Len(requests[c]) \in Nat /\ Len(responses[c]) \in Nat
      /\ Serving(c) \in {0, 1}
  BY SeqFacts DEF ClientTypeInv, Serving
<1>1. CASE Connect(c)
  BY <1>1 DEF Connect, OneUnderWay, ServerGone, Serving, ClientTypeInv, vars, net
<1>2. CASE SendRequest(c)
  <2>1. /\ at[c] = "send" /\ at'[c] \in {"close", "recv"}
        /\ requests'[c] = Append(requests[c], Line(c))
        /\ UNCHANGED <<process, pc, sock, accepted, responses>>
    BY <1>2 DEF SendRequest, AfterWrite, ClientTypeInv, vars
  <2>2. Len(requests'[c]) = Len(requests[c]) + 1
    BY <1>s, <2>1, CurrentAsk, SeqFacts
  <2>3. Serving(c)' = Serving(c) /\ ServerGone(c)' = ServerGone(c)
    BY <2>1 DEF Serving, ServerGone
  <2> QED
    BY <1>s, <2>1, <2>2, <2>3 DEF OneUnderWay
<1>3. CASE ConnectFails(c) \/ EncodeThrows(c) \/ WriteToReset(c) \/ Finish(c)
           \/ Killed(c)
  BY <1>3, EndsQueue
     DEF ConnectFails, EncodeThrows, WriteToReset, Finish, Killed
<1>j. ASSUME NEW line, NEW unread, unread \in {<< >>, responses[c]},
             at[c] = "recv", Len(unread) = 0 \/ ServerGone(c),
             ServerGone(c) \/ Len(requests[c]) + Serving(c) = 0,
             Judge(c, line, unread)
      PROVE  OneUnderWay(c)'
  <2>1. CASE line.type = Current(c).want
    <3>1. /\ at'[c] = "send" /\ responses'[c] = unread
          /\ UNCHANGED <<process, pc, sock, accepted, requests>>
      BY <1>j, <2>1 DEF Judge, ClientTypeInv, vars
    <3>2. Serving(c)' = Serving(c) /\ ServerGone(c)' = ServerGone(c)
      BY <3>1 DEF Serving, ServerGone
    <3> QED
      BY <1>s, <1>j, <3>1, <3>2 DEF OneUnderWay
  <2>2. CASE line.type # Current(c).want
    BY <1>j, <2>2, EndsQueue DEF Judge
  <2> QED
    BY <2>1, <2>2
<1>4. CASE ReadResponse(c)
  <2>1. /\ Len(responses[c]) > 0 /\ Len(Tail(responses[c])) = Len(responses[c]) - 1
        /\ Tail(responses[c]) \in Seq(Replies)
    BY <1>4, <1>s, SeqFacts DEF ReadResponse
  <2>2. CASE ~ServerGone(c)
    <3>1. Len(Tail(responses[c])) = 0 /\ Len(requests[c]) + Serving(c) = 0
      <4>1. Len(requests[c]) + Serving(c) + Len(responses[c]) <= 1
        BY <2>2 DEF OneUnderWay
      <4>2. \A a, b, n, k : /\ a \in Nat /\ b \in Nat /\ n \in Nat
                            /\ a + b + n <= 1 /\ n > 0 /\ k = n - 1
                            => k = 0 /\ a + b = 0
        OBVIOUS
      <4>3. Len(requests[c]) \in Nat /\ Serving(c) \in Nat /\ Len(responses[c]) \in Nat
        BY <1>s
      <4> QED
        BY <2>1, <4>1, <4>2, <4>3, Zenon
    <3>2. Tail(responses[c]) = << >>
      BY <2>1, <3>1, SeqFacts
    <3> QED
      BY <1>4, <1>j, <3>1, <3>2 DEF ReadResponse
  <2>3. CASE ServerGone(c)
    <3>1. UNCHANGED <<process, pc, accepted>> /\ ServerGone(c)'
          /\ pc'[c] = pc[c]
      BY <1>4, <2>3 DEF ReadResponse, Judge, Ends, ServerGone, vars
    <3>2. sock'[c] = sock[c]
      BY <1>4, <2>3 DEF ReadResponse, Judge, Ends, vars
    <3>3. at[c] # "done"
      BY <1>4 DEF ReadResponse
    <3> QED
      BY <3>1, <3>2, <3>3 DEF OneUnderWay
  <2> QED
    BY <2>2, <2>3
<1>5. CASE ReadNothing(c)
  <2>1. Len(<< >>) = 0
    OBVIOUS
  <2> QED
    BY <1>5, <1>j, <2>1 DEF ReadNothing
<1> QED
  BY <1>1, <1>2, <1>3, <1>4, <1>5 DEF Client

\* No thread writes to a socket that has been reset.
LEMMA NoBrokenPipe ==
  ASSUME TypeInv, ClientTypeInv, NEW c \in Conns, OneUnderWay(c)
  PROVE  ~BrokenPipe(c)
<1> SUFFICES ASSUME BrokenPipe(c) PROVE FALSE
  OBVIOUS
<1>1. ~ServerGone(c) /\ sock[c] = "reset" /\ Serving(c) = 1
  BY DEF BrokenPipe, At, ServerGone, Serving, IdlePCs
<1>2. Len(requests[c]) + Serving(c) = 0
  BY <1>1 DEF OneUnderWay
<1>3. Len(requests[c]) \in Nat
  BY SeqFacts DEF ClientTypeInv
<1> QED
  BY <1>1, <1>2, <1>3

\* The server's steps on a connection.
LEMMA ServerQueue ==
  ASSUME TypeInv, ClientTypeInv,
         NEW c \in Conns, OneUnderWay(c), Server(c), ~ResponseTooLong(c)
  PROVE  /\ OneUnderWay(c)' /\ UNCHANGED process
         /\ \A d \in Conns \ {c} :
              UNCHANGED <<pc[d], accepted[d], sock[d], at[d], requests[d],
                          responses[d]>>
<1> USE DEF client
<1>s. /\ requests[c] \in Seq(SafeLines) /\ responses[c] \in Seq(Replies)
      /\ Len(requests[c]) \in Nat /\ Len(responses[c]) \in Nat
      /\ requests \in [Conns -> Seq(SafeLines)]
      /\ responses \in [Conns -> Seq(Replies)]
      /\ accepted \in [Conns -> BOOLEAN]
  BY SeqFacts DEF ClientTypeInv
<1>1. CASE AcceptConnection(c)
  <2>1. /\ process = "running" /\ pc[c] = "off" /\ ~accepted[c]
        /\ pc' = [pc EXCEPT ![c] = "read"]
        /\ accepted' = [accepted EXCEPT ![c] = TRUE]
        /\ UNCHANGED <<process, sock, at, requests, responses>>
    BY <1>1 DEF AcceptConnection, AcceptClient
  <2>2. /\ \A d \in Conns \ {c} : UNCHANGED <<pc[d], accepted[d]>>
        /\ pc'[c] = "read" /\ accepted'[c]
    BY <1>s, <2>1 DEF TypeInv, TypeOK
  <2> QED
    BY <2>1, <2>2 DEF OneUnderWay, ServerGone, Serving, IdlePCs
<1>2. CASE ReadRequest(c)
  <2>1. /\ Head(requests[c]) \in SafeLines
        /\ Len(Tail(requests[c])) = Len(requests[c]) - 1
    BY <1>2, <1>s, SeqFacts DEF ReadRequest
  <2>2. /\ process = "running" /\ UNCHANGED <<process, sock>>
        /\ pc[c] = "read" /\ pc'[c] \notin IdlePCs
        /\ \A d \in Conns \ {c} : pc'[d] = pc[d]
    BY <1>2, <2>1, DispatchShape DEF ReadRequest, SafeLines
  <2>3. /\ requests' = [requests EXCEPT ![c] = Tail(@)]
        /\ UNCHANGED <<at, accepted, responses>>
    BY <1>2 DEF ReadRequest
  <2>4. /\ \A d \in Conns \ {c} : requests'[d] = requests[d]
        /\ requests'[c] = Tail(requests[c])
    BY <1>s, <2>3
  <2>5. Serving(c) = 0 /\ Serving(c)' = 1 /\ ~ServerGone(c) /\ ~ServerGone(c)'
    BY <2>2 DEF Serving, ServerGone, IdlePCs
  <2>6. Len(requests'[c]) + Serving(c)' = Len(requests[c]) + Serving(c)
    BY <1>s, <2>1, <2>4, <2>5
  <2> QED
    BY <2>2, <2>3, <2>4, <2>5, <2>6 DEF OneUnderWay
<1>3. CASE ReadEnd(c)
  <2>1. /\ process = "running" /\ pc[c] = "read"
        /\ pc' = [pc EXCEPT ![c] = "dtor"]
        /\ UNCHANGED <<process, sock, at, accepted, requests, responses>>
    BY <1>3 DEF ReadEnd, ReadEOF, Destroy, GoTo, At, net
  <2> QED
    BY <2>1 DEF OneUnderWay, ServerGone, Serving, IdlePCs, TypeInv, TypeOK
<1>4. CASE ServerWorks(c)
  <2>1. /\ process = "running"
        /\ \A d \in Conns \ {c} : UNCHANGED <<pc[d], req[d], sock[d]>>
        /\ Serves(c) \/ Destroys(c) \/ SendReply(c)
    BY <1>4, WorkShape, NoBrokenPipe DEF ServerWorks
  <2>2. UNCHANGED <<at, accepted, requests>>
    BY <1>4 DEF ServerWorks
  <2>3. /\ \A d \in Conns \ {c} : responses'[d] = responses[d]
        /\ \/ responses'[c] = responses[c]
           \/ /\ pc[c] \in {"reply", "last_reply"} /\ sock[c] = "open"
              /\ responses'[c] = Append(responses[c], Response(c))
    BY <1>4, <1>s DEF ServerWorks
  <2>4. CASE Serves(c)
    <3>1. pc[c] # "off" /\ pc'[c] # "off" /\ Serving(c)' = Serving(c)
          /\ ServerGone(c)' = ServerGone(c) /\ UNCHANGED <<process, sock>>
      BY <2>2, <2>4 DEF Serves, Serving, ServerGone, IdlePCs
    <3>2. responses' = responses
      <4>1. pc[c] \notin {"reply", "last_reply"}
        <5>1. ASSUME pc[c] \in {"reply", "last_reply"} PROVE pc'[c] \in IdlePCs
          <6>1. SendReply(c)
            BY <1>4, <5>1, NoBrokenPipe
               DEF ServerWorks, Work, LockRegistry, CreateTable, FindTable,
                   TryLock, TryLockFails, LockTable, GetAccess, SetAccess,
                   UnlockTable, CommitTable, RollbackTable, CommitDone,
                   RollbackDone, DtorDone, At
          <6> QED
            BY <6>1 DEF SendReply, Destroy, GoTo, IdlePCs, TypeInv, TypeOK
        <5> QED
          BY <2>4, <5>1 DEF Serves
      <4> QED
        BY <1>4, <4>1 DEF ServerWorks
    <3> QED
      BY <2>1, <2>2, <3>1, <3>2 DEF OneUnderWay
  <2>5. CASE Destroys(c)
    <3>1. /\ pc[c] = "dtor" /\ pc'[c] \in {"dtor", "off"} /\ UNCHANGED process
          /\ sock'[c] \in {sock[c], "open"}
      BY <2>5 DEF Destroys, TypeInv, TypeOK
    <3>2. responses' = responses
      BY <1>4, <3>1 DEF ServerWorks
    <3>3. Serving(c) = 0 /\ Serving(c)' = 0 /\ ~ServerGone(c)
      BY <2>1, <3>1 DEF Serving, ServerGone, IdlePCs
    <3> QED
      BY <2>1, <2>2, <3>1, <3>2, <3>3 DEF OneUnderWay
  <2>6. CASE SendReply(c)
    <3>1. /\ pc[c] \in {"reply", "last_reply"} /\ pc'[c] \in {"read", "dtor"}
          /\ UNCHANGED process
          /\ sock'[c] = sock[c] \/ (sock[c] = "closed" /\ sock'[c] = "reset")
      BY <2>6 DEF SendReply, Destroy, GoTo, At, TypeInv, TypeOK
    <3>2. Serving(c) = 1 /\ Serving(c)' = 0 /\ ~ServerGone(c) /\ ~ServerGone(c)'
      BY <2>1, <3>1 DEF Serving, ServerGone, IdlePCs
    <3>3. Response(c) \in Replies
      BY DEF Response, Replies, TypeInv, TypeOK
    <3>4. /\ Len(responses'[c]) \in Nat
          /\ Len(responses'[c]) <= Len(responses[c]) + 1
      BY <1>s, <2>3, <3>3, SeqFacts
    <3>5. Len(requests[c]) = 0 /\ Len(responses[c]) = 0
          /\ at[c] \notin {"start", "send"}
      BY <1>s, <3>2 DEF OneUnderWay
    <3> QED
      BY <2>1, <2>2, <2>3, <3>1, <3>2, <3>4, <3>5 DEF OneUnderWay
  <2> QED
    BY <2>1, <2>4, <2>5, <2>6
<1> QED
  BY <1>1, <1>2, <1>3, <1>4 DEF Server

\* One request, one response, on every connection.
LEMMA NextQueue ==
  ASSUME TypeInv, ClientTypeInv, QueueInv, [CNext]_cvars
  PROVE  QueueInv'
<1>1. ASSUME NEW c \in Conns, Client(c) \/ Killed(c) PROVE QueueInv'
  <2>1. /\ UNCHANGED <<process, pc>>
        /\ \A d \in Conns \ {c} : sock'[d] = sock[d]
    BY <1>1, ClientSide DEF PeerGone, TypeInv, TypeOK
  <2>2. /\ UNCHANGED accepted
        /\ \A d \in Conns \ {c} : UNCHANGED <<at[d], requests[d], responses[d]>>
    <3> USE DEF Ends, ClientTypeInv
    <3>1. CASE Connect(c) \/ SendRequest(c)
      BY <3>1 DEF Connect, SendRequest, AfterWrite, net
    <3>2. CASE ConnectFails(c) \/ EncodeThrows(c) \/ WriteToReset(c)
               \/ Finish(c) \/ Killed(c)
      BY <3>2 DEF ConnectFails, EncodeThrows, WriteToReset, Finish, Killed
    <3>3. CASE ReadResponse(c) \/ ReadNothing(c)
      BY <3>3 DEF ReadResponse, ReadNothing, Judge
    <3> QED
      BY <1>1, <3>1, <3>2, <3>3 DEF Client
  <2>3. OneUnderWay(c)'
    BY <1>1, ClientQueue DEF QueueInv
  <2>4. \A d \in Conns \ {c} : OneUnderWay(d)'
    BY <2>1, <2>2, OtherQueue DEF QueueInv
  <2> QED
    BY <2>3, <2>4 DEF QueueInv
<1>2. ASSUME NEW c \in Conns, Server(c), ~ResponseTooLong(c) PROVE QueueInv'
  <2>1. OneUnderWay(c)'
    BY <1>2, ServerQueue DEF QueueInv
  <2>2. \A d \in Conns \ {c} : OneUnderWay(d)'
    BY <1>2, ServerQueue, OtherQueue DEF QueueInv
  <2> QED
    BY <2>1, <2>2 DEF QueueInv
<1>3. ASSUME NEW how, how # "running", Dies(how) PROVE QueueInv'
  BY <1>3 DEF Dies, EachConn, QueueInv, OneUnderWay, ServerGone
<1>5. CASE ServerExits
  BY <1>3, <1>5 DEF ServerExits, AcceptError
<1>6. ASSUME NEW c \in Conns, ResponseTooLong(c) PROVE QueueInv'
  BY <1>3, <1>6 DEF ResponseTooLong
<1>4. CASE AllDone \/ UNCHANGED cvars
  BY <1>4 DEF AllDone, cvars, vars, client, net, QueueInv, OneUnderWay,
              ServerGone, Serving
<1> QED
  BY <1>1, <1>2, <1>4, <1>5, <1>6 DEF CNext

\* Nothing is under way before the clients connect.
LEMMA InitQueue == CInit => QueueInv
BY DEF CInit, InitWith, EachConn, QueueInv, OneUnderWay, ServerGone, Serving,
       IdlePCs

\* No step of a thread or client ends the process other than by accept's
\* error path.
LEMMA NextUnharmed ==
  ASSUME TypeInv, ClientTypeInv, QueueInv, T \notin LongNames, [CNext]_cvars,
         ServerUnharmed
  PROVE  ServerUnharmed'
<1>1. CASE \E c \in Conns : Client(c) \/ Killed(c)
  BY <1>1, ClientSide DEF PeerGone, ServerUnharmed
<1>2. CASE \E c \in Conns : Server(c)
  <2>1. \A c \in Conns : ~ResponseTooLong(c)
    BY DEF ResponseTooLong, TextTooLong, ClientTypeInv
  <2> QED
    BY <1>2, <2>1, ServerQueue DEF QueueInv, ServerUnharmed
<1>3. CASE ServerExits
  BY <1>3 DEF ServerExits, AcceptError, Dies, ServerUnharmed
<1>4. CASE AllDone \/ UNCHANGED cvars
  BY <1>4 DEF AllDone, cvars, vars, ServerUnharmed
<1> QED
  BY <1>1, <1>2, <1>3, <1>4 DEF CNext

\* The server's and the clients' invariants, together.
LEMMA ClientsInvariant == CSpec => [](ServerInv /\ ClientTypeInv /\ QueueInv)
<1>1. CInit => ServerInv /\ ClientTypeInv /\ QueueInv
  BY InitClientType, InitQueue
<1>2. ServerInv /\ ClientTypeInv /\ QueueInv /\ [CNext]_cvars
      => (ServerInv /\ ClientTypeInv /\ QueueInv)'
  BY NextServer, NextClientType, NextQueue DEF ServerInv
<1> QED
  BY <1>1, <1>2, PTL DEF CSpec

\* The clients are no danger to the server: whatever they are given on their
\* command lines and whenever they are killed, rio_writen raises no SIGPIPE in
\* the server, and no handler ends it.  The name of the table must fit the
\* response to a failed transaction: one that does not ends the process (the
\* run long_name).
THEOREM ClientsHarmless ==
  ASSUME T \notin LongNames
  PROVE  CSpec => []ServerUnharmed
<1>1. CInit => ServerUnharmed
  BY DEF CInit, InitWith, ServerUnharmed
<1>2. ServerInv /\ ClientTypeInv /\ QueueInv /\ ServerUnharmed /\ [CNext]_cvars
      => ServerUnharmed'
  BY NextUnharmed DEF ServerInv
<1> QED
  BY <1>1, <1>2, ClientsInvariant, PTL DEF CSpec

\* The server keeps its lock discipline beside the clients, which close and
\* reset connections it has not accepted yet: no data race, no leaked mutex,
\* no circle of waiting threads, no pending changes without their transaction
\* (the handlers and the destructor of client_connection.cpp).
THEOREM DisciplineBesideClients ==
  CSpec => [](RaceFree /\ NoLeakedLock /\ NoCircularWait /\ PendingIsOwned)
<1>1. ServerInv => RaceFree /\ NoLeakedLock /\ NoCircularWait /\ PendingIsOwned
  BY HeldWhenTouched, OwnedWillBeFreed, NobodyInACircle, PendingHasOwner
     DEF ServerInv
<1> QED
  BY <1>1, ClientsInvariant, PTL
=============================================================================
