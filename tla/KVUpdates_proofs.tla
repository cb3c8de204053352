--------------------------- MODULE KVUpdates_proofs ---------------------------
(***************************************************************************)
(* incr_value -t beside get_value, for any number of clients.               *)
(*                                                                         *)
(* PlaceInv relates a client's place in its program to what is under way on *)
(* its connection.  UpdateInv follows every transaction from request to     *)
(* request, and counts: S is the set of the clients whose COMMIT has been   *)
(* carried out.  The state does not tell it (a client may have been killed  *)
(* in between and its session be gone), so UpdateInv says that there is one. *)
(***************************************************************************)
EXTENDS KVClients_proofs, FiniteSetTheorems

OnlyIncrements == \A c \in Conns : role[c] \in {"incr_t", "get"}

\* The session of c, there or still to be accepted, takes the next request.
Fresh(c) == ~accepted[c] \/ pc[c] = "read"

\* What a client's place says about its connection.
Placed(c) ==
  /\ at[c] \in {"start", "send"} => Fresh(c)
  /\ requests[c] # << >> /\ Fresh(c) => Head(requests[c]) = Line(c)
  /\ at[c] = "recv" => \/ requests[c] # << >> /\ Fresh(c)
                       \/ pc[c] \notin IdlePCs
                       \/ responses[c] # << >>
  /\ at[c] = "recv" /\ responses[c] # << >> /\ Head(responses[c]).type # "ERROR" =>
       pc[c] = "read"
  /\ at[c] = "recv" /\ pc[c] = "last_reply" => resp[c] = "ERROR"
  /\ status[c] = "error" => /\ at[c] = "done" /\ pc[c] \in IdlePCs
                            /\ requests[c] = << >> \/ ~Fresh(c)

PlaceInv == process = "running" => \A c \in Conns : Placed(c)

\* Status 0 is for clients that have come to their BYE.
EndInv ==
  \A c \in Conns :
    at[c] = "close" \/ status[c] = "ok" => step[c] = Len(Program(role[c]))

\* T is the transaction's.
HasT(c) == T \in locked_tables[c] /\ table_mutex[T] = c

\* The value one greater than the committed one.
NextOf(v) == v \in DOMAIN Stoi /\ Stoi[v] = Stoi[Stored] + 1

\* The session of an incr_value -t, when requests 1 to n - 1 of its program
\* have been answered OK.
Ready(c, n, S) ==
  /\ c \in S <=> n = 8
  /\ n \in {1, 2} => ~m_in_transaction[c]
  /\ n \in 3 .. 7 => m_in_transaction[c]
  /\ n \in 1 .. 3 => locked_tables[c] = {} /\ m_stack[c] = << >>
  /\ n \in 4 .. 7 => HasT(c)
  /\ n = 4 => Len(m_stack[c]) = 1 /\ m_stack[c][1] = Stored
  /\ n = 5 => Len(m_stack[c]) = 2 /\ m_stack[c][1] = Stored /\ m_stack[c][2] = One
  /\ n = 6 => Len(m_stack[c]) = 1 /\ NextOf(m_stack[c][1])
  /\ n = 7 => NextOf(key_value_temp[T][K])

\* GET is the third request, SET the sixth.
Getting(c) ==
  /\ req[c].type = "GET" /\ m_stack[c] = << >>
  /\ IF pc[c] = "access" THEN HasT(c) /\ key_value_temp[T][K] = NoValue
                         ELSE locked_tables[c] = {}

Setting(c) ==
  req[c].type = "SET" /\ HasT(c) /\ NextOf(value[c]) /\ pc[c] # "trylock"

\* Its thread, serving request n.
Busy(c, n, S) ==
  /\ pc[c] = "reply" =>
       n < 8 /\ IF resp[c] = "OK" THEN Ready(c, n + 1, S) ELSE c \notin S
  /\ pc[c] = "last_reply" => (c \in S <=> n = 8)
  /\ pc[c] \in {"find_lock", "find", "trylock", "access"} =>
       /\ m_in_transaction[c] /\ c \notin S
       /\ (n = 3 /\ Getting(c)) \/ (n = 6 /\ Setting(c))
  /\ pc[c] = "commit" =>
       /\ n = 7
       /\ IF T \in rest[c] THEN /\ c \notin S /\ table_mutex[T] = c
                                /\ NextOf(key_value_temp[T][K])
                           ELSE c \in S
  /\ pc[c] = "rollback" => c \notin S /\ n < 7
  /\ pc[c] \notin {"lock", "unlock", "create_lock", "create"}

\* An incr_value -t at request n.
AtRequest(c, n, S) ==
  /\ c \in S => n >= 7 /\ status[c] # "error"
  /\ n = 8 => c \in S
  /\ at[c] = "start" => n = 1
  /\ at[c] \in {"start", "send"} \/ (requests[c] # << >> /\ Fresh(c)) =>
       Ready(c, n, S)
  /\ pc[c] \notin IdlePCs => Busy(c, n, S)
  /\ at[c] = "recv" /\ responses[c] # << >> =>
       IF Head(responses[c]).type = "OK" THEN Ready(c, n + 1, S) ELSE c \notin S

Updates(c, S) == \A n \in 1 .. 8 : step[c] = n => AtRequest(c, n, S)

\* A get_value changes nothing.
Reads(c) == ~m_in_transaction[c] /\ req[c].type # "SET"

\* S are the clients whose COMMIT is done.
Tally(S) ==
  /\ Stored \in DOMAIN Stoi
  /\ Stoi[Stored] = Stoi[StartValue] + Cardinality(S)
  /\ \A c \in Conns : /\ role[c] = "incr_t" => Updates(c, S)
                      /\ role[c] = "get" => c \notin S /\ Reads(c)

UpdateInv ==
  process = "running" /\ OnlyIncrements => \E S \in SUBSET Conns : Tally(S)

\* The value v was committed, and not before f was.
Between(f, v) ==
  /\ {f, v} \subseteq DOMAIN Stoi /\ Stoi[f] <= Stoi[v]
  /\ process = "running" => Stoi[v] <= Stoi[Stored]

\* What the session of c has read: it is accepted after its client connected,
\* and only get_value sends TOP.
Sees(c) ==
  /\ at[c] \in {"send", "recv", "close"} \/ sock[c] # "open" \/ accepted[c] =>
       Between(floor[c], floor[c])
  /\ role[c] = "get" =>
       \A i \in 1 .. Len(m_stack[c]) : Between(floor[c], m_stack[c][i])
  /\ resp[c] = "DATA" =>
       role[c] = "get" /\ pc[c] = "reply" /\ Between(floor[c], value[c])

SeesInv == process = "running" /\ OnlyIncrements => \A c \in Conns : Sees(c)

\* What its client has read, or is about to: also when the server is gone.
Saw(c) ==
  /\ at[c] = "start" => ~accepted[c] /\ printed[c] = NoValue /\ buf[c].type = "unset"
  /\ printed[c] # NoValue => Between(floor[c], printed[c])
  /\ buf[c].type = "DATA" => Between(floor[c], buf[c].value)
  /\ \A i \in 1 .. Len(responses[c]) :
       responses[c][i].type = "DATA" => Between(floor[c], responses[c][i].value)

SawInv == OnlyIncrements => \A c \in Conns : Saw(c)

\* All there is of a connection and its client.
OwnSame(c) ==
  /\ UNCHANGED <<pc[c], m_in_transaction[c], locked_tables[c], m_stack[c],
                 req[c], value[c], resp[c], rest[c], sock[c]>>
  /\ UNCHANGED <<at[c], step[c], buf[c], status[c], printed[c], floor[c],
                 accepted[c], requests[c], responses[c]>>
  /\ UNCHANGED <<role, flaw>>

-----------------------------------------------------------------------------
(***************************************************************************)
(* Places.                                                                 *)
(***************************************************************************)

\* A step of one client is nobody else's.
LEMMA ClientOfOne ==
  ASSUME TypeInv, ClientTypeInv, NEW d \in Conns, NEW c \in Conns \ {d},
         Client(d) \/ Killed(d)
  PROVE  OwnSame(c)
<1> USE DEF TypeInv, TypeOK, ClientTypeInv, OwnSame, client, net, vars, session
<1>1. CASE Connect(d) \/ SendRequest(d)
  BY <1>1 DEF Connect, SendRequest, AfterWrite
<1>2. CASE ConnectFails(d) \/ EncodeThrows(d) \/ WriteToReset(d) \/ Finish(d)
           \/ Killed(d)
  BY <1>2 DEF ConnectFails, EncodeThrows, WriteToReset, Finish, Killed, Ends, Stays
<1>3. CASE ReadResponse(d) \/ ReadNothing(d)
  BY <1>3 DEF ReadResponse, ReadNothing, Judge, Ends
<1> QED
  BY <1>1, <1>2, <1>3 DEF Client

\* Nor is a step of its thread.
LEMMA StepOfOne ==
  ASSUME TypeInv, ClientTypeInv, NEW d \in Conns, NEW c \in Conns \ {d},
         Client(d) \/ Killed(d) \/ Server(d), process' = "running"
  PROVE  OwnSame(c)
<1>1. CASE Client(d) \/ Killed(d)
  BY <1>1, ClientOfOne
<1> USE DEF TypeInv, TypeOK, ClientTypeInv, OwnSame, client, net, vars, session
<1> USE DEF GoTo, Answer, LastAnswer
<1>2. CASE AcceptConnection(d) \/ ReadEnd(d)
  BY <1>2 DEF AcceptConnection, AcceptClient, ReadEnd, ReadEOF, Destroy
<1>3. CASE ReadRequest(d)
  <2>1. PICK m : Dispatch(d, m)
    BY <1>3 DEF ReadRequest
  <2>2. ~DivisionTrap(d, m)
    BY DEF DivisionTrap, Dies
  <2>3. UNCHANGED <<pc[c], m_in_transaction[c], locked_tables[c], m_stack[c],
                    req[c], value[c], resp[c], rest[c], sock[c]>>
    BY <2>1, <2>2
       DEF Dispatch, NotLoggedIn, InvalidRequest, HandleLogin, HandleBye,
           HandlePush, EmptyStack, HandlePop, HandleTop, TooFewOperands,
           BadOperands, HandleArith, HandleBegin, NestedBegin,
           NotInTransaction, HandleCreate, HandleGet, HandleSet, HandleCommit,
           FailTransaction
  <2> QED
    BY <1>3, <2>3 DEF ReadRequest
<1>4. CASE ServerWorks(d)
  <2>1. ~ResponseTooLong(d) /\ ~BrokenPipe(d)
    BY DEF ResponseTooLong, BrokenPipe, Dies
  <2>2. UNCHANGED <<pc[c], m_in_transaction[c], locked_tables[c], m_stack[c],
                    req[c], value[c], resp[c], rest[c], sock[c]>>
    <3> USE DEF Forget, At
    <3>1. CASE LockRegistry(d) \/ CreateTable(d) \/ FindTable(d)
      BY <3>1 DEF LockRegistry, CreateTable, FindTable
    <3>2. CASE TryLock(d) \/ TryLockFails(d) \/ LockTable(d) \/ UnlockTable(d)
      BY <3>2 DEF TryLock, TryLockFails, LockTable, UnlockTable, FailTransaction
    <3>3. CASE GetAccess(d) \/ SetAccess(d)
      BY <3>3 DEF GetAccess, SetAccess, Leave
    <3>4. CASE \E t \in Tables : CommitTable(d, t) \/ RollbackTable(d, t)
      BY <3>4 DEF CommitTable, RollbackTable
    <3>5. CASE CommitDone(d) \/ RollbackDone(d)
      BY <3>5 DEF CommitDone, RollbackDone, EndTransaction
    <3>6. CASE DtorDone(d) \/ SendReply(d)
      BY <3>6 DEF DtorDone, SendReply, Destroy
    <3> QED
      BY <1>4, <2>1, <3>1, <3>2, <3>3, <3>4, <3>5, <3>6 DEF ServerWorks, Work
  <2> QED
    BY <1>4, <2>2 DEF ServerWorks
<1> QED
  BY <1>1, <1>2, <1>3, <1>4 DEF Server

\* The line depends on the program and the place only.
LEMMA LineSame ==
  ASSUME NEW c, UNCHANGED <<role, flaw, step[c]>>
  PROVE  Line(c)' = Line(c) /\ Current(c)' = Current(c)
BY DEF Line, IsFlawed, Current

\* A connection keeps its place while others move.
LEMMA OtherPlaced ==
  ASSUME NEW c \in Conns, Placed(c), OwnSame(c)
  PROVE  Placed(c)'
BY LineSame DEF Placed, OwnSame, Fresh

\* Nothing is under way for a client that is about to send, or that reads a
\* response.
LEMMA NothingElse ==
  ASSUME TypeInv, ClientTypeInv, QueueInv, process = "running",
         NEW c \in Conns, Placed(c),
         at[c] \in {"start", "send"} \/ responses[c] # << >>
  PROVE  pc[c] \in IdlePCs /\ (requests[c] = << >> \/ ~Fresh(c))
<1>1. /\ Len(requests[c]) \in Nat /\ Len(responses[c]) \in Nat
      /\ requests[c] = << >> <=> Len(requests[c]) = 0
      /\ responses[c] = << >> <=> Len(responses[c]) = 0
  BY SeqFacts DEF ClientTypeInv
<1>2. Serving(c) \in {0, 1} /\ (Serving(c) = 0 <=> pc[c] \in IdlePCs)
  BY DEF Serving
<1>3. CASE ServerGone(c)
  BY <1>3 DEF ServerGone, Fresh, IdlePCs
<1>4. CASE ~ServerGone(c)
  <2>1. /\ Len(requests[c]) + Serving(c) + Len(responses[c]) <= 1
        /\ at[c] \in {"start", "send"} =>
             Len(requests[c]) + Serving(c) + Len(responses[c]) = 0
    BY <1>4 DEF QueueInv, OneUnderWay
  <2>2. Len(requests[c]) = 0 /\ Serving(c) = 0
    BY <1>1, <1>2, <2>1
  <2> QED
    BY <1>1, <1>2, <2>2
<1> QED
  BY <1>3, <1>4

\* A client that ends leaves its connection as it is.
LEMMA EndsPlaced ==
  ASSUME ClientTypeInv, NEW c \in Conns, Placed(c),
         NEW how, NEW unread, Ends(c, how, unread), UNCHANGED step,
         how = "error" => pc[c] \in IdlePCs /\ (requests[c] = << >> \/ ~Fresh(c))
  PROVE  Placed(c)'
<1>1. /\ at'[c] = "done" /\ status'[c] = how
      /\ UNCHANGED <<pc, requests, accepted, resp, role, flaw, step[c]>>
  BY DEF Ends, ClientTypeInv
<1>2. Line(c)' = Line(c)
  BY <1>1, LineSame
<1> QED
  BY <1>1, <1>2 DEF Placed, Fresh

\* While the server runs no client reads at the end of its connection.
LEMMA NoStaleRead ==
  ASSUME process = "running", NEW c \in Conns, Placed(c)
  PROVE  ~ReadNothing(c)
BY DEF ReadNothing, Placed, ServerGone, Fresh, IdlePCs

\* A client's own steps.
LEMMA ClientPlaced ==
  ASSUME TypeInv, ClientTypeInv, QueueInv, process = "running",
         NEW c \in Conns, Placed(c), Client(c) \/ Killed(c)
  PROVE  Placed(c)'
<1>1. CASE Connect(c)
  <2>1. /\ at[c] = "start" /\ at'[c] = "send"
        /\ UNCHANGED <<pc, requests, accepted, resp, role, flaw, step, status>>
    BY <1>1 DEF Connect, ClientTypeInv, vars, net
  <2>2. Line(c)' = Line(c)
    BY <2>1, LineSame
  <2> QED
    BY <2>1, <2>2 DEF Placed, Fresh
<1>2. CASE SendRequest(c)
  <2>1. /\ at[c] = "send" /\ at'[c] \in {"close", "recv"}
        /\ requests'[c] = Append(requests[c], Line(c))
        /\ UNCHANGED <<pc, responses, accepted, resp, role, flaw, step, status>>
    BY <1>2 DEF SendRequest, AfterWrite, ClientTypeInv, vars
  <2>2. Line(c)' = Line(c)
    BY <2>1, LineSame
  <2>3. Fresh(c) /\ Fresh(c)'
    BY <2>1 DEF Placed, Fresh
  <2>4. requests[c] = << >> /\ pc[c] \in IdlePCs
    BY <2>1, <2>3, NothingElse
  <2>5. responses[c] = << >>
    <3>1. ~ServerGone(c)
      BY <2>3 DEF ServerGone, Fresh
    <3>2. Len(requests[c]) + Serving(c) + Len(responses[c]) = 0
      BY <2>1, <3>1 DEF QueueInv, OneUnderWay
    <3>3. Len(requests[c]) \in Nat /\ Serving(c) \in Nat /\ Len(responses[c]) \in Nat
          /\ (responses[c] = << >> <=> Len(responses[c]) = 0)
      BY SeqFacts DEF ClientTypeInv, Serving
    <3> QED
      BY <3>2, <3>3
  <2>6. requests'[c] # << >> /\ Head(requests'[c]) = Line(c)
    BY <2>1, <2>4
  <2>7. status[c] # "error"
    BY <2>1 DEF Placed
  <2> QED
    BY <2>1, <2>2, <2>3, <2>4, <2>5, <2>6, <2>7 DEF Placed, IdlePCs
<1>3. CASE ConnectFails(c) \/ EncodeThrows(c) \/ WriteToReset(c) \/ Finish(c)
           \/ Killed(c)
  BY <1>3, NothingElse, EndsPlaced
     DEF ConnectFails, EncodeThrows, WriteToReset, Finish, Killed, Stays
<1>4. CASE ReadResponse(c)
  <2>1. at[c] = "recv" /\ responses[c] # << >>
    BY <1>4 DEF ReadResponse
  <2>2. pc[c] \in IdlePCs /\ (requests[c] = << >> \/ ~Fresh(c))
    BY <2>1, NothingElse
  <2>3. CASE Head(responses[c]).type = Current(c).want
    <3>1. Current(c).want # "ERROR"
      BY CurrentAsk, AskFields
    <3>2. pc[c] = "read"
      BY <2>1, <2>3, <3>1 DEF Placed
    <3>3. /\ at'[c] = "send"
          /\ UNCHANGED <<pc, requests, accepted, resp, role, flaw, status>>
      BY <1>4, <2>3 DEF ReadResponse, Judge, ClientTypeInv, vars
    <3> QED
      BY <2>1, <2>2, <3>2, <3>3 DEF Placed, Fresh
  <2>4. CASE Head(responses[c]).type # Current(c).want
    BY <1>4, <2>2, <2>4, EndsPlaced DEF ReadResponse, Judge
  <2> QED
    BY <2>3, <2>4
<1>5. ~ReadNothing(c)
  BY NoStaleRead
<1> QED
  BY <1>1, <1>2, <1>3, <1>4, <1>5 DEF Client

\* The thread that takes a request goes to last_reply for BYE and for a line
\* that decode refuses.
LEMMA DispatchLast ==
  ASSUME TypeInv, NEW c \in Conns, NEW m \in Requests, m.type \notin {"DIV", "OTHER"},
         Dispatch(c, m), pc'[c] = "last_reply"
  PROVE  m.type = "BYE" \/ resp'[c] = "ERROR"
<1> USE DEF TypeInv, TypeOK, GoTo, Answer, LastAnswer
<1>1. ~DivisionTrap(c, m)
  BY DEF DivisionTrap, Admitted
<1>2. CASE HandleBye(c, m) \/ InvalidRequest(c, m)
  BY <1>2 DEF HandleBye, Admitted, InvalidRequest
<1>3. CASE ~(HandleBye(c, m) \/ InvalidRequest(c, m))
  BY <1>1, <1>3
     DEF Dispatch, NotLoggedIn, HandleLogin,
         HandlePush, EmptyStack, HandlePop, HandleTop, TooFewOperands,
         BadOperands, HandleArith, HandleBegin, NestedBegin,
         NotInTransaction, HandleCreate, HandleGet, HandleSet, HandleCommit,
         FailTransaction
<1> QED
  BY <1>2, <1>3

\* The types of the lines, and the place of BYE.
LEMMA LineTypes ==
  ASSUME ClientTypeInv, NEW c \in Conns
  PROVE  /\ Line(c).type \notin {"DIV", "OTHER"}
         /\ Line(c) \in Requests
         /\ at[c] = "recv" => Line(c).type # "BYE"
<1>1. Current(c) \in Asks /\ Line(c) \in SafeLines
  BY CurrentAsk
<1>2. at[c] = "recv" => Current(c) # Bye
  <2>1. at[c] = "recv" => step[c] \in 1 .. Len(Program(role[c])) - 1
    BY DEF ClientTypeInv
  <2> QED
    BY <2>1, CurrentAsk
<1>3. \A x \in Asks : x.line.type \notin {"DIV", "OTHER"}
                     /\ (x.line.type = "BYE" => x = Bye)
  BY DEF Asks, Ask, Plain, OnKey, PushOf, Bye
<1> QED
  BY <1>1, <1>2, <1>3 DEF Line, SafeLines

\* While a request is served nothing else is under way.
LEMMA ServedAlone ==
  ASSUME ClientTypeInv, QueueInv, process = "running", NEW c \in Conns,
         pc[c] \notin IdlePCs
  PROVE  /\ requests[c] = << >> /\ responses[c] = << >>
         /\ at[c] \notin {"start", "send"}
<1>1. /\ Len(requests[c]) \in Nat /\ Len(responses[c]) \in Nat
      /\ requests[c] = << >> <=> Len(requests[c]) = 0
      /\ responses[c] = << >> <=> Len(responses[c]) = 0
  BY SeqFacts DEF ClientTypeInv
<1>2. Serving(c) = 1 /\ ~ServerGone(c)
  BY DEF Serving, ServerGone, IdlePCs
<1>3. /\ Len(requests[c]) + Serving(c) + Len(responses[c]) <= 1
      /\ at[c] \in {"start", "send"} =>
           Len(requests[c]) + Serving(c) + Len(responses[c]) = 0
  BY <1>2 DEF QueueInv, OneUnderWay
<1>4. \A x, y \in Nat : x + 1 + y # 0 /\ (x + 1 + y <= 1 => x = 0 /\ y = 0)
  OBVIOUS
<1>5. /\ Len(requests[c]) + 1 + Len(responses[c]) <= 1
      /\ at[c] \in {"start", "send"} =>
           Len(requests[c]) + 1 + Len(responses[c]) = 0
  BY <1>2, <1>3, Zenon
<1> QED
  BY <1>1, <1>4, <1>5, Zenon

\* The response reaches a client that waits for it.
LEMMA ReplyArrives ==
  ASSUME ClientTypeInv, QueueInv, process = "running", NEW c \in Conns,
         ServerWorks(c), SendReply(c)
  PROVE  /\ requests[c] = << >> /\ responses[c] = << >>
         /\ at[c] \notin {"start", "send"}
         /\ at[c] = "recv" => responses'[c] # << >> /\ Head(responses'[c]) = Response(c)
<1>1. pc[c] \in {"reply", "last_reply"}
  BY DEF SendReply, At
<1>2. /\ requests[c] = << >> /\ responses[c] = << >>
      /\ at[c] \notin {"start", "send"}
  BY <1>1, ServedAlone DEF IdlePCs
<1>3. ASSUME at[c] = "recv"
      PROVE  responses'[c] # << >> /\ Head(responses'[c]) = Response(c)
  <2>1. sock[c] = "open"
    BY <1>3 DEF QueueInv, OneUnderWay
  <2>2. responses'[c] = Append(<< >>, Response(c))
    BY <1>1, <1>2, <2>1 DEF ServerWorks, ClientTypeInv
  <2>3. Append(<< >>, Response(c)) # << >>
        /\ Head(Append(<< >>, Response(c))) = Response(c)
    OBVIOUS
  <2> QED
    BY <2>2, <2>3
<1> QED
  BY <1>2, <1>3

\* The thread's steps.
LEMMA ServerPlaced ==
  ASSUME TypeInv, ClientTypeInv, QueueInv, process = "running",
         NEW c \in Conns, Placed(c), Server(c), process' = "running"
  PROVE  Placed(c)'
<1>c. UNCHANGED <<role, flaw, step, at, status>>
  BY DEF Server, AcceptConnection, ReadRequest, ReadEnd, ServerWorks, client, net
<1>l. Line(c)' = Line(c)
  BY <1>c, LineSame
<1>n. ~ResponseTooLong(c) /\ ~BrokenPipe(c)
  BY DEF ResponseTooLong, BrokenPipe, Dies
<1>s. /\ requests[c] \in Seq(SafeLines) /\ responses[c] \in Seq(Replies)
      /\ Len(requests[c]) \in Nat /\ Len(responses[c]) \in Nat
      /\ requests[c] = << >> <=> Len(requests[c]) = 0
      /\ responses[c] = << >> <=> Len(responses[c]) = 0
      /\ requests \in [Conns -> Seq(SafeLines)]
      /\ responses \in [Conns -> Seq(Replies)]
      /\ accepted \in [Conns -> BOOLEAN]
  BY SeqFacts DEF ClientTypeInv
<1>b. pc[c] \notin IdlePCs =>
        requests[c] = << >> /\ responses[c] = << >> /\ at[c] \notin {"start", "send"}
  BY ServedAlone
<1>1. CASE AcceptConnection(c)
  <2>1. /\ pc[c] = "off" /\ ~accepted[c] /\ pc'[c] = "read"
        /\ UNCHANGED <<resp, requests, responses>>
    BY <1>1 DEF AcceptConnection, AcceptClient, TypeInv, TypeOK
  <2> QED
    BY <1>c, <1>l, <2>1 DEF Placed, Fresh, IdlePCs
<1>2. CASE ReadRequest(c)
  <2>1. /\ requests[c] # << >> /\ Dispatch(c, Head(requests[c]))
        /\ requests'[c] = Tail(requests[c]) /\ UNCHANGED <<accepted, responses>>
    BY <1>2, <1>s DEF ReadRequest
  <2>2. pc[c] = "read"
    BY <2>1, <1>s, SeqFacts, DispatchShape DEF SafeLines
  <2>3. Head(requests[c]) = Line(c)
    BY <2>1, <2>2 DEF Placed, Fresh
  <2>4. pc'[c] \notin IdlePCs
    BY <2>1, <2>3, LineTypes, DispatchShape
  <2>5. at[c] = "recv" /\ pc'[c] = "last_reply" => resp'[c] = "ERROR"
    BY <2>1, <2>3, LineTypes, DispatchLast
  <2>6. accepted[c] /\ ~Fresh(c)'
    BY <2>1, <2>2, <2>4 DEF QueueInv, OneUnderWay, Fresh, IdlePCs
  <2>7. Len(requests[c]) > 0 /\ ~ServerGone(c)
    BY <1>s, <2>1, <2>2 DEF ServerGone
  <2>8. Len(responses[c]) = 0 /\ at[c] \notin {"start", "send"}
    <3>1. Serving(c) = 0
      BY <2>2 DEF Serving, IdlePCs
    <3>2. /\ Len(requests[c]) + Serving(c) + Len(responses[c]) <= 1
          /\ at[c] \in {"start", "send"} =>
               Len(requests[c]) + Serving(c) + Len(responses[c]) = 0
      BY <2>7 DEF QueueInv, OneUnderWay
    <3> QED
      BY <1>s, <2>7, <3>1, <3>2
  <2>9. status[c] # "error"
    BY <2>1, <2>2 DEF Placed, Fresh
  <2> QED
    BY <1>c, <1>l, <1>s, <2>1, <2>4, <2>5, <2>6, <2>8, <2>9 DEF Placed
<1>3. CASE ReadEnd(c)
  <2>1. /\ pc[c] = "read" /\ sock[c] # "open" /\ pc'[c] = "dtor"
        /\ UNCHANGED <<resp, requests, responses, accepted>>
    BY <1>3 DEF ReadEnd, ReadEOF, Destroy, GoTo, At, net, TypeInv, TypeOK
  <2>2. at[c] = "done" /\ accepted[c]
    BY <2>1 DEF QueueInv, OneUnderWay
  <2> QED
    BY <1>c, <1>l, <2>1, <2>2 DEF Placed, Fresh, IdlePCs
<1>4. CASE ServerWorks(c)
  <2>1. /\ UNCHANGED <<requests, accepted>> /\ Work(c)
        /\ pc[c] \notin {"reply", "last_reply"} \/ sock[c] # "open" =>
             responses' = responses
        /\ pc[c] \in {"reply", "last_reply"} /\ sock[c] = "open" =>
             responses'[c] = Append(responses[c], Response(c))
    BY <1>4, <1>s DEF ServerWorks
  <2>2. Serves(c) \/ Destroys(c) \/ SendReply(c)
    BY <1>n, <2>1, WorkShape
  <2>3. CASE SendReply(c)
    <3>1. /\ pc[c] \in {"reply", "last_reply"}
          /\ pc[c] = "reply" => pc'[c] = "read"
          /\ pc[c] = "last_reply" => pc'[c] = "dtor"
      BY <2>3 DEF SendReply, Destroy, GoTo, At, TypeInv, TypeOK
    <3>2. /\ requests[c] = << >> /\ responses[c] = << >>
          /\ at[c] \notin {"start", "send"}
          /\ at[c] = "recv" => responses'[c] # << >> /\ Head(responses'[c]) = Response(c)
      BY <1>4, <2>3, ReplyArrives
    <3>3. at[c] = "recv" =>
            responses'[c] # << >> /\ Head(responses'[c]).type = resp[c]
      BY <3>2 DEF Response
    <3>5. at[c] = "recv" /\ pc[c] = "last_reply" => resp[c] = "ERROR"
      BY DEF Placed
    <3>6. status[c] # "error"
      BY <3>1 DEF Placed, IdlePCs
    <3> QED
      BY <1>c, <1>l, <2>1, <3>1, <3>2, <3>3, <3>5, <3>6 DEF Placed, IdlePCs
  <2>4. CASE Serves(c)
    <3>1. /\ pc[c] \notin IdlePCs /\ pc'[c] \notin IdlePCs
      BY <2>4 DEF Serves
    <3>2. pc'[c] # "last_reply" /\ pc[c] \notin {"reply", "last_reply"}
      <4> USE DEF GoTo, Answer, At, TypeInv, TypeOK, IdlePCs
      <4>1. CASE LockRegistry(c) \/ CreateTable(c) \/ FindTable(c)
        BY <4>1 DEF LockRegistry, CreateTable, FindTable, LockStep
      <4>2. CASE TryLock(c) \/ TryLockFails(c) \/ LockTable(c) \/ UnlockTable(c)
        BY <4>2 DEF TryLock, TryLockFails, LockTable, UnlockTable, FailTransaction
      <4>3. CASE GetAccess(c) \/ SetAccess(c)
        BY <4>3 DEF GetAccess, SetAccess, Leave
      <4>4. CASE \E t \in Tables : CommitTable(c, t) \/ RollbackTable(c, t)
        BY <4>4 DEF CommitTable, RollbackTable
      <4>5. CASE CommitDone(c) \/ RollbackDone(c)
        BY <4>5 DEF CommitDone, RollbackDone
      <4>6. CASE DtorDone(c) \/ SendReply(c)
        BY <3>1, <4>6 DEF DtorDone, SendReply, Destroy
      <4> QED
        BY <1>n, <2>1, <4>1, <4>2, <4>3, <4>4, <4>5, <4>6 DEF Work
    <3>3. requests[c] = << >> /\ responses' = responses /\ at[c] \notin {"start", "send"}
          /\ responses[c] = << >>
      BY <1>b, <2>1, <3>1, <3>2
    <3>4. status[c] # "error"
      BY <3>1 DEF Placed
    <3> QED
      BY <1>c, <1>l, <2>1, <3>1, <3>2, <3>3, <3>4 DEF Placed
  <2>5. CASE Destroys(c)
    <3>1. /\ pc[c] = "dtor" /\ pc'[c] \in {"dtor", "off"}
      BY <2>5 DEF Destroys
    <3>2. accepted[c] /\ ~Fresh(c) /\ ~Fresh(c)' /\ responses' = responses
      BY <2>1, <3>1 DEF QueueInv, OneUnderWay, Fresh
    <3> QED
      BY <1>c, <1>l, <2>1, <3>1, <3>2 DEF Placed, IdlePCs
  <2> QED
    BY <2>2, <2>3, <2>4, <2>5
<1> QED
  BY <1>1, <1>2, <1>3, <1>4 DEF Server

\* A step that leaves the process running is of one client or of its thread.
LEMMA RunningStep ==
  ASSUME ClientTypeInv, [CNext]_cvars, process' = "running"
  PROVE  /\ process = "running"
         /\ \/ \E c \in Conns : Client(c) \/ Killed(c) \/ Server(c)
            \/ UNCHANGED cvars
<1>1. ~ServerExits
  BY DEF ServerExits, AcceptError, Dies
<1>2. ASSUME NEW c \in Conns, Client(c) \/ Killed(c) PROVE process = "running"
  BY <1>2, ClientSide DEF PeerGone
<1>3. ASSUME NEW c \in Conns, Server(c) PROVE process = "running"
  <2>1. CASE ReadRequest(c)
    BY <2>1 DEF ReadRequest, Dispatch, NotLoggedIn, InvalidRequest, HandleLogin,
       HandleBye, HandlePush, EmptyStack, HandlePop, HandleTop, TooFewOperands,
       BadOperands, HandleArith, DivisionTrap, HandleBegin, NestedBegin,
       NotInTransaction, HandleCreate, HandleGet, HandleSet, HandleCommit,
       Admitted, Receives, At
  <2>2. CASE AcceptConnection(c) \/ ReadEnd(c) \/ ServerWorks(c)
    BY <2>2, GoesOn DEF AcceptConnection, ReadEnd, ServerWorks
  <2> QED
    BY <1>3, <2>1, <2>2 DEF Server
<1> QED
  BY <1>1, <1>2, <1>3 DEF CNext, AllDone, cvars, vars

\* Every client keeps to its place.
LEMMA NextPlace ==
  ASSUME TypeInv, ClientTypeInv, QueueInv, PlaceInv, [CNext]_cvars
  PROVE  PlaceInv'
<1> SUFFICES ASSUME process' = "running" PROVE \A c \in Conns : Placed(c)'
  BY DEF PlaceInv
<1>1. process = "running" /\ \A c \in Conns : Placed(c)
  BY RunningStep DEF PlaceInv
<1>2. ASSUME NEW d \in Conns, Client(d) \/ Killed(d) \/ Server(d), NEW c \in Conns
      PROVE  Placed(c)'
  <2>1. CASE c = d
    BY <1>1, <1>2, <2>1, ClientPlaced, ServerPlaced
  <2>2. CASE c # d
    BY <1>1, <1>2, <2>2, StepOfOne, OtherPlaced
  <2> QED
    BY <2>1, <2>2
<1>3. ASSUME UNCHANGED cvars, NEW c \in Conns PROVE Placed(c)'
  <2>1. OwnSame(c)
    BY <1>3 DEF cvars, vars, client, net, session, OwnSame
  <2> QED
    BY <1>1, <2>1, OtherPlaced
<1> QED
  BY <1>2, <1>3, RunningStep

\* Clients end with status 0 at their BYE only.
LEMMA NextEnd ==
  ASSUME ClientTypeInv, EndInv, [CNext]_cvars
  PROVE  EndInv'
<1>1. ASSUME NEW c \in Conns, Client(c) \/ Killed(c) PROVE EndInv'
  <2> USE DEF ClientTypeInv
  <2>1. ASSUME NEW how, NEW unread, Ends(c, how, unread), UNCHANGED step,
               how = "ok" => at[c] = "close"
        PROVE  EndInv'
    BY <2>1 DEF EndInv, Ends
  <2>2. ASSUME NEW line, NEW unread, Judge(c, line, unread), at[c] = "recv"
        PROVE  EndInv'
    <3>1. CASE line.type = Current(c).want
      <4>1. /\ at' = [at EXCEPT ![c] = "send"] /\ UNCHANGED <<role, status>>
            /\ step' = [step EXCEPT ![c] = @ + 1]
        BY <2>2, <3>1 DEF Judge
      <4>2. status[c] = "ok" => step[c] = Len(Program(role[c]))
        BY DEF EndInv
      <4>3. status[c] # "ok"
        <5>1. step[c] \in 1 .. Len(Program(role[c])) - 1
          BY <2>2
        <5>2. Len(Program(role[c])) \in Nat
          BY CurrentAsk
        <5> QED
          BY <4>2, <5>1, <5>2
      <4>4. \A d \in Conns \ {c} : at'[d] = at[d] /\ step'[d] = step[d]
        BY <4>1
      <4>5. at'[c] = "send"
        BY <4>1
      <4> QED
        BY <4>1, <4>3, <4>4, <4>5 DEF EndInv
    <3>2. CASE line.type # Current(c).want
      BY <2>1, <2>2, <3>2 DEF Judge
    <3> QED
      BY <3>1, <3>2
  <2>3. CASE Connect(c)
    BY <2>3 DEF Connect, EndInv
  <2>4. CASE SendRequest(c)
    <3>1. Current(c) = Bye => step[c] = Len(Program(role[c]))
      BY CurrentAsk
    <3> QED
      BY <2>4, <3>1 DEF SendRequest, AfterWrite, EndInv
  <2>5. CASE ConnectFails(c) \/ EncodeThrows(c) \/ WriteToReset(c) \/ Finish(c)
             \/ Killed(c)
    BY <2>1, <2>5
       DEF ConnectFails, EncodeThrows, WriteToReset, Finish, Killed, Stays
  <2>6. CASE ReadResponse(c) \/ ReadNothing(c)
    BY <2>2, <2>6 DEF ReadResponse, ReadNothing
  <2> QED
    BY <1>1, <2>3, <2>4, <2>5, <2>6 DEF Client
<1>2. CASE UNCHANGED client
  BY <1>2 DEF client, EndInv
<1> QED
  BY <1>1, <1>2 DEF CNext, Server, AcceptConnection, ReadRequest, ReadEnd,
     ServerWorks, ServerExits, AllDone, cvars

-----------------------------------------------------------------------------
(***************************************************************************)
(* The steps of the others.                                                *)
(***************************************************************************)

\* What the session of c knows of table T.
TableSame == UNCHANGED <<key_value[T], key_value_temp[T], table_mutex[T]>>

\* A session, and T while it has it, stay as they are.
LEMMA ReadySame ==
  ASSUME NEW c, NEW n, NEW S, NEW S2, c \in S2 <=> c \in S, Ready(c, n, S),
         UNCHANGED <<m_in_transaction[c], locked_tables[c], m_stack[c]>>,
         table_mutex[T] = c => TableSame
  PROVE  Ready(c, n, S2)'
BY DEF Ready, HasT, NextOf, Stored, TableSame

\* The same for a thread in the middle of a request.
LEMMA BusySame ==
  ASSUME NEW c, NEW n \in 1 .. 8, NEW S, NEW S2, c \in S2 <=> c \in S,
         Busy(c, n, S),
         UNCHANGED <<pc[c], m_in_transaction[c], locked_tables[c], m_stack[c],
                     req[c], value[c], resp[c], rest[c]>>,
         table_mutex[T] = c => TableSame
  PROVE  Busy(c, n, S2)'
<1>1. pc[c] = "reply" /\ resp[c] = "OK" => Ready(c, n + 1, S2)'
  BY ReadySame DEF Busy
<1>2. (Getting(c) => Getting(c)') /\ (Setting(c) => Setting(c)')
  BY DEF Getting, Setting, HasT, NextOf, Stored, TableSame
<1>3. pc[c] = "commit" /\ T \in rest[c] =>
        table_mutex'[T] = c /\ NextOf(key_value_temp[T][K])'
  BY DEF Busy, NextOf, Stored, TableSame
<1> QED
  BY <1>1, <1>2, <1>3 DEF Busy

\* A client is not disturbed by what others do, nor by their COMMITs.
LEMMA OtherUpdates ==
  ASSUME NEW c \in Conns, NEW S, NEW S2, c \in S2 <=> c \in S, Updates(c, S),
         OwnSame(c), table_mutex[T] = c => TableSame
  PROVE  Updates(c, S2)'
<1> SUFFICES ASSUME NEW n \in 1 .. 8, step'[c] = n PROVE AtRequest(c, n, S2)'
  BY DEF Updates
<1>1. AtRequest(c, n, S)
  BY DEF Updates, OwnSame
<1>2. \A k : Ready(c, k, S) => Ready(c, k, S2)'
  BY ReadySame DEF OwnSame
<1>3. Busy(c, n, S) => Busy(c, n, S2)'
  BY BusySame DEF OwnSame
<1> QED
  BY <1>1, <1>2, <1>3 DEF AtRequest, OwnSame, Fresh

\* The tables are left alone by clients and by the first steps of the handlers.
LEMMA ClientTable ==
  ASSUME NEW d \in Conns, \/ Client(d) \/ Killed(d) \/ AcceptConnection(d)
                          \/ ReadEnd(d) \/ ReadRequest(d),
         process' = "running"
  PROVE  UNCHANGED tables
<1>1. CASE Client(d) \/ Killed(d)
  BY <1>1, ClientSide DEF PeerGone
<1>2. CASE AcceptConnection(d) \/ ReadEnd(d)
  BY <1>2 DEF AcceptConnection, AcceptClient, ReadEnd, ReadEOF
<1>3. CASE ReadRequest(d)
  <2>1. PICK m : Dispatch(d, m)
    BY <1>3 DEF ReadRequest
  <2>2. ~DivisionTrap(d, m)
    BY DEF DivisionTrap, Dies
  <2> QED
    BY <2>1, <2>2
       DEF Dispatch, NotLoggedIn, InvalidRequest, HandleLogin, HandleBye,
           HandlePush, EmptyStack, HandlePop, HandleTop, TooFewOperands,
           BadOperands, HandleArith, HandleBegin, NestedBegin,
           NotInTransaction, HandleCreate, HandleGet, HandleSet, HandleCommit,
           tables
<1> QED
  BY <1>1, <1>2, <1>3

\* A thread changes only a table whose mutex it has or takes.
LEMMA WorkTable ==
  ASSUME TypeInv, LockInv, ClientTypeInv, NEW d \in Conns, Work(d),
         process' = "running", table_mutex[T] \notin {d, Nobody}
  PROVE  TableSame
<1> USE DEF TypeInv, TypeOK, tables, TableSame
<1>t. T \in Tables
  BY ClientsAssumption
<1>r. pc[d] \in AccessPCs => req[d].table = T
  BY DEF RequestInv, ClientTypeInv
<1>1. CASE TryLock(d) \/ LockTable(d)
  BY <1>1, <1>r DEF TryLock, LockTable, Free, At, AccessPCs
<1>2. CASE SetAccess(d) \/ UnlockTable(d)
  <2>1. pc[d] \in {"access", "unlock"} /\ req[d].table = T
    BY <1>2, <1>r DEF SetAccess, UnlockTable, At, AccessPCs
  <2>2. T \in Held(d)
    BY <2>1 DEF LockInv, TxnInv, Held, LoopPCs
  <2> QED
    BY <1>t, <2>2 DEF LockInv, MutexInv
<1>3. ASSUME NEW t \in Tables, CommitTable(d, t) \/ RollbackTable(d, t)
      PROVE  TableSame
  <2>1. t \in Held(d)
    BY <1>3 DEF CommitTable, RollbackTable, At, Held, LoopPCs
  <2>2. t # T
    BY <2>1 DEF LockInv, MutexInv
  <2> QED
    BY <1>t, <1>3, <2>2 DEF CommitTable, RollbackTable
<1>4. ~ResponseTooLong(d) /\ ~BrokenPipe(d)
  BY DEF ResponseTooLong, BrokenPipe, Dies
<1>5. CASE \/ LockRegistry(d) \/ CreateTable(d) \/ FindTable(d) \/ TryLockFails(d)
           \/ GetAccess(d) \/ CommitDone(d) \/ RollbackDone(d) \/ DtorDone(d)
           \/ SendReply(d)
  BY <1>5 DEF LockRegistry, CreateTable, FindTable, TryLockFails, GetAccess,
     CommitDone, RollbackDone, EndTransaction, DtorDone, SendReply
<1> QED
  BY <1>1, <1>2, <1>3, <1>4, <1>5 DEF Work

\* Both: while c has T no step of another changes it.
LEMMA TableKept ==
  ASSUME TypeInv, LockInv, ClientTypeInv, NEW d \in Conns, NEW c \in Conns \ {d},
         Client(d) \/ Killed(d) \/ Server(d), process' = "running",
         table_mutex[T] = c
  PROVE  TableSame
<1>1. CASE ServerWorks(d)
  <2>1. c \notin {d, Nobody}
    BY KVAssumption
  <2> QED
    BY <1>1, <2>1, WorkTable DEF ServerWorks
<1>2. CASE ~ServerWorks(d)
  BY <1>2, ClientTable DEF Server, tables, TableSame
<1> QED
  BY <1>1, <1>2

-----------------------------------------------------------------------------
(***************************************************************************)
(* The client's own steps.                                                 *)
(***************************************************************************)

\* Where an incr_value -t can be, and what it waits for.
LEMMA IncrTPlace ==
  ASSUME ClientTypeInv, NEW c \in Conns, role[c] = "incr_t"
  PROVE  /\ step[c] \in 1 .. 8
         /\ at[c] = "recv" => step[c] \in 1 .. 7 /\ Current(c).want = "OK"
         /\ step[c] = 8 => Current(c) = Bye
<1>1. Len(Program(role[c])) = 8
  BY IncrTProgram
<1>2. step[c] \in 1 .. 8 /\ (at[c] = "recv" => step[c] \in 1 .. 7)
  <2>1. /\ step[c] \in 1 .. Len(Program(role[c]))
        /\ at[c] = "recv" => step[c] \in 1 .. Len(Program(role[c])) - 1
    BY DEF ClientTypeInv
  <2>2. 8 - 1 = 7
    OBVIOUS
  <2> QED
    BY <1>1, <2>1, <2>2, Zenon
<1>3. \A i \in 1 .. 7 : Program("incr_t")[i].want = "OK"
  BY IncrTProgram DEF Plain, OnKey, PushOf, Ask
<1>4. Program("incr_t")[8] = Bye
  BY IncrTProgram
<1> QED
  BY <1>2, <1>3, <1>4 DEF Current

\* BYE carries no argument of the command line.
LEMMA ByeUnflawed ==
  ASSUME ClientTypeInv, NEW c \in Conns, Current(c) = Bye, NEW what \in {"invalid", "long"}
  PROVE  ~IsFlawed(c, what)
<1>1. Arg(Current(c).line.type) = "nothing"
  BY DEF Arg, Bye, Ask
<1>2. flaw[c] \in SetFlaws
  BY DEF ClientTypeInv
<1>3. flaw[c].what \in {"invalid", "long"} => flaw[c].arg \in {"user", "name", "value"}
  BY <1>2 DEF SetFlaws, NoFlaw
<1> QED
  BY <1>1, <1>3 DEF IsFlawed

\* Nothing is under way, or unread, for a client about to send.
LEMMA AboutToSend ==
  ASSUME TypeInv, ClientTypeInv, QueueInv, process = "running",
         NEW c \in Conns, Placed(c), at[c] \in {"start", "send"}
  PROVE  /\ Fresh(c) /\ pc[c] \in IdlePCs
         /\ requests[c] = << >> /\ responses[c] = << >>
<1>1. Fresh(c)
  BY DEF Placed
<1>2. ~ServerGone(c)
  BY <1>1 DEF ServerGone, Fresh
<1>3. Len(requests[c]) + Serving(c) + Len(responses[c]) = 0
  BY <1>2 DEF QueueInv, OneUnderWay
<1>4. /\ Len(requests[c]) \in Nat /\ Serving(c) \in Nat /\ Len(responses[c]) \in Nat
      /\ (requests[c] = << >> <=> Len(requests[c]) = 0)
      /\ (responses[c] = << >> <=> Len(responses[c]) = 0)
  BY SeqFacts DEF ClientTypeInv, Serving
<1> QED
  BY <1>1, <1>3, <1>4, NothingElse

\* The server's side does not change with the client's steps.
LEMMA ClientReady ==
  ASSUME NEW c \in Conns, Client(c) \/ Killed(c), NEW S
  PROVE  /\ \A k : Ready(c, k, S) => Ready(c, k, S)'
         /\ \A k \in 1 .. 8 : Busy(c, k, S) => Busy(c, k, S)'
<1>1. PeerGone(c)
  BY ClientSide
<1>2. /\ UNCHANGED <<m_in_transaction[c], locked_tables[c], m_stack[c], pc[c],
                     req[c], value[c], resp[c], rest[c]>>
      /\ TableSame
  BY <1>1 DEF PeerGone, TableSame, tables, session
<1>3. \A k : Ready(c, k, S) => Ready(c, k, S)'
  BY <1>2, ReadySame
<1>4. \A k \in 1 .. 8 : Busy(c, k, S) => Busy(c, k, S)'
  BY <1>2, BusySame
<1> QED
  BY <1>3, <1>4

\* A client that ends: with an error only when its COMMIT is not done.
LEMMA EndsUpdates ==
  ASSUME ClientTypeInv, NEW c \in Conns, Client(c) \/ Killed(c),
         NEW S, NEW n \in 1 .. 8, AtRequest(c, n, S),
         NEW how, NEW unread, Ends(c, how, unread), how = "error" => c \notin S
  PROVE  AtRequest(c, n, S)'
<1>1. /\ at'[c] = "done" /\ status'[c] = how
      /\ UNCHANGED <<pc, requests, accepted>>
  BY DEF Ends, ClientTypeInv
<1>2. /\ Ready(c, n, S) => Ready(c, n, S)'
      /\ Busy(c, n, S) => Busy(c, n, S)'
  BY ClientReady
<1> QED
  BY <1>1, <1>2 DEF AtRequest, Fresh

\* A client keeps to its transaction.
LEMMA ClientUpdates ==
  ASSUME TypeInv, ClientTypeInv, QueueInv, process = "running",
         NEW c \in Conns, Placed(c), role[c] = "incr_t", NEW S, Updates(c, S),
         Client(c) \/ Killed(c)
  PROVE  Updates(c, S)'
<1>n. PICK n \in 1 .. 8 : step[c] = n
  BY IncrTPlace
<1>a. AtRequest(c, n, S)
  BY <1>n DEF Updates
<1>r. /\ \A k : Ready(c, k, S) => Ready(c, k, S)'
      /\ Busy(c, n, S) => Busy(c, n, S)'
  BY ClientReady
<1>s. PeerGone(c)
  BY ClientSide
<1>q. ASSUME AtRequest(c, n, S)', step'[c] = n PROVE Updates(c, S)'
  BY <1>q DEF Updates
<1>1. CASE Connect(c)
  <2>1. /\ at[c] = "start" /\ at'[c] = "send"
        /\ UNCHANGED <<pc, requests, accepted, step, status>>
    BY <1>1 DEF Connect, ClientTypeInv, vars, net
  <2>2. AtRequest(c, n, S)'
    BY <1>a, <1>r, <2>1 DEF AtRequest, Fresh
  <2> QED
    BY <1>n, <1>q, <2>1, <2>2
<1>2. CASE SendRequest(c)
  <2>1. /\ at[c] = "send" /\ at'[c] \in {"close", "recv"}
        /\ UNCHANGED <<pc, responses, accepted, step, status>>
    BY <1>2 DEF SendRequest, AfterWrite, ClientTypeInv, vars
  <2>2. responses[c] = << >>
    BY <2>1, AboutToSend
  <2>3. AtRequest(c, n, S)'
    BY <1>a, <1>r, <2>1, <2>2 DEF AtRequest, Fresh
  <2> QED
    BY <1>n, <1>q, <2>1, <2>3
<1>3. CASE ConnectFails(c) \/ EncodeThrows(c)
  <2>1. step' = step /\ at[c] \in {"start", "send"}
        /\ (at[c] = "send" => IsFlawed(c, "long"))
        /\ \E unread : Ends(c, "error", unread)
    BY <1>3 DEF ConnectFails, EncodeThrows, Stays
  <2>2. n # 8
    <3>1. at[c] = "start" => n = 1
      BY <1>a DEF AtRequest
    <3>2. at[c] = "send" => Current(c) # Bye
      BY <2>1, ByeUnflawed
    <3> QED
      BY <1>n, <2>1, <3>1, <3>2, IncrTPlace
  <2>3. c \notin S
    BY <1>a, <2>1, <2>2 DEF AtRequest, Ready
  <2> QED
    BY <1>n, <1>a, <1>q, <2>1, <2>3, EndsUpdates
<1>4. CASE WriteToReset(c) \/ Finish(c) \/ Killed(c)
  <2>1. /\ step' = step
        /\ \E how \in {"SIGPIPE", "ok", "killed"} : \E unread : Ends(c, how, unread)
    BY <1>4 DEF WriteToReset, Finish, Killed, Stays
  <2> QED
    BY <1>n, <1>a, <1>q, <2>1, EndsUpdates
<1>5. CASE ReadResponse(c)
  <2>1. at[c] = "recv" /\ responses[c] # << >>
    BY <1>5 DEF ReadResponse
  <2>2. n \in 1 .. 7 /\ Current(c).want = "OK"
    BY <1>n, <2>1, IncrTPlace
  <2>3. CASE Head(responses[c]).type = "OK"
    <3>1. /\ at'[c] = "send" /\ step'[c] = n + 1
          /\ UNCHANGED <<pc, requests, accepted, status>>
      BY <1>5, <1>n, <2>2, <2>3 DEF ReadResponse, Judge, ClientTypeInv, vars
    <3>2. Ready(c, n + 1, S) /\ Ready(c, n + 1, S)'
      BY <1>a, <1>r, <2>1, <2>3 DEF AtRequest
    <3>3. pc[c] \in IdlePCs
      BY <2>1, NothingElse
    <3>4. c \in S <=> n + 1 = 8
      BY <3>2 DEF Ready
    <3>5. status[c] # "error"
      BY <2>1 DEF Placed
    <3>6. AtRequest(c, n + 1, S)'
      BY <2>2, <3>1, <3>2, <3>3, <3>4, <3>5 DEF AtRequest
    <3> QED
      BY <3>1, <3>6 DEF Updates
  <2>4. CASE Head(responses[c]).type # "OK"
    <3>1. c \notin S
      BY <1>a, <2>1, <2>4 DEF AtRequest
    <3>2. step' = step /\ \E unread : Ends(c, "error", unread)
      BY <1>5, <2>2, <2>4 DEF ReadResponse, Judge
    <3> QED
      BY <1>n, <1>a, <1>q, <3>1, <3>2, EndsUpdates
  <2> QED
    BY <2>3, <2>4
<1>6. ~ReadNothing(c)
  BY NoStaleRead
<1> QED
  BY <1>1, <1>2, <1>3, <1>4, <1>5, <1>6 DEF Client

-----------------------------------------------------------------------------
(***************************************************************************)
(* The thread's steps: taking a request.                                   *)
(***************************************************************************)

\* The requests of incr_value -t.
LEMMA IncrTLines ==
  ASSUME NEW n \in 1 .. 8, NEW m, m = Program("incr_t")[n].line
  PROVE  /\ n = 1 => m.type = "LOGIN"
         /\ n = 2 => m.type = "BEGIN"
         /\ n = 3 => m.type = "GET"
         /\ n = 4 => m.type = "PUSH" /\ m.value = One
         /\ n = 5 => m.type = "ADD"
         /\ n = 6 => m.type = "SET"
         /\ n = 7 => m.type = "COMMIT"
         /\ n = 8 => m.type = "BYE"
BY IncrTProgram DEF Plain, OnKey, PushOf, Bye, Ask

\* PUSH onto one operand.
LEMMA PushSecond ==
  ASSUME NEW s \in Seq(Vals), Len(s) = 1, NEW v \in Vals
  PROVE  Len(Push(s, v)) = 2 /\ Push(s, v)[1] = s[1] /\ Push(s, v)[2] = v
<1>1. /\ Len(Append(s, v)) = Len(s) + 1 /\ Append(s, v)[Len(s) + 1] = v
      /\ \A i \in 1 .. Len(s) : Append(s, v)[i] = s[i]
  OBVIOUS
<1>2. 1 + 1 = 2 /\ 1 \in 1 .. 1
  OBVIOUS
<1> QED
  BY <1>1, <1>2, Zenon DEF Push

\* ADD on two operands.
LEMMA TwoToOne ==
  ASSUME NEW s \in Seq(Vals), Len(s) = 2, NEW v \in Vals
  PROVE  /\ GetTop(s) = s[2] /\ GetTop(Pop(s)) = s[1]
         /\ Len(Push(Pop(Pop(s)), v)) = 1 /\ Push(Pop(Pop(s)), v)[1] = v
<1>1. 2 >= 2 /\ 2 - 1 = 1
  OBVIOUS
<1>2. /\ GetTop(s) = s[Len(s)] /\ GetTop(Pop(s)) = s[Len(s) - 1]
      /\ Len(Push(Pop(Pop(s)), v)) = Len(s) - 1
      /\ Push(Pop(Pop(s)), v)[Len(s) - 1] = v
  BY <1>1, StackTwo, Zenon
<1> QED
  BY <1>1, <1>2, Zenon

\* What the thread makes of the next request of a transaction.
LEMMA DispatchBusy ==
  ASSUME TypeInv, NEW c \in Conns, NEW S, NEW n \in 1 .. 8, Ready(c, n, S),
         NEW m \in Requests,
         m.type = "GARBAGE" \/ m = Program("incr_t")[n].line,
         Dispatch(c, m), Stored \in DOMAIN Stoi,
         n = 5 => Stoi[Stored] + 1 \in Ints
  PROVE  Busy(c, n, S)'
<1> USE DEF TypeInv, TypeOK, GoTo, Answer, LastAnswer, session
<1>m. m.type # "GARBAGE" =>
         /\ n = 1 => m.type = "LOGIN"
         /\ n = 2 => m.type = "BEGIN"
         /\ n = 3 => m.type = "GET"
         /\ n = 4 => m.type = "PUSH" /\ m.value = One
         /\ n = 5 => m.type = "ADD"
         /\ n = 6 => m.type = "SET"
         /\ n = 7 => m.type = "COMMIT"
         /\ n = 8 => m.type = "BYE"
  BY IncrTLines
<1>t. /\ m.type = "LOGIN" => n = 1
      /\ m.type = "BEGIN" => n = 2
      /\ m.type = "GET" => n = 3
      /\ m.type = "PUSH" => n = 4 /\ m.value = One
      /\ m.type = "ADD" => n = 5
      /\ m.type = "SET" => n = 6
      /\ m.type = "COMMIT" => n = 7
      /\ m.type = "BYE" => n = 8
      /\ m.type \in {"LOGIN", "BEGIN", "GET", "PUSH", "ADD", "SET", "COMMIT",
                     "BYE", "GARBAGE"}
      /\ n = 8 => m.type \in {"BYE", "GARBAGE"}
  BY <1>m
<1>s. c \in S <=> n = 8
  BY DEF Ready
<1>k. m_stack[c] \in Seq(Vals) /\ Len(m_stack[c]) \in Nat
  BY LenProperties
\* Requests that are refused.
<1>f. ASSUME pc'[c] = "reply", resp'[c] = "FAILED", m.type \notin {"BYE", "GARBAGE"}
      PROVE  Busy(c, n, S)'
  BY <1>f, <1>t, <1>s DEF Busy
\* Requests that are answered OK at once.
<1>o. ASSUME pc'[c] = "reply", n < 8, resp'[c] = "OK" => Ready(c, n + 1, S)'
      PROVE  Busy(c, n, S)'
  <2>1. CASE resp'[c] = "OK"
    BY <1>o, <2>1 DEF Busy
  <2>2. CASE resp'[c] # "OK"
    BY <1>o, <2>2, <1>s DEF Busy
  <2> QED
    BY <2>1, <2>2
<1>1. CASE NotLoggedIn(c, m) \/ EmptyStack(c, m) \/ TooFewOperands(c, m)
           \/ BadOperands(c, m) \/ NotInTransaction(c, m)
  <2>1. /\ pc'[c] = "reply" /\ resp'[c] = "FAILED"
        /\ m.type \notin {"BYE", "GARBAGE"}
    BY <1>1 DEF NotLoggedIn, EmptyStack, TooFewOperands, BadOperands, ArithOps,
                NotInTransaction, Admitted
  <2> QED
    BY <2>1, <1>f
<1>2. CASE InvalidRequest(c, m) \/ HandleBye(c, m)
  <2>1. pc'[c] = "last_reply"
    BY <1>2 DEF InvalidRequest, HandleBye
  <2> QED
    BY <2>1, <1>s DEF Busy
<1>3. CASE HandleLogin(c, m)
  <2>1. /\ n = 1 /\ pc'[c] = "reply"
        /\ UNCHANGED <<m_in_transaction, locked_tables, m_stack>>
    BY <1>3, <1>t DEF HandleLogin, Admitted
  <2>2. Ready(c, 2, S)'
    BY <2>1 DEF Ready
  <2> QED
    BY <2>1, <2>2, <1>o
<1>4. CASE HandlePush(c, m)
  <2>1. /\ n = 4 /\ pc'[c] = "reply"
        /\ m_stack'[c] = Push(m_stack[c], One)
        /\ UNCHANGED <<m_in_transaction, locked_tables, tables>>
    BY <1>4, <1>t DEF HandlePush, Admitted
  <2>2. One \in Vals
    BY ClientsAssumption, StoiAssumption
  <2>3. Len(m_stack'[c]) = 2 /\ m_stack'[c][1] = m_stack[c][1]
        /\ m_stack'[c][2] = One
    <3>1. Len(m_stack[c]) = 1
      BY <2>1 DEF Ready
    <3> QED
      BY <1>k, <2>1, <2>2, <3>1, PushSecond
  <2>4. Ready(c, 5, S)'
    BY <2>1, <2>3 DEF Ready, HasT, Stored, tables
  <2> QED
    BY <2>1, <2>4, <1>o
<1>5. CASE HandleArith(c, m)
  <2>1. /\ n = 5 /\ pc'[c] = "reply" /\ m.type = "ADD"
        /\ m_stack'[c] = Push(Pop(Pop(m_stack[c])),
             ToStr[Result("ADD", Stoi[Left(c)], Stoi[Right(c)])])
        /\ UNCHANGED <<m_in_transaction, locked_tables, tables>>
    BY <1>5, <1>t DEF HandleArith, Admitted, ArithOps
  <2>2. Len(m_stack[c]) = 2 /\ m_stack[c][1] = Stored /\ m_stack[c][2] = One
    BY <2>1 DEF Ready
  <2> DEFINE v == ToStr[Result("ADD", Stoi[Left(c)], Stoi[Right(c)])]
  <2>3. Left(c) = Stored /\ Right(c) = One
    <3>1. One \in Vals
      BY ClientsAssumption, StoiAssumption
    <3>2. /\ GetTop(m_stack[c]) = m_stack[c][2]
          /\ GetTop(Pop(m_stack[c])) = m_stack[c][1]
      BY <1>k, <2>2, <3>1, TwoToOne
    <3> QED
      BY <2>2, <3>2 DEF Left, Right
  <2>4. Result("ADD", Stoi[Left(c)], Stoi[Right(c)]) = Stoi[Stored] + 1
    <3>1. Stoi[Stored] + 1 \in Ints
      BY <2>1
    <3>2. Wrap(Stoi[Stored] + 1) = Stoi[Stored] + 1
      BY <3>1, WrapInRange
    <3>3. Result("ADD", Stoi[Stored], 1) = Wrap(Stoi[Stored] + 1)
      BY DEF Result
    <3> QED
      BY <2>3, <3>2, <3>3, ClientsAssumption
  <2>5. v \in DOMAIN Stoi /\ Stoi[v] = Stoi[Stored] + 1 /\ v \in Vals
    BY <2>1, <2>4, ToStrAssumption
  <2>6. Len(m_stack'[c]) = 1 /\ m_stack'[c][1] = v
    <3>1. /\ Len(Push(Pop(Pop(m_stack[c])), v)) = 1
          /\ Push(Pop(Pop(m_stack[c])), v)[1] = v
      BY <1>k, <2>2, <2>5, TwoToOne
    <3> QED
      BY <2>1, <2>2, <3>1
  <2>7. Ready(c, 6, S)'
    BY <2>1, <2>5, <2>6 DEF Ready, HasT, NextOf, Stored, tables
  <2> QED
    BY <2>1, <2>7, <1>o
<1>6. CASE HandleBegin(c, m)
  <2>1. /\ n = 2 /\ pc'[c] = "reply" /\ m_in_transaction'[c]
        /\ UNCHANGED <<locked_tables, m_stack>>
    BY <1>6, <1>t DEF HandleBegin, Admitted
  <2>2. Ready(c, 3, S)'
    BY <2>1 DEF Ready
  <2> QED
    BY <2>1, <2>2, <1>o
<1>7. CASE HandleGet(c, m)
  <2>1. /\ n = 3 /\ pc'[c] = "find_lock" /\ req'[c] = m /\ m.type = "GET"
        /\ UNCHANGED <<m_in_transaction, locked_tables, m_stack>>
    BY <1>7, <1>t DEF HandleGet, Admitted
  <2> QED
    BY <2>1, <1>s DEF Busy, Ready, Getting
<1>8. CASE HandleSet(c, m)
  <2>1. /\ n = 6 /\ pc'[c] = "find_lock" /\ req'[c] = m /\ m.type = "SET"
        /\ value'[c] = GetTop(m_stack[c])
        /\ UNCHANGED <<m_in_transaction, locked_tables, tables>>
    BY <1>8, <1>t DEF HandleSet, Admitted
  <2>2. value'[c] = m_stack[c][1]
    BY <2>1 DEF Ready, GetTop
  <2>3. Setting(c)'
    BY <2>1, <2>2 DEF Ready, Setting, HasT, NextOf, Stored, tables
  <2> QED
    BY <2>1, <2>3, <1>s DEF Busy, Ready
<1>9. CASE HandleCommit(c, m)
  <2>1. /\ n = 7 /\ pc'[c] = "commit" /\ rest'[c] = locked_tables[c]
        /\ UNCHANGED tables
    BY <1>9, <1>t DEF HandleCommit, Admitted
  <2> QED
    BY <2>1, <1>s DEF Busy, Ready, HasT, NextOf, Stored, tables
<1>10. ~NestedBegin(c, m)
  BY <1>t DEF NestedBegin, Admitted, Ready
<1>11. ~HandlePop(c, m) /\ ~HandleTop(c, m) /\ ~DivisionTrap(c, m)
       /\ ~HandleCreate(c, m)
  BY <1>t DEF HandlePop, HandleTop, DivisionTrap, HandleCreate, Admitted
<1> QED
  BY <1>1, <1>2, <1>3, <1>4, <1>5, <1>6, <1>7, <1>8, <1>9, <1>10, <1>11
     DEF Dispatch

\* A thread takes the request its client is at.
LEMMA TakesLine ==
  ASSUME TypeInv, ClientTypeInv, QueueInv, process = "running",
         NEW c \in Conns, Placed(c), ReadRequest(c)
  PROVE  /\ pc[c] = "read" /\ accepted[c] /\ Fresh(c) /\ requests[c] # << >>
         /\ Line(c) \in Requests /\ Dispatch(c, Line(c))
         /\ process' = "running" /\ pc'[c] \notin IdlePCs /\ ~Fresh(c)'
         /\ at[c] \notin {"start", "send"} /\ responses[c] = << >>
         /\ UNCHANGED <<client, responses, accepted>>
<1>s. /\ requests[c] \in Seq(SafeLines) /\ responses[c] \in Seq(Replies)
      /\ Len(requests[c]) \in Nat /\ Len(responses[c]) \in Nat
      /\ requests[c] = << >> <=> Len(requests[c]) = 0
      /\ responses[c] = << >> <=> Len(responses[c]) = 0
  BY SeqFacts DEF ClientTypeInv
<1>1. /\ requests[c] # << >> /\ Dispatch(c, Head(requests[c]))
      /\ UNCHANGED <<client, accepted, responses>>
  BY DEF ReadRequest
<1>2. pc[c] = "read"
  BY <1>1, <1>s, SeqFacts, DispatchShape DEF SafeLines
<1>3. Fresh(c) /\ accepted[c] /\ ~ServerGone(c)
  BY <1>2 DEF Fresh, QueueInv, OneUnderWay, ServerGone
<1>4. Head(requests[c]) = Line(c)
  BY <1>1, <1>3 DEF Placed
<1>5. Line(c) \in Requests /\ Line(c).type # "DIV"
  BY LineTypes
<1>6. process' = "running" /\ pc'[c] \notin IdlePCs
  BY <1>1, <1>4, <1>5, DispatchShape
<1>7. ~Fresh(c)'
  BY <1>1, <1>3, <1>6 DEF Fresh, IdlePCs
<1>8. at[c] \notin {"start", "send"} /\ responses[c] = << >>
  <2>1. Serving(c) = 0
    BY <1>2 DEF Serving, IdlePCs
  <2>2. /\ Len(requests[c]) + Serving(c) + Len(responses[c]) <= 1
        /\ at[c] \in {"start", "send"} =>
             Len(requests[c]) + Serving(c) + Len(responses[c]) = 0
    BY <1>3 DEF QueueInv, OneUnderWay
  <2>3. Len(requests[c]) # 0 /\ Len(requests[c]) \in Nat /\ Len(responses[c]) \in Nat
    BY <1>s, <1>1
  <2>4. \A x, y \in Nat : x # 0 => x + 0 + y # 0 /\ (x + 0 + y <= 1 => y = 0)
    OBVIOUS
  <2>5. /\ Len(requests[c]) + 0 + Len(responses[c]) <= 1
        /\ at[c] \in {"start", "send"} =>
             Len(requests[c]) + 0 + Len(responses[c]) = 0
    BY <2>1, <2>2, Zenon
  <2>6. at[c] \notin {"start", "send"} /\ Len(responses[c]) = 0
    BY <2>3, <2>4, <2>5, Zenon
  <2> QED
    BY <1>s, <2>6
<1> QED
  BY <1>1, <1>2, <1>3, <1>4, <1>5, <1>6, <1>7, <1>8

\* A request of a transaction is taken.
LEMMA DispatchUpdates ==
  ASSUME TypeInv, ClientTypeInv, QueueInv, process = "running",
         NEW c \in Conns, Placed(c), role[c] = "incr_t", NEW S, Updates(c, S),
         ReadRequest(c), Stored \in DOMAIN Stoi,
         c \notin S => Stoi[Stored] + 1 \in Ints
  PROVE  Updates(c, S)'
<1>n. PICK n \in 1 .. 8 : step[c] = n
  BY IncrTPlace
<1>a. AtRequest(c, n, S)
  BY <1>n DEF Updates
<1>1. /\ pc[c] = "read" /\ Fresh(c) /\ requests[c] # << >>
      /\ Line(c) \in Requests /\ Dispatch(c, Line(c))
      /\ pc'[c] \notin IdlePCs /\ ~Fresh(c)'
      /\ at[c] \notin {"start", "send"} /\ responses[c] = << >>
      /\ UNCHANGED <<client, responses, accepted>>
  BY TakesLine
<1>2. Ready(c, n, S)
  BY <1>1, <1>a DEF AtRequest
<1>3. Line(c).type = "GARBAGE" \/ Line(c) = Program("incr_t")[n].line
  BY <1>n DEF Line, Current
<1>4. n = 5 => Stoi[Stored] + 1 \in Ints
  BY <1>2 DEF Ready
<1>5. Busy(c, n, S)'
  BY <1>1, <1>2, <1>3, <1>4, DispatchBusy
<1>6. AtRequest(c, n, S)'
  BY <1>1, <1>5, <1>a DEF AtRequest, client
<1> QED
  BY <1>1, <1>n, <1>6 DEF Updates, client

-----------------------------------------------------------------------------
(***************************************************************************)
(* The thread's steps: serving a request.                                  *)
(***************************************************************************)

\* A thread with a request of a transaction goes on with it.
LEMMA WorkBusy ==
  ASSUME TypeInv, LockInv, PendingInv, ClientTypeInv, NEW c \in Conns,
         NEW n \in 1 .. 8, NEW S, Busy(c, n, S), pc[c] \notin IdlePCs,
         Stored \in DOMAIN Stoi,
         Work(c), process' = "running", ~SendReply(c), ~CommitTable(c, T)
  PROVE  Busy(c, n, S)' /\ key_value'[T] = key_value[T]
<1> USE DEF TypeInv, TypeOK, GoTo, Answer, At, session, IdlePCs
<1>t. T \in Tables /\ K \in Keys
  BY ClientsAssumption
<1>r. pc[c] \in AccessPCs => req[c].table = T /\ req[c].key = K
  BY DEF RequestInv, ClientTypeInv
<1>n. ~ResponseTooLong(c) /\ ~BrokenPipe(c)
  BY DEF ResponseTooLong, BrokenPipe, Dies
<1>x. ~LockTable(c) /\ ~UnlockTable(c) /\ ~CreateTable(c) /\ ~DtorDone(c)
  BY DEF Busy, LockTable, UnlockTable, CreateTable, DtorDone
<1>1. CASE LockRegistry(c)
  <2>1. /\ pc[c] = "find_lock" /\ pc'[c] = "find"
        /\ UNCHANGED <<m_in_transaction, locked_tables, m_stack, req, value,
                       tables>>
    BY <1>1 DEF LockRegistry, Busy
  <2> QED
    BY <2>1 DEF Busy, Getting, Setting, HasT, NextOf, Stored, tables
<1>2. CASE FindTable(c)
  <2>1. /\ pc[c] = "find" /\ m_in_transaction[c] /\ c \notin S
        /\ (n = 3 /\ Getting(c)) \/ (n = 6 /\ Setting(c))
        /\ UNCHANGED <<m_in_transaction, locked_tables, m_stack, tables>>
    BY <1>2 DEF FindTable, Busy
  <2>2. CASE T \notin set_of_table
    <3>1. pc'[c] = "reply" /\ resp'[c] = "FAILED"
      BY <1>2, <1>r, <2>1, <2>2 DEF FindTable, AccessPCs
    <3> QED
      BY <2>1, <3>1 DEF Busy, tables
  <2>3. CASE T \in set_of_table
    <3>1. pc'[c] = LockStep(c, T) /\ UNCHANGED <<req, value>>
      BY <1>2, <1>r, <2>1, <2>3 DEF FindTable, AccessPCs
    <3>2. pc'[c] = IF T \in locked_tables[c] THEN "access" ELSE "trylock"
      BY <2>1, <3>1 DEF LockStep
    <3>3. CASE n = 3 /\ Getting(c)
      <4>1. pc'[c] = "trylock"
        BY <2>1, <3>2, <3>3 DEF Getting
      <4>2. Getting(c)'
        BY <2>1, <3>1, <3>3, <4>1 DEF Getting
      <4> QED
        BY <2>1, <3>3, <4>1, <4>2 DEF Busy, tables
    <3>4. CASE n = 6 /\ Setting(c)
      <4>1. pc'[c] = "access"
        BY <3>2, <3>4 DEF Setting, HasT
      <4>2. Setting(c)'
        BY <2>1, <3>1, <3>4, <4>1 DEF Setting, HasT, NextOf, Stored, tables
      <4> QED
        BY <2>1, <3>4, <4>1, <4>2 DEF Busy, tables
    <3> QED
      BY <2>1, <3>3, <3>4
  <2> QED
    BY <2>2, <2>3
<1>3. CASE TryLock(c)
  <2>1. /\ pc[c] = "trylock" /\ m_in_transaction[c] /\ c \notin S
        /\ n = 3 /\ Getting(c) /\ pc'[c] = "access"
        /\ UNCHANGED <<m_in_transaction, m_stack, req, key_value, key_value_temp>>
    BY <1>3 DEF TryLock, Busy, Setting
  <2>2. table_mutex[T] = Nobody /\ HasT(c)'
    BY <1>3, <1>r, <1>t, <2>1 DEF TryLock, Free, HasT, AccessPCs
  <2>3. key_value_temp[T] = EmptyMap
    BY <1>t, <2>2, KVAssumption DEF PendingInv
  <2>4. Getting(c)'
    BY <1>t, <2>1, <2>2, <2>3 DEF Getting, EmptyMap
  <2> QED
    BY <2>1, <2>4 DEF Busy
<1>4. CASE TryLockFails(c)
  <2>1. /\ pc[c] = "trylock" /\ c \notin S /\ n = 3 /\ pc'[c] = "rollback"
        /\ UNCHANGED tables
    BY <1>4 DEF TryLockFails, FailTransaction, Busy, Setting
  <2> QED
    BY <2>1 DEF Busy, tables
<1>5. CASE GetAccess(c)
  <2>1. /\ pc[c] = "access" /\ m_in_transaction[c] /\ c \notin S
        /\ n = 3 /\ Getting(c) /\ req[c].table = T /\ req[c].key = K
        /\ UNCHANGED <<m_in_transaction, locked_tables, tables>>
    BY <1>5, <1>r DEF GetAccess, Busy, Setting, AccessPCs
  <2>2. Stored \in Vals /\ Stored # NoValue
    BY StoiAssumption, NoValueAssumption
  <2>3. /\ HasKey(key_value[T], key_value_temp[T], K)
        /\ TableGet(key_value[T], key_value_temp[T], K) = Stored
    BY <2>1, <2>2 DEF Getting, HasKey, TableGet, Stored
  <2>4. /\ m_stack'[c] = Push(m_stack[c], Stored)
        /\ pc'[c] = "reply" /\ resp'[c] = "OK"
    BY <1>5, <2>1, <2>3 DEF GetAccess, Leave
  <2>5. Len(m_stack'[c]) = 1 /\ m_stack'[c][1] = Stored
    <3>1. m_stack[c] = << >>
      BY <2>1 DEF Getting
    <3>2. Len(Append(<< >>, Stored)) = 1 /\ Append(<< >>, Stored)[1] = Stored
      OBVIOUS
    <3> QED
      BY <2>4, <3>1, <3>2 DEF Push
  <2>6. Ready(c, 4, S)'
    BY <2>1, <2>5 DEF Ready, Getting, HasT, Stored, tables
  <2> QED
    BY <2>1, <2>4, <2>6 DEF Busy, tables
<1>6. CASE SetAccess(c)
  <2>1. /\ pc[c] = "access" /\ m_in_transaction[c] /\ c \notin S
        /\ n = 6 /\ Setting(c) /\ req[c].table = T /\ req[c].key = K
        /\ UNCHANGED <<m_in_transaction, locked_tables, table_mutex>>
    BY <1>6, <1>r DEF SetAccess, Busy, Getting, AccessPCs
  <2>2. /\ key_value_temp' =
             [key_value_temp EXCEPT ![T] = TableSet(key_value_temp[T], K, value[c])]
        /\ UNCHANGED key_value /\ pc'[c] = "reply" /\ resp'[c] = "OK"
    BY <1>6, <2>1 DEF SetAccess, Leave
  <2>3. key_value_temp'[T][K] = value[c]
    BY <1>t, <2>2 DEF TableSet, Map
  <2>4. Ready(c, 7, S)'
    BY <2>1, <2>2, <2>3 DEF Ready, Setting, HasT, NextOf, Stored
  <2> QED
    BY <2>1, <2>2, <2>4 DEF Busy
<1>7. ASSUME NEW t \in Tables \ {T}, CommitTable(c, t)
      PROVE  Busy(c, n, S)' /\ key_value'[T] = key_value[T]
  <2>1. /\ pc[c] = "commit" /\ pc'[c] = "commit"
        /\ T \in rest'[c] <=> T \in rest[c]
        /\ UNCHANGED <<key_value[T], key_value_temp[T], table_mutex[T]>>
    BY <1>t, <1>7 DEF CommitTable
  <2> QED
    BY <2>1 DEF Busy, NextOf, Stored
<1>8. ASSUME NEW t \in Tables, RollbackTable(c, t)
      PROVE  Busy(c, n, S)' /\ key_value'[T] = key_value[T]
  BY <1>8 DEF RollbackTable, Busy
<1>9. CASE CommitDone(c)
  <2>1. /\ pc[c] = "commit" /\ pc'[c] = "reply" /\ rest[c] = {} /\ resp'[c] = "OK"
        /\ UNCHANGED tables
    BY <1>9 DEF CommitDone, EndTransaction
  <2>2. n = 7 /\ c \in S
    BY <2>1 DEF Busy
  <2>3. Ready(c, 8, S)'
    BY <2>2 DEF Ready
  <2> QED
    BY <2>1, <2>2, <2>3 DEF Busy, tables
<1>10. CASE RollbackDone(c)
  <2>1. /\ pc[c] = "rollback" /\ pc'[c] = "reply" /\ resp'[c] = "FAILED"
        /\ UNCHANGED tables
    BY <1>10 DEF RollbackDone, EndTransaction
  <2> QED
    BY <2>1 DEF Busy, tables
<1> QED
  BY <1>n, <1>x, <1>1, <1>2, <1>3, <1>4, <1>5, <1>6, <1>7, <1>8, <1>9, <1>10
     DEF Work


\* Where a thread is tells what it can do.
LEMMA WorkAt ==
  ASSUME NEW c \in Conns, Work(c)
  PROVE  /\ pc[c] \in {"reply", "last_reply"} => SendReply(c) \/ BrokenPipe(c)
         /\ pc[c] = "dtor" => DtorDone(c) \/ \E t \in Tables : RollbackTable(c, t)
BY DEF Work, At, LockRegistry, CreateTable, FindTable, TryLock, TryLockFails,
       LockTable, GetAccess, SetAccess, UnlockTable, CommitTable, RollbackTable,
       CommitDone, RollbackDone, ResponseTooLong, DtorDone, SendReply, BrokenPipe

\* What the client makes of the response.
LEMMA ReplyUpdates ==
  ASSUME TypeInv, ClientTypeInv, QueueInv, process = "running",
         NEW c \in Conns, Placed(c), role[c] = "incr_t",
         NEW n \in 1 .. 8, step[c] = n, NEW S, AtRequest(c, n, S),
         ServerWorks(c), SendReply(c)
  PROVE  AtRequest(c, n, S)'
<1>r. Response(c).type = resp[c]
  BY DEF Response
<1>1. /\ requests[c] = << >> /\ responses[c] = << >>
      /\ at[c] \notin {"start", "send"}
      /\ at[c] = "recv" => responses'[c] # << >> /\ Head(responses'[c]).type = resp[c]
  BY <1>r, ReplyArrives
<1> USE DEF TypeInv, TypeOK, GoTo, At
<1>2. /\ pc[c] \in {"reply", "last_reply"} /\ pc'[c] \in IdlePCs
      /\ UNCHANGED <<session, tables, client, requests>>
  BY DEF SendReply, ServerWorks, Destroy, IdlePCs
<1>3. Busy(c, n, S)
  BY <1>2 DEF AtRequest, IdlePCs
<1>4. ASSUME at[c] = "recv"
      PROVE  IF resp[c] = "OK" THEN Ready(c, n + 1, S)' ELSE c \notin S
  <2>1. CASE pc[c] = "reply"
    <3>1. Ready(c, n + 1, S) => Ready(c, n + 1, S)'
      BY <1>2, ReadySame DEF session, tables, TableSame
    <3> QED
      BY <1>3, <2>1, <3>1 DEF Busy
  <2>2. CASE pc[c] = "last_reply"
    <3>1. resp[c] = "ERROR" /\ n \in 1 .. 7
      BY <1>4, <2>2, IncrTPlace DEF Placed
    <3> QED
      BY <1>3, <2>2, <3>1 DEF Busy
  <2> QED
    BY <1>2, <2>1, <2>2
<1> QED
  BY <1>1, <1>2, <1>4 DEF AtRequest, client

\* A thread's step keeps the account, but for the commit of T.
LEMMA ServerUpdates ==
  ASSUME TypeInv, LockInv, PendingInv, ClientTypeInv, QueueInv,
         process = "running", NEW c \in Conns, Placed(c), role[c] = "incr_t",
         NEW S, Updates(c, S), Stored \in DOMAIN Stoi,
         c \notin S => Stoi[Stored] + 1 \in Ints,
         Server(c), process' = "running", ~CommitTable(c, T)
  PROVE  Updates(c, S)' /\ key_value'[T] = key_value[T]
<1>n. PICK n \in 1 .. 8 : step[c] = n
  BY IncrTPlace
<1>a. AtRequest(c, n, S)
  BY <1>n DEF Updates
<1>c. UNCHANGED client
  BY DEF Server, AcceptConnection, ReadRequest, ReadEnd, ServerWorks
<1>q. ASSUME AtRequest(c, n, S)' PROVE Updates(c, S)'
  BY <1>q, <1>c, <1>n DEF Updates, client
<1>t. T \in Tables
  BY ClientsAssumption
<1>1. CASE ReadRequest(c)
  <2>1. UNCHANGED tables
    BY <1>1, ClientTable
  <2> QED
    BY <1>1, <2>1, DispatchUpdates DEF tables
<1>2. CASE AcceptConnection(c)
  <2>1. /\ Fresh(c) /\ pc'[c] \in IdlePCs /\ ~m_in_transaction'[c]
        /\ UNCHANGED <<requests, responses, locked_tables, m_stack, tables>>
    BY <1>2 DEF AcceptConnection, AcceptClient, Fresh, IdlePCs, TypeInv, TypeOK
  <2>2. ~m_in_transaction[c]
    BY <1>2 DEF AcceptConnection, AcceptClient, LockInv, TxnInv
  <2>3. UNCHANGED m_in_transaction[c]
    BY <1>2, <2>2 DEF AcceptConnection, AcceptClient, TypeInv, TypeOK
  <2>4. \A k : Ready(c, k, S) => Ready(c, k, S)'
    BY <2>1, <2>3, ReadySame DEF tables, TableSame
  <2>5. AtRequest(c, n, S)'
    BY <1>a, <1>c, <2>1, <2>4 DEF AtRequest, client
  <2> QED
    BY <1>q, <2>1, <2>5 DEF tables
<1>3. CASE ReadEnd(c)
  <2>1. /\ pc[c] = "read" /\ sock[c] # "open" /\ pc'[c] = "dtor"
        /\ requests[c] = << >> /\ UNCHANGED <<requests, tables>>
    BY <1>3 DEF ReadEnd, ReadEOF, Destroy, GoTo, At, net, TypeInv, TypeOK
  <2>2. at[c] = "done"
    BY <2>1 DEF QueueInv, OneUnderWay
  <2>3. AtRequest(c, n, S)'
    BY <1>a, <1>c, <2>1, <2>2 DEF AtRequest, client, IdlePCs
  <2> QED
    BY <1>q, <2>1, <2>3 DEF tables
<1>4. CASE ServerWorks(c) /\ SendReply(c)
  BY <1>4, <1>n, <1>a, <1>q, ReplyUpdates DEF SendReply, tables
<1>5. CASE ServerWorks(c) /\ ~SendReply(c)
  <2>1. Work(c) /\ UNCHANGED <<requests, accepted>>
    BY <1>5 DEF ServerWorks
  <2>2. Serves(c) \/ Destroys(c)
    BY <1>5, <2>1, WorkShape DEF ResponseTooLong, BrokenPipe, Dies
  <2>3. CASE Serves(c)
    <3>1. /\ pc[c] \notin IdlePCs /\ Busy(c, n, S)
      BY <1>a, <2>3 DEF Serves, AtRequest
    <3>2. Busy(c, n, S)' /\ key_value'[T] = key_value[T]
      BY <1>5, <2>1, <3>1, WorkBusy
    <3>3. requests[c] = << >> /\ responses[c] = << >> /\ at[c] \notin {"start", "send"}
      BY <3>1, ServedAlone
    <3>4. responses'[c] = << >>
      <4>1. pc[c] \notin {"reply", "last_reply"}
        BY <1>5, <2>1, WorkAt DEF BrokenPipe, Dies
      <4> QED
        BY <1>5, <3>3, <4>1 DEF ServerWorks
    <3>5. AtRequest(c, n, S)'
      BY <1>a, <1>c, <2>1, <3>2, <3>3, <3>4 DEF AtRequest, client
    <3> QED
      BY <1>q, <3>2, <3>5
  <2>4. CASE Destroys(c)
    <3>1. /\ pc[c] = "dtor" /\ pc'[c] \in IdlePCs /\ ~Fresh(c) /\ ~Fresh(c)'
          /\ at[c] \notin {"start", "send"} /\ responses' = responses
      BY <1>5, <2>1, <2>4
         DEF Destroys, ServerWorks, Placed, Fresh, QueueInv, OneUnderWay, IdlePCs
    <3>2. key_value'[T] = key_value[T]
      <4>1. DtorDone(c) \/ \E t \in Tables : RollbackTable(c, t)
        BY <2>1, <3>1, WorkAt
      <4> QED
        BY <4>1 DEF DtorDone, RollbackTable, tables
    <3>3. at[c] = "recv" /\ responses[c] # << >> => Head(responses[c]).type # "OK"
      BY <3>1 DEF Placed
    <3>4. AtRequest(c, n, S)'
      BY <1>a, <1>c, <3>1, <3>3 DEF AtRequest, client
    <3> QED
      BY <1>q, <3>2, <3>4
  <2> QED
    BY <2>2, <2>3, <2>4
<1> QED
  BY <1>1, <1>2, <1>3, <1>4, <1>5 DEF Server

\* The commit of T makes the client one of S.
LEMMA CommitUpdates ==
  ASSUME TypeInv, ClientTypeInv, QueueInv, process = "running",
         NEW c \in Conns, Placed(c), role[c] = "incr_t",
         NEW S, Updates(c, S), ServerWorks(c), CommitTable(c, T)
  PROVE  /\ c \notin S /\ NextOf(Stored')
         /\ Updates(c, S \cup {c})'
<1> USE DEF TypeInv, TypeOK, At
<1>t. T \in Tables /\ K \in Keys
  BY ClientsAssumption
<1>n. PICK n \in 1 .. 8 : step[c] = n
  BY IncrTPlace
<1>a. AtRequest(c, n, S)
  BY <1>n DEF Updates
<1>1. /\ pc[c] = "commit" /\ T \in rest[c]
      /\ T \notin rest'[c] /\ pc' = pc
      /\ key_value'[T] = CommitChanges(key_value[T], key_value_temp[T])
  BY <1>t DEF CommitTable
<1>2. n = 7 /\ c \notin S /\ NextOf(key_value_temp[T][K])
  BY <1>a, <1>1 DEF AtRequest, Busy, IdlePCs
<1>3. Stored' = key_value_temp[T][K]
  <2>1. key_value_temp[T][K] # NoValue
    BY <1>2, StoiAssumption, NoValueAssumption DEF NextOf
  <2> QED
    BY <1>t, <1>1, <2>1 DEF Stored, CommitChanges
<1>4. /\ UNCHANGED <<client, requests>> /\ responses' = responses
  BY <1>1 DEF ServerWorks
<1>5. requests[c] = << >> /\ responses[c] = << >> /\ at[c] \notin {"start", "send"}
  BY <1>1, ServedAlone DEF IdlePCs
<1>6. status[c] # "error"
  BY <1>1 DEF Placed, IdlePCs
<1>7. Busy(c, 7, S \cup {c})'
  BY <1>1 DEF Busy
<1>8. AtRequest(c, 7, S \cup {c})'
  BY <1>4, <1>5, <1>6, <1>7 DEF AtRequest, client
<1>9. Updates(c, S \cup {c})'
  BY <1>n, <1>2, <1>4, <1>8 DEF Updates, client
<1> QED
  BY <1>2, <1>3, <1>9

\* Only a thread at work commits.
LEMMA CommitWorks ==
  ASSUME TypeInv, NEW c \in Conns, Server(c), CommitTable(c, T)
  PROVE  ServerWorks(c)
<1>1. pc[c] = "commit" /\ pc' = pc
  BY DEF CommitTable, At
<1>2. ~AcceptConnection(c) /\ ~ReadEnd(c)
  BY <1>1 DEF AcceptConnection, AcceptClient, ReadEnd, ReadEOF, At
<1>3. ~ReadRequest(c)
  BY <1>1 DEF ReadRequest, Dispatch, NotLoggedIn, InvalidRequest, HandleLogin,
     HandleBye, HandlePush, EmptyStack, HandlePop, HandleTop, TooFewOperands,
     BadOperands, HandleArith, DivisionTrap, HandleBegin, NestedBegin,
     NotInTransaction, HandleCreate, HandleGet, HandleSet, HandleCommit,
     Admitted, Receives, At
<1> QED
  BY <1>2, <1>3 DEF Server

\* get_value neither starts a transaction nor sets anything.
LEMMA ReadsOnly ==
  ASSUME TypeInv, LockInv, ClientTypeInv, QueueInv, process = "running",
         NEW c \in Conns, Placed(c), role[c] = "get", Reads(c),
         Client(c) \/ Killed(c) \/ Server(c), process' = "running"
  PROVE  Reads(c)' /\ key_value'[T] = key_value[T]
<1> USE DEF TypeInv, TypeOK
<1>1. CASE Client(c) \/ Killed(c)
  BY <1>1, ClientSide DEF PeerGone, session, tables, Reads
<1>2. CASE AcceptConnection(c) \/ ReadEnd(c)
  BY <1>2 DEF AcceptConnection, AcceptClient, ReadEnd, ReadEOF, session, tables,
              Reads
<1>3. CASE ReadRequest(c)
  <2>1. Line(c) \in Requests /\ Dispatch(c, Line(c)) /\ UNCHANGED tables
    BY <1>3, TakesLine, ClientTable
  <2>2. Line(c).type \in {"LOGIN", "GET", "TOP", "BYE", "GARBAGE"}
    <3>1. step[c] \in 1 .. 4
      <4>1. step[c] \in 1 .. Len(Program(role[c])) /\ Len(Program("get")) = 4
        BY GetProgram DEF ClientTypeInv
      <4> QED
        BY <4>1, Zenon
    <3>2. \A i \in 1 .. 4 :
            Program("get")[i].line.type \in {"LOGIN", "GET", "TOP", "BYE"}
      BY GetProgram DEF Plain, OnKey, Bye, Ask
    <3> QED
      BY <3>1, <3>2 DEF Line, Current
  <2>3. req' = req \/ req' = [req EXCEPT ![c] = Line(c)]
    BY <2>1, <2>2, DispatchShape
  <2>4. ~HandleBegin(c, Line(c)) /\ ~DivisionTrap(c, Line(c))
    BY <2>2 DEF HandleBegin, DivisionTrap, Admitted
  <2>5. UNCHANGED m_in_transaction
    BY <2>1, <2>4
       DEF Dispatch, NotLoggedIn, InvalidRequest, HandleLogin, HandleBye,
           HandlePush, EmptyStack, HandlePop, HandleTop, TooFewOperands,
           BadOperands, HandleArith, NestedBegin, NotInTransaction,
           HandleCreate, HandleGet, HandleSet, HandleCommit, session
  <2> QED
    BY <2>1, <2>2, <2>3, <2>5 DEF Reads, tables
<1>4. CASE ServerWorks(c)
  <2> USE DEF Forget, Answer, At, session, tables, Reads
  <2>1. Work(c) /\ ~ResponseTooLong(c) /\ ~BrokenPipe(c)
    BY <1>4 DEF ServerWorks, ResponseTooLong, BrokenPipe, Dies
  <2>2. rest[c] = {}
    BY DEF LockInv, TxnInv
  <2>3. ~SetAccess(c) /\ \A t \in Tables : ~CommitTable(c, t) /\ ~RollbackTable(c, t)
    BY <2>2 DEF SetAccess, CommitTable, RollbackTable
  <2>m. NoMessage.type # "SET"
    BY NoMessageType
  <2>4. CASE LockRegistry(c) \/ CreateTable(c) \/ FindTable(c)
    BY <2>4, <2>m DEF LockRegistry, CreateTable, FindTable
  <2>5. CASE TryLock(c) \/ TryLockFails(c) \/ LockTable(c) \/ UnlockTable(c)
    BY <2>5, <2>m DEF TryLock, TryLockFails, LockTable, UnlockTable
  <2>6. CASE GetAccess(c)
    BY <2>6, <2>m DEF GetAccess, Leave
  <2>7. CASE CommitDone(c) \/ RollbackDone(c)
    BY <2>7, <2>m DEF CommitDone, RollbackDone, EndTransaction
  <2>8. CASE DtorDone(c) \/ SendReply(c)
    BY <2>8 DEF DtorDone, SendReply
  <2> QED
    BY <2>1, <2>3, <2>4, <2>5, <2>6, <2>7, <2>8 DEF Work
<1> QED
  BY <1>1, <1>2, <1>3, <1>4 DEF Server

-----------------------------------------------------------------------------
(***************************************************************************)
(* The count.                                                              *)
(***************************************************************************)

\* Nobody changes what it was started as.
LEMMA SameRoles ==
  ASSUME [CNext]_cvars
  PROVE  role' = role
<1>1. ASSUME NEW c \in Conns, Client(c) \/ Killed(c) PROVE role' = role
  BY <1>1 DEF Client, Connect, ConnectFails, EncodeThrows, SendRequest,
     WriteToReset, ReadResponse, ReadNothing, Finish, Killed, Judge, Ends
<1>2. ASSUME NEW c \in Conns, Server(c) PROVE role' = role
  BY <1>2 DEF Server, AcceptConnection, ReadRequest, ReadEnd, ServerWorks, client
<1> QED
  BY <1>1, <1>2 DEF CNext, ServerExits, AllDone, cvars, client

\* The others in a step of d.
LEMMA OthersTally ==
  ASSUME TypeInv, LockInv, ClientTypeInv, NEW S, Tally(S), NEW d \in Conns,
         Client(d) \/ Killed(d) \/ Server(d), process' = "running", role' = role,
         NEW S2, S2 \in {S, S \cup {d}}, NEW c \in Conns \ {d}
  PROVE  /\ role'[c] = "incr_t" => Updates(c, S2)'
         /\ role'[c] = "get" => c \notin S2 /\ Reads(c)'
<1>1. OwnSame(c)
  BY StepOfOne
<1>2. c \in S2 <=> c \in S
  OBVIOUS
<1>3. table_mutex[T] = c => TableSame
  BY TableKept
<1>4. role[c] = "incr_t" => Updates(c, S2)'
  BY <1>1, <1>2, <1>3, OtherUpdates DEF Tally
<1>5. role[c] = "get" => c \notin S2 /\ Reads(c)'
  BY <1>1, <1>2 DEF Tally, Reads, OwnSame
<1> QED
  BY <1>4, <1>5

\* The assumptions of the count: finitely many clients, and a counter that
\* cannot pass IntMax even if all of them increment it.
NoOverflow ==
  IsFiniteSet(Conns) /\ Stoi[StartValue] + Cardinality(Conns) <= IntMax

\* One more commit is still an int.
LEMMA RoomForOne ==
  ASSUME NoOverflow, NEW S \in SUBSET Conns, Tally(S), NEW d \in Conns, d \notin S
  PROVE  /\ Stoi[Stored] + 1 \in Ints
         /\ Cardinality(S \cup {d}) = Cardinality(S) + 1
         /\ Cardinality(S) \in Nat
<1>1. IsFiniteSet(S) /\ Cardinality(S) \in Nat
  BY FS_Subset, FS_CardinalityType DEF NoOverflow
<1>2. Cardinality(S \cup {d}) = Cardinality(S) + 1
  BY <1>1, FS_AddElement
<1>3. /\ Cardinality(S \cup {d}) <= Cardinality(Conns)
      /\ Cardinality(Conns) \in Nat
  BY FS_Subset, FS_CardinalityType DEF NoOverflow
<1>4. /\ Stoi[Stored] \in Ints /\ Stoi[StartValue] \in Ints
      /\ Stoi[Stored] = Stoi[StartValue] + Cardinality(S)
  BY StoiAssumption, ClientsAssumption DEF Tally
<1>5. Stoi[StartValue] + Cardinality(Conns) <= IntMax
  BY DEF NoOverflow
<1>6. Stoi[Stored] \in Int /\ Stoi[StartValue] \in Int /\ IntMax \in Int
  BY <1>4, IntMaxAssumption DEF Ints
<1>7. /\ Cardinality(S) + 1 <= Cardinality(Conns)
      /\ Cardinality(S) \in Int /\ Cardinality(Conns) \in Int
  BY <1>1, <1>2, <1>3
<1>8. \A s, x, a, b, m \in Int :
        x = s + a /\ a + 1 <= b /\ s + b <= m => x + 1 <= m
  OBVIOUS
<1>9. Stoi[Stored] + 1 \in Ints
  <2>1. Stoi[Stored] + 1 <= IntMax
    BY <1>4, <1>5, <1>6, <1>7, <1>8, Zenon
  <2> QED
    BY <1>4, <1>6, <2>1 DEF Ints, IntMin
<1> QED
  BY <1>1, <1>2, <1>9

\* Every step keeps the count.
LEMMA NextUpdate ==
  ASSUME ServerInv, ClientTypeInv, QueueInv, PlaceInv, UpdateInv, NoOverflow,
         [CNext]_cvars
  PROVE  UpdateInv'
<1> SUFFICES ASSUME process' = "running", OnlyIncrements'
             PROVE  \E S \in SUBSET Conns : Tally(S)'
  BY DEF UpdateInv
<1>r. role' = role
  BY SameRoles
<1>p. process = "running" /\ \A c \in Conns : Placed(c)
  BY RunningStep DEF PlaceInv
<1>s. PICK S \in SUBSET Conns : Tally(S)
  BY <1>p, <1>r DEF UpdateInv, OnlyIncrements
<1>i. TypeInv /\ LockInv /\ PendingInv
  BY DEF ServerInv
<1>1. ASSUME NEW d \in Conns, Client(d) \/ Killed(d) \/ Server(d)
      PROVE  \E S2 \in SUBSET Conns : Tally(S2)'
  <2>t. /\ Stored \in DOMAIN Stoi
        /\ Stoi[Stored] = Stoi[StartValue] + Cardinality(S)
        /\ role[d] = "incr_t" => Updates(d, S)
        /\ role[d] = "get" => d \notin S /\ Reads(d)
    BY <1>s DEF Tally
  <2>q. ASSUME key_value'[T] = key_value[T],
               role[d] = "incr_t" => Updates(d, S)',
               role[d] = "get" => Reads(d)'
        PROVE  Tally(S)'
    <3>1. \A c \in Conns \ {d} : /\ role'[c] = "incr_t" => Updates(c, S)'
                                 /\ role'[c] = "get" => c \notin S /\ Reads(c)'
      BY <1>i, <1>p, <1>r, <1>s, <1>1, OthersTally
    <3> QED
      BY <2>q, <2>t, <1>r, <3>1 DEF Tally, Stored
  <2>1. CASE role[d] = "get"
    BY <1>i, <1>p, <1>1, <2>t, <2>q, <2>1, ReadsOnly
  <2>2. CASE role[d] = "incr_t" /\ (Client(d) \/ Killed(d))
    <3>1. key_value' = key_value
      BY <2>2, ClientSide DEF PeerGone, tables
    <3> QED
      BY <1>i, <1>p, <2>t, <2>q, <2>2, <3>1, ClientUpdates
  <2>3. CASE role[d] = "incr_t" /\ Server(d) /\ ~CommitTable(d, T)
    <3>1. d \notin S => Stoi[Stored] + 1 \in Ints
      BY <1>s, RoomForOne
    <3> QED
      BY <1>i, <1>p, <2>t, <2>q, <2>3, <3>1, ServerUpdates
  <2>4. CASE role[d] = "incr_t" /\ Server(d) /\ CommitTable(d, T)
    <3>1. ServerWorks(d)
      BY <1>i, <2>4, CommitWorks
    <3>2. d \notin S /\ NextOf(Stored') /\ Updates(d, S \cup {d})'
      BY <1>i, <1>p, <2>t, <2>4, <3>1, CommitUpdates
    <3>3. /\ Cardinality(S \cup {d}) = Cardinality(S) + 1 /\ Cardinality(S) \in Nat
      BY <1>s, <3>2, RoomForOne
    <3>4. \A c \in Conns \ {d} :
             /\ role'[c] = "incr_t" => Updates(c, S \cup {d})'
             /\ role'[c] = "get" => c \notin S \cup {d} /\ Reads(c)'
      BY <1>i, <1>p, <1>r, <1>s, <1>1, OthersTally
    <3>5. Stored' \in DOMAIN Stoi
          /\ Stoi[Stored'] = Stoi[StartValue] + Cardinality(S \cup {d})
      <4>1. Stoi[StartValue] \in Int
        BY ClientsAssumption, StoiAssumption, IntMaxAssumption DEF Ints
      <4> QED
        BY <2>t, <3>2, <3>3, <4>1 DEF NextOf
    <3>6. Tally(S \cup {d})'
      BY <1>r, <2>4, <3>2, <3>4, <3>5 DEF Tally
    <3> QED
      BY <3>6
  <2>5. role[d] \in {"incr_t", "get"}
    BY <1>r DEF OnlyIncrements
  <2> QED
    BY <1>1, <2>1, <2>2, <2>3, <2>4, <2>5
<1>2. CASE UNCHANGED cvars
  <2>1. \A c \in Conns : OwnSame(c)
    BY <1>2 DEF cvars, vars, client, net, session, OwnSame
  <2>2. TableSame /\ Stored' = Stored
    BY <1>2 DEF cvars, vars, tables, TableSame, Stored
  <2>3. \A c \in Conns : Updates(c, S) => Updates(c, S)'
    BY <2>1, <2>2, OtherUpdates
  <2>4. \A c \in Conns : Reads(c) => Reads(c)'
    BY <2>1 DEF OwnSame, Reads
  <2>5. Tally(S)'
    BY <1>s, <1>r, <2>2, <2>3, <2>4 DEF Tally
  <2> QED
    BY <2>5
<1> QED
  BY <1>1, <1>2, RunningStep

\* Before anyone has connected nothing has been counted.
LEMMA InitUpdate == CInit => PlaceInv /\ EndInv /\ UpdateInv
<1> SUFFICES ASSUME CInit PROVE PlaceInv /\ EndInv /\ UpdateInv
  OBVIOUS
<1>1. \A c \in Conns :
        /\ at[c] = "start" /\ step[c] = 1 /\ status[c] = "none"
        /\ ~accepted[c] /\ requests[c] = << >> /\ responses[c] = << >>
        /\ pc[c] = "off" /\ ~m_in_transaction[c] /\ locked_tables[c] = {}
        /\ m_stack[c] = << >> /\ req[c].type = "NONE"
  BY DEF CInit, InitWith, EachConn, NoMessage
<1>2. PlaceInv /\ EndInv
  BY <1>1 DEF PlaceInv, Placed, Fresh, IdlePCs, EndInv
<1>3. Stored = StartValue
  BY ClientsAssumption DEF CInit, InitWith, EachTable, EmptyMap, Stored
<1>4. ASSUME NEW c \in Conns PROVE Updates(c, {})
  <2>1. Ready(c, 1, {})
    BY <1>1, <1>4 DEF Ready
  <2>2. AtRequest(c, 1, {})
    BY <1>1, <1>4, <2>1 DEF AtRequest, IdlePCs
  <2> QED
    BY <1>1, <1>4, <2>2 DEF Updates
<1>5. Tally({})
  <2>1. Cardinality({}) = 0 /\ StartValue \in DOMAIN Stoi /\ Stoi[StartValue] \in Int
    BY FS_EmptySet, ClientsAssumption, StoiAssumption, IntMaxAssumption DEF Ints
  <2> QED
    BY <1>1, <1>3, <1>4, <2>1 DEF Tally, Reads
<1> QED
  BY <1>2, <1>5 DEF UpdateInv

\* The count holds whenever the server runs.
LEMMA UpdatesInvariant ==
  ASSUME NoOverflow
  PROVE  CSpec => [](ClientTypeInv /\ PlaceInv /\ EndInv /\ UpdateInv)
<1>1. CInit => PlaceInv /\ EndInv /\ UpdateInv
  BY InitUpdate
<1>2. /\ ServerInv /\ ClientTypeInv /\ QueueInv
      /\ PlaceInv /\ EndInv /\ UpdateInv /\ [CNext]_cvars
      => PlaceInv' /\ EndInv' /\ UpdateInv'
  BY NextPlace, NextEnd, NextUpdate DEF ServerInv
<1> QED
  BY <1>1, <1>2, ClientsInvariant, PTL DEF CSpec

\* NoLostUpdate, for any finite number of clients: every incr_value -t that ends
\* with status 0 (incr_value.cpp) has raised the counter by one, and nothing
\* but the COMMIT of one raises it, however the requests of the sessions in
\* client_connection.cpp interleave and whoever is killed.  The counter must
\* have room: handle_add wraps around.
THEOREM UpdatesCounted ==
  ASSUME IsFiniteSet(Conns),
         Stoi[StartValue] + Cardinality(Conns) <= IntMax
  PROVE  CSpec => []NoLostUpdate
<1>n. NoOverflow
  BY DEF NoOverflow
<1>1. ClientTypeInv /\ PlaceInv /\ EndInv /\ UpdateInv => NoLostUpdate
  <2> SUFFICES ASSUME ClientTypeInv, PlaceInv, EndInv, UpdateInv,
                      process = "running", OnlyIncrements
               PROVE  Stoi[Stored] - Stoi[StartValue] \in
                        Cardinality(Increments({"ok"})) .. Cardinality(Committing)
    BY DEF NoLostUpdate, OnlyIncrements
  <2>1. PICK S \in SUBSET Conns : Tally(S)
    BY DEF UpdateInv
  <2>2. ASSUME NEW c \in Conns, role[c] = "incr_t" PROVE Updates(c, S)
    BY <2>1, <2>2 DEF Tally
  <2>3. Increments({"ok"}) \subseteq S
    <3> SUFFICES ASSUME NEW c \in Conns, role[c] = "incr_t", status[c] = "ok"
                 PROVE  c \in S
      BY DEF Increments
    <3>1. step[c] = 8
      BY IncrTProgram DEF EndInv
    <3> QED
      BY <2>2, <3>1 DEF Updates, AtRequest
  <2>4. S \subseteq Committing
    <3> SUFFICES ASSUME NEW c \in S PROVE c \in Committing
      OBVIOUS
    <3>1. role[c] = "incr_t"
      BY <2>1 DEF Tally, OnlyIncrements
    <3>2. PICK n \in 1 .. 8 : step[c] = n
      BY <3>1, IncrTPlace
    <3>3. n \in {7, 8} /\ status[c] # "error"
      BY <2>2, <3>1, <3>2 DEF Updates, AtRequest
    <3>4. Current(c).line.type \in {"COMMIT", "BYE"}
      BY <3>1, <3>2, <3>3, IncrTLines DEF Current
    <3>5. status[c] \in {"none", "ok", "SIGPIPE", "killed"}
      BY <3>3 DEF ClientTypeInv, Statuses
    <3> QED
      BY <3>1, <3>4, <3>5 DEF Committing, Increments
  <2>5. /\ Cardinality(Increments({"ok"})) <= Cardinality(S)
        /\ Cardinality(S) <= Cardinality(Committing)
        /\ Cardinality(Increments({"ok"})) \in Nat /\ Cardinality(S) \in Nat
        /\ Cardinality(Committing) \in Nat
    <3>1. Committing \subseteq Conns
      BY DEF Committing, Increments
    <3>2. IsFiniteSet(Committing) /\ IsFiniteSet(S)
      BY <3>1, FS_Subset
    <3>3. /\ Cardinality(Increments({"ok"})) <= Cardinality(S)
          /\ IsFiniteSet(Increments({"ok"}))
      BY <2>3, <3>2, FS_Subset
    <3>4. Cardinality(S) <= Cardinality(Committing)
      BY <2>4, <3>2, FS_Subset
    <3> QED
      BY <3>2, <3>3, <3>4, FS_CardinalityType
  <2>6. /\ Stoi[Stored] = Stoi[StartValue] + Cardinality(S)
        /\ Stoi[StartValue] \in Int
    BY <2>1, ClientsAssumption, StoiAssumption, IntMaxAssumption DEF Tally, Ints
  <2>7. \A x, y, s, a, b \in Int : x = y + s /\ a <= s /\ s <= b => x - y \in a .. b
    OBVIOUS
  <2>8. Stoi[Stored] \in Int
    BY <2>1, StoiAssumption, IntMaxAssumption DEF Tally, Ints
  <2> QED
    BY <2>5, <2>6, <2>7, <2>8
<1> QED
  BY <1>n, <1>1, UpdatesInvariant, PTL

-----------------------------------------------------------------------------
(***************************************************************************)
(* What get_value prints.                                                  *)
(***************************************************************************)

\* The counter never goes back.
LEMMA StoredGrows ==
  ASSUME ServerInv, ClientTypeInv, QueueInv, PlaceInv, UpdateInv, NoOverflow,
         [CNext]_cvars, OnlyIncrements, process' = "running"
  PROVE  /\ {Stored, Stored'} \subseteq DOMAIN Stoi
         /\ Stoi[Stored] <= Stoi[Stored']
<1>p. process = "running" /\ \A c \in Conns : Placed(c)
  BY RunningStep DEF PlaceInv
<1>s. PICK S \in SUBSET Conns : Tally(S)
  BY <1>p DEF UpdateInv
<1>i. TypeInv /\ LockInv /\ PendingInv
  BY DEF ServerInv
<1>t. Stored \in DOMAIN Stoi
  BY <1>s DEF Tally
<1>v. \A v \in DOMAIN Stoi : Stoi[v] \in Int
  BY StoiAssumption, IntMaxAssumption DEF Ints, IntMin
<1>q. ASSUME key_value'[T] = key_value[T] \/ NextOf(Stored')
      PROVE  /\ {Stored, Stored'} \subseteq DOMAIN Stoi
             /\ Stoi[Stored] <= Stoi[Stored']
  BY <1>q, <1>t, <1>v DEF NextOf, Stored
<1>1. ASSUME NEW d \in Conns, Client(d) \/ Killed(d) \/ Server(d)
      PROVE  key_value'[T] = key_value[T] \/ NextOf(Stored')
  <2>t. /\ role[d] = "incr_t" => Updates(d, S)
        /\ role[d] = "get" => Reads(d)
        /\ role[d] \in {"incr_t", "get"}
    BY <1>s DEF Tally, OnlyIncrements
  <2>1. CASE role[d] = "get"
    BY <1>i, <1>p, <1>1, <2>t, <2>1, ReadsOnly
  <2>2. CASE Client(d) \/ Killed(d)
    BY <2>2, ClientSide DEF PeerGone, tables
  <2>3. CASE role[d] = "incr_t" /\ Server(d) /\ ~CommitTable(d, T)
    <3>1. d \notin S => Stoi[Stored] + 1 \in Ints
      BY <1>s, RoomForOne
    <3> QED
      BY <1>i, <1>p, <1>t, <2>t, <2>3, <3>1, ServerUpdates
  <2>4. CASE role[d] = "incr_t" /\ Server(d) /\ CommitTable(d, T)
    BY <1>i, <1>p, <2>t, <2>4, CommitWorks, CommitUpdates
  <2> QED
    BY <1>1, <2>t, <2>1, <2>2, <2>3, <2>4
<1>2. CASE UNCHANGED cvars
  BY <1>2, <1>q DEF cvars, vars, tables
<1> QED
  BY <1>q, <1>1, <1>2, RunningStep

\* So what was read stays true.
LEMMA BetweenKept ==
  ASSUME ServerInv, ClientTypeInv, QueueInv, PlaceInv, UpdateInv, NoOverflow,
         [CNext]_cvars, OnlyIncrements, NEW f, NEW v, Between(f, v)
  PROVE  Between(f, v)'
<1>1. {f, v} \subseteq DOMAIN Stoi /\ Stoi[f] <= Stoi[v]
  BY DEF Between
<1>2. ASSUME process' = "running" PROVE Stoi[v] <= Stoi[Stored']
  <2>1. process = "running"
    BY <1>2, RunningStep
  <2>2. Stoi[v] <= Stoi[Stored]
    BY <2>1 DEF Between
  <2>3. /\ {Stored, Stored'} \subseteq DOMAIN Stoi
        /\ Stoi[Stored] <= Stoi[Stored']
    BY <1>2, StoredGrows
  <2>4. Stoi[v] \in Int /\ Stoi[Stored] \in Int /\ Stoi[Stored'] \in Int
    BY <1>1, <2>3, StoiAssumption, IntMaxAssumption DEF Ints, IntMin
  <2> QED
    BY <2>2, <2>3, <2>4
<1> QED
  BY <1>1, <1>2 DEF Between

\* The others in a step of one.
LEMMA OtherSees ==
  ASSUME NEW c \in Conns, OwnSame(c), \A f, v : Between(f, v) => Between(f, v)'
  PROVE  (Sees(c) => Sees(c)') /\ (Saw(c) => Saw(c)')
<1>1. Sees(c) => Sees(c)'
  BY DEF Sees, OwnSame
<1>2. Saw(c) => Saw(c)'
  BY DEF Saw, OwnSame
<1> QED
  BY <1>1, <1>2

\* A queue of responses.
LEMMA QueueParts ==
  ASSUME NEW s \in Seq(Replies), s # << >>
  PROVE  /\ Head(s) = s[1] /\ 1 \in 1 .. Len(s)
         /\ \A i \in 1 .. Len(Tail(s)) : Tail(s)[i] = s[i + 1] /\ i + 1 \in 1 .. Len(s)
OBVIOUS

\* What a client reads it reads from its connection.
LEMMA ClientSaw ==
  ASSUME ServerInv, ClientTypeInv, QueueInv, PlaceInv, NEW c \in Conns,
         Client(c) \/ Killed(c), Saw(c),
         \A f, v : Between(f, v) => Between(f, v)'
  PROVE  Saw(c)'
<1> USE DEF ClientTypeInv
<1>1. CASE Connect(c)
  <2>1. /\ at[c] = "start" /\ at'[c] = "send" /\ process = "running"
        /\ UNCHANGED <<printed, buf, responses>>
    BY <1>1 DEF Connect, net
  <2>2. responses[c] = << >>
    BY <2>1, AboutToSend DEF ServerInv, PlaceInv
  <2>3. Len(<< >>) = 0 /\ 1 .. 0 = {}
    OBVIOUS
  <2> QED
    BY <2>1, <2>2, <2>3 DEF Saw
<1>2. CASE SendRequest(c)
  <2>1. /\ at'[c] \in {"close", "recv"}
        /\ UNCHANGED <<printed, buf, floor, responses>>
    BY <1>2 DEF SendRequest, AfterWrite
  <2> QED
    BY <2>1 DEF Saw
<1>3. ASSUME NEW how, NEW unread, Ends(c, how, unread), UNCHANGED <<printed, floor>>
      PROVE  Saw(c)'
  <2>1. /\ at'[c] = "done" /\ buf'[c].type = "unset" /\ responses'[c] = << >>
    BY <1>3 DEF Ends
  <2>2. Len(<< >>) = 0 /\ 1 .. 0 = {}
    OBVIOUS
  <2> QED
    BY <1>3, <2>1, <2>2 DEF Saw
<1>4. CASE ConnectFails(c) \/ EncodeThrows(c) \/ WriteToReset(c) \/ Finish(c)
           \/ Killed(c)
  BY <1>3, <1>4
     DEF ConnectFails, EncodeThrows, WriteToReset, Finish, Killed, Stays
<1>5. ASSUME NEW line, NEW unread, Judge(c, line, unread), UNCHANGED floor,
             line.type = "DATA" => Between(floor[c], line.value),
             \A i \in 1 .. Len(unread) :
               unread[i].type = "DATA" => Between(floor[c], unread[i].value)
      PROVE  Saw(c)'
  <2>1. CASE line.type = Current(c).want
    <3>1. /\ at'[c] = "send" /\ buf'[c] = line /\ responses'[c] = unread
          /\ printed'[c] = IF line.type = "DATA" THEN line.value ELSE printed[c]
      BY <1>5, <2>1 DEF Judge
    <3>2. printed'[c] # NoValue => Between(floor[c], printed'[c])
      BY <1>5, <3>1 DEF Saw
    <3> QED
      BY <1>5, <3>1, <3>2 DEF Saw
  <2>2. CASE line.type # Current(c).want
    BY <1>3, <1>5, <2>2 DEF Judge
  <2> QED
    BY <2>1, <2>2
<1>6. CASE ReadResponse(c)
  <2>1. /\ responses[c] \in Seq(Replies) /\ responses[c] # << >>
        /\ Judge(c, Head(responses[c]), Tail(responses[c])) /\ UNCHANGED floor
    BY <1>6 DEF ReadResponse
  <2>2. /\ Head(responses[c]).type = "DATA" =>
             Between(floor[c], Head(responses[c]).value)
        /\ \A i \in 1 .. Len(Tail(responses[c])) :
             Tail(responses[c])[i].type = "DATA" =>
               Between(floor[c], Tail(responses[c])[i].value)
    BY <2>1, QueueParts DEF Saw
  <2> QED
    BY <1>5, <2>1, <2>2
<1>7. CASE ReadNothing(c)
  <2>1. Judge(c, buf[c], << >>) /\ UNCHANGED floor
    BY <1>7 DEF ReadNothing
  <2>2. Len(<< >>) = 0 /\ 1 .. 0 = {}
    OBVIOUS
  <2>3. buf[c].type = "DATA" => Between(floor[c], buf[c].value)
    BY DEF Saw
  <2> QED
    BY <1>5, <2>1, <2>2, <2>3
<1> QED
  BY <1>1, <1>2, <1>4, <1>6, <1>7 DEF Client

\* A client's step changes what its session may know only when it connects.
LEMMA ClientSees ==
  ASSUME ServerInv, ClientTypeInv, QueueInv, process = "running",
         NEW c \in Conns, Client(c) \/ Killed(c), Saw(c), Sees(c),
         Stored \in DOMAIN Stoi, \A f, v : Between(f, v) => Between(f, v)'
  PROVE  Sees(c)'
<1> USE DEF ClientTypeInv
<1>s. PeerGone(c)
  BY ClientSide
<1>u. /\ UNCHANGED <<m_stack, resp, pc, value>> /\ Stored' = Stored
      /\ process' = process
  BY <1>s DEF PeerGone, session, tables, Stored
<1>r. role' = role /\ accepted' = accepted
  BY DEF Client, Connect, ConnectFails, EncodeThrows, SendRequest, net,
     WriteToReset, ReadResponse, ReadNothing, Finish, Killed, Judge, Ends
<1>1. CASE Connect(c)
  <2>1. at[c] = "start" /\ floor'[c] = Stored
    BY <1>1 DEF Connect
  <2>2. pc[c] = "off"
    BY <2>1 DEF Saw, QueueInv, OneUnderWay
  <2>3. m_stack[c] = << >>
    BY <2>2 DEF ServerInv, LoginInv
  <2>4. resp[c] # "DATA"
    BY <2>2 DEF Sees
  <2>5. Between(Stored, Stored)
    BY StoiAssumption, IntMaxAssumption DEF Between, Ints, IntMin
  <2>6. Between(floor[c], floor[c])'
    BY <1>u, <2>1, <2>5 DEF Between
  <2>7. Len(<< >>) = 0 /\ 1 .. 0 = {}
    OBVIOUS
  <2> QED
    BY <1>u, <2>3, <2>4, <2>6, <2>7 DEF Sees
<1>2. CASE ~Connect(c)
  <2>1. /\ floor' = floor
        /\ at'[c] \in {"send", "recv", "close"} => at[c] \in {"send", "recv"}
        /\ sock'[c] # "open" =>
             sock[c] # "open" \/ at[c] \in {"send", "recv", "close"}
    <3>1. CASE SendRequest(c)
      BY <3>1 DEF SendRequest, AfterWrite, vars
    <3>2. CASE ConnectFails(c) \/ EncodeThrows(c) \/ WriteToReset(c)
               \/ Finish(c) \/ Killed(c)
      BY <3>2 DEF ConnectFails, EncodeThrows, WriteToReset, Finish, Killed,
                  Ends, Stays
    <3>3. CASE ReadResponse(c) \/ ReadNothing(c)
      BY <3>3 DEF ReadResponse, ReadNothing, Judge, Ends, vars
    <3> QED
      BY <1>2, <3>1, <3>2, <3>3 DEF Client
  <2> QED
    BY <1>u, <1>r, <2>1 DEF Sees
<1> QED
  BY <1>1, <1>2

\* A request: only TOP is answered with DATA, and neither program changes its
\* operands with what get_value sends.
LEMMA DispatchSees ==
  ASSUME TypeInv, NEW c \in Conns, NEW m, Dispatch(c, m), process' = "running"
  PROVE  /\ resp'[c] = "DATA" /\ resp[c] # "DATA" => HandleTop(c, m)
         /\ m.type \in {"LOGIN", "GET", "TOP", "BYE", "GARBAGE"} =>
              UNCHANGED m_stack
         /\ UNCHANGED sock
<1> USE DEF TypeInv, TypeOK, GoTo, Answer, LastAnswer, FailTransaction, session
<1>1. ~DivisionTrap(c, m)
  BY DEF DivisionTrap, Dies
<1>2. CASE HandleTop(c, m)
  BY <1>2 DEF HandleTop
<1>3. CASE HandlePush(c, m) \/ HandlePop(c, m) \/ BadOperands(c, m)
           \/ HandleArith(c, m) \/ HandleSet(c, m)
  BY <1>3 DEF HandlePush, HandlePop, BadOperands, HandleArith, HandleSet,
              Admitted, ArithOps
<1>4. CASE \/ NotLoggedIn(c, m) \/ InvalidRequest(c, m) \/ HandleLogin(c, m)
           \/ HandleBye(c, m) \/ EmptyStack(c, m) \/ TooFewOperands(c, m)
           \/ HandleBegin(c, m) \/ NestedBegin(c, m) \/ NotInTransaction(c, m)
           \/ HandleCreate(c, m) \/ HandleGet(c, m) \/ HandleCommit(c, m)
  BY <1>4 DEF NotLoggedIn, InvalidRequest, HandleLogin, HandleBye, EmptyStack,
     TooFewOperands, HandleBegin, NestedBegin, NotInTransaction, HandleCreate,
     HandleGet, HandleCommit
<1> QED
  BY <1>1, <1>2, <1>3, <1>4 DEF Dispatch

\* The lines of get_value, and that incr_value -t does not send TOP.
LEMMA WhoSends ==
  ASSUME ClientTypeInv, NEW c \in Conns, role[c] \in {"incr_t", "get"}
  PROVE  /\ role[c] = "get" =>
              Line(c).type \in {"LOGIN", "GET", "TOP", "BYE", "GARBAGE"}
         /\ Line(c).type = "TOP" => role[c] = "get"
<1>1. step[c] \in 1 .. Len(Program(role[c]))
  BY DEF ClientTypeInv
<1>2. CASE role[c] = "get"
  <2>1. step[c] \in 1 .. 4
    BY <1>1, <1>2, GetProgram, Zenon
  <2>2. \A i \in 1 .. 4 :
          Program("get")[i].line.type \in {"LOGIN", "GET", "TOP", "BYE"}
    BY GetProgram DEF Plain, OnKey, Bye, Ask
  <2> QED
    BY <1>2, <2>1, <2>2 DEF Line, Current
<1>3. CASE role[c] = "incr_t"
  <2>1. step[c] \in 1 .. 8
    BY <1>3, IncrTPlace
  <2>2. \A i \in 1 .. 8 : Program("incr_t")[i].line.type # "TOP"
    BY IncrTProgram DEF Plain, OnKey, PushOf, Bye, Ask
  <2> QED
    BY <1>3, <2>1, <2>2 DEF Line, Current
<1> QED
  BY <1>2, <1>3

\* A thread at work for get_value pushes the committed value, or nothing.
LEMMA WorkSees ==
  ASSUME ServerInv, ClientTypeInv, process = "running", NEW c \in Conns,
         role[c] = "get" => Reads(c), Work(c), process' = "running",
         Stored \in DOMAIN Stoi, resp[c] = "DATA" => pc[c] = "reply"
  PROVE  /\ role[c] = "get" =>
              m_stack'[c] \in {m_stack[c], << >>, Push(m_stack[c], Stored)}
         /\ resp'[c] # "DATA"
         /\ sock'[c] # "open" => sock[c] # "open"
         /\ pc[c] # "off"
<1> USE DEF TypeInv, TypeOK, ServerInv, GoTo, Answer, At, session
<1>t. T \in Tables /\ K \in Keys
  BY ClientsAssumption
<1>n. ~ResponseTooLong(c) /\ ~BrokenPipe(c)
  BY DEF ResponseTooLong, BrokenPipe, Dies
<1>1. CASE LockRegistry(c) \/ CreateTable(c) \/ FindTable(c)
  BY <1>1 DEF LockRegistry, CreateTable, FindTable
<1>2. CASE TryLock(c) \/ TryLockFails(c) \/ LockTable(c) \/ UnlockTable(c)
  BY <1>2 DEF TryLock, TryLockFails, LockTable, UnlockTable, FailTransaction
<1>3. CASE GetAccess(c)
  <2>1. /\ pc[c] = "access" /\ req[c].table = T /\ req[c].key = K
        /\ UNCHANGED sock
    BY <1>3 DEF GetAccess, RequestInv, AccessPCs, ClientTypeInv
  <2>2. resp'[c] # "DATA"
    BY <1>3 DEF GetAccess, Leave
  <2>3. ASSUME role[c] = "get"
        PROVE  m_stack'[c] \in {m_stack[c], Push(m_stack[c], Stored)}
    <3>1. ~m_in_transaction[c] /\ locked_tables[c] = {}
      BY <2>3 DEF Reads, LockInv, TxnInv
    <3>2. table_mutex[T] = c
      <4>1. T \in Held(c)
        BY <2>1, <3>1 DEF Held, LoopPCs
      <4>2. MutexInv
        BY DEF LockInv
      <4> QED
        BY <1>t, <4>1, <4>2 DEF MutexInv
    <3>3. key_value_temp[T] = EmptyMap
      BY <1>t, <3>1, <3>2 DEF PendingInv
    <3>4. TableGet(key_value[T], key_value_temp[T], K) = Stored
      BY <1>t, <3>3 DEF TableGet, EmptyMap, Stored
    <3> QED
      BY <1>3, <2>1, <3>4 DEF GetAccess
  <2> QED
    BY <2>1, <2>2, <2>3
<1>4. CASE SetAccess(c)
  BY <1>4 DEF SetAccess, Leave
<1>5. CASE \E t \in Tables : CommitTable(c, t) \/ RollbackTable(c, t)
  BY <1>5 DEF CommitTable, RollbackTable
<1>6. CASE CommitDone(c) \/ RollbackDone(c)
  BY <1>6 DEF CommitDone, RollbackDone, EndTransaction
<1>7. CASE DtorDone(c)
  BY <1>7 DEF DtorDone
<1>8. CASE SendReply(c)
  BY <1>8 DEF SendReply, Destroy
<1> QED
  BY <1>n, <1>1, <1>2, <1>3, <1>4, <1>5, <1>6, <1>7, <1>8 DEF Work

\* PUSH keeps the operands below.
LEMMA PushAny ==
  ASSUME NEW s \in Seq(Vals), NEW v \in Vals
  PROVE  \A i \in 1 .. Len(Push(s, v)) :
           \/ Push(s, v)[i] = v
           \/ i \in 1 .. Len(s) /\ Push(s, v)[i] = s[i]
BY DEF Push

\* The thread's steps.
LEMMA ServerSees ==
  ASSUME ServerInv, ClientTypeInv, QueueInv, process = "running",
         NEW c \in Conns, Placed(c), role[c] \in {"incr_t", "get"},
         role[c] = "get" => Reads(c), Server(c), process' = "running",
         Stored \in DOMAIN Stoi, Sees(c), Saw(c),
         \A f, v : Between(f, v) => Between(f, v)'
  PROVE  Sees(c)' /\ Saw(c)'
<1>c. UNCHANGED client
  BY DEF Server, AcceptConnection, ReadRequest, ReadEnd, ServerWorks
<1>i. TypeInv
  BY DEF ServerInv
\* Nothing new is on its way to the client.
<1>w. ASSUME responses' = responses, at[c] = "start" => accepted' = accepted
      PROVE  Saw(c)'
  BY <1>c, <1>w DEF Saw, client
<1>1. CASE AcceptConnection(c)
  <2>1. /\ at[c] # "start" /\ (at[c] = "done" => sock[c] # "open")
        /\ pc[c] = "off" /\ UNCHANGED <<resp, sock, responses, m_stack>>
    BY <1>1 DEF AcceptConnection, AcceptClient
  <2>2. at[c] \in {"send", "recv", "close"} \/ sock[c] # "open"
    BY <2>1 DEF ClientTypeInv, Places
  <2>3. Sees(c)'
    BY <1>c, <2>1, <2>2 DEF Sees, client
  <2> QED
    BY <1>w, <2>1, <2>3
<1>2. CASE ReadEnd(c)
  <2>1. /\ pc[c] = "read"
        /\ UNCHANGED <<resp, sock, responses, m_stack, accepted>>
    BY <1>2 DEF ReadEnd, ReadEOF, At, session, net
  <2>2. Sees(c)'
    BY <1>c, <2>1 DEF Sees, client
  <2> QED
    BY <1>w, <2>1, <2>2
<1>3. CASE ReadRequest(c)
  <2>1. /\ pc[c] = "read" /\ Dispatch(c, Line(c)) /\ UNCHANGED <<responses, accepted>>
    BY <1>i, <1>3, TakesLine
  <2>2. /\ resp'[c] = "DATA" => HandleTop(c, Line(c))
        /\ role[c] = "get" => UNCHANGED m_stack
        /\ UNCHANGED sock
    BY <1>i, <2>1, DispatchSees, WhoSends DEF Sees
  <2>3. ASSUME resp'[c] = "DATA"
        PROVE  role[c] = "get" /\ pc'[c] = "reply" /\ Between(floor[c], value'[c])
    <3>1. /\ Line(c).type = "TOP" /\ ~IsEmpty(m_stack[c]) /\ pc'[c] = "reply"
          /\ value'[c] = GetTop(m_stack[c])
      BY <1>i, <2>2, <2>3
         DEF HandleTop, Admitted, Answer, GoTo, TypeInv, TypeOK
    <3>2. role[c] = "get"
      BY <3>1, WhoSends
    <3>3. value'[c] = m_stack[c][Len(m_stack[c])] /\ Len(m_stack[c]) \in 1 .. Len(m_stack[c])
      <4>1. m_stack[c] \in Seq(Vals)
        BY <1>i DEF TypeInv, TypeOK
      <4>2. Len(m_stack[c]) \in Nat /\ Len(m_stack[c]) # 0
        BY <3>1, <4>1, LenProperties DEF IsEmpty
      <4>3. \A n \in Nat : n # 0 => n \in 1 .. n
        OBVIOUS
      <4> QED
        BY <3>1, <4>2, <4>3 DEF GetTop
    <3> QED
      BY <3>1, <3>2, <3>3 DEF Sees
  <2>4. Sees(c)'
    BY <1>c, <2>1, <2>2, <2>3 DEF Sees, client
  <2> QED
    BY <1>w, <2>1, <2>4
<1>4. CASE ServerWorks(c)
  <2>1. Work(c) /\ UNCHANGED accepted
    BY <1>4 DEF ServerWorks
  <2>2. /\ role[c] = "get" =>
             m_stack'[c] \in {m_stack[c], << >>, Push(m_stack[c], Stored)}
        /\ resp'[c] # "DATA" /\ pc[c] # "off"
        /\ sock'[c] # "open" => sock[c] # "open"
    BY <2>1, WorkSees DEF Sees
  <2>3. Between(floor[c], floor[c]) /\ Between(floor[c], Stored)
    <3>1. Between(floor[c], floor[c])
      BY <2>2 DEF QueueInv, OneUnderWay, Sees
    <3> QED
      BY <3>1, StoiAssumption, IntMaxAssumption DEF Between, Ints, IntMin
  <2>4. ASSUME role[c] = "get"
        PROVE  \A i \in 1 .. Len(m_stack'[c]) : Between(floor[c], m_stack'[c][i])
    <3>1. CASE m_stack'[c] = m_stack[c]
      BY <2>4, <3>1 DEF Sees
    <3>2. CASE m_stack'[c] = << >>
      BY <3>2
    <3>3. CASE m_stack'[c] = Push(m_stack[c], Stored)
      <4>1. m_stack[c] \in Seq(Vals) /\ Stored \in Vals
        BY <1>i, StoiAssumption DEF TypeInv, TypeOK
      <4>2. \A i \in 1 .. Len(m_stack'[c]) :
               \/ m_stack'[c][i] = Stored
               \/ i \in 1 .. Len(m_stack[c]) /\ m_stack'[c][i] = m_stack[c][i]
        BY <3>3, <4>1, PushAny
      <4> QED
        BY <2>3, <2>4, <4>2 DEF Sees
    <3> QED
      BY <2>2, <2>4, <3>1, <3>2, <3>3
  <2>5. Sees(c)'
    BY <1>c, <2>2, <2>3, <2>4 DEF Sees, client
  <2>6. CASE responses' = responses
    BY <1>w, <2>1, <2>5, <2>6
  <2>7. CASE responses' # responses
    <3>1. /\ pc[c] \in {"reply", "last_reply"}
          /\ responses'[c] = Append(responses[c], Response(c))
      BY <1>4, <2>7 DEF ServerWorks, ClientTypeInv
    <3>2. responses[c] = << >>
      BY <3>1, ServedAlone DEF IdlePCs
    <3>3. Len(Append(<< >>, Response(c))) = 1
          /\ Append(<< >>, Response(c))[1] = Response(c)
      OBVIOUS
    <3>4. Response(c).type = "DATA" => Between(floor[c], Response(c).value)
      BY DEF Response, Sees
    <3>5. \A i \in 1 .. Len(responses'[c]) :
            responses'[c][i].type = "DATA" => Between(floor[c], responses'[c][i].value)
      <4>1. 1 .. 1 = {1}
        OBVIOUS
      <4> QED
        BY <3>1, <3>2, <3>3, <3>4, <4>1, Zenon
    <3>6. Saw(c)'
      BY <1>c, <2>1, <3>5 DEF Saw, client
    <3> QED
      BY <2>5, <3>6
  <2> QED
    BY <2>6, <2>7
<1> QED
  BY <1>1, <1>2, <1>3, <1>4 DEF Server

\* The end of the process reaches a client only through its connection.
LEMMA DyingStep ==
  ASSUME ServerInv, ClientTypeInv, [CNext]_cvars, process' # "running"
  PROVE  \/ \E c \in Conns : Client(c) \/ Killed(c)
         \/ UNCHANGED <<client, responses, accepted>>
<1>1. ASSUME NEW c \in Conns, Server(c) PROVE UNCHANGED <<client, responses, accepted>>
  <2>1. CASE ReadRequest(c)
    BY <2>1 DEF ReadRequest
  <2>2. CASE ServerWorks(c)
    <3>1. ResponseTooLong(c) \/ BrokenPipe(c)
      <4>1. Work(c) /\ TypeInv
        BY <2>2 DEF ServerWorks, ServerInv
      <4>2. process = "running"
            /\ (Serves(c) \/ Destroys(c) \/ SendReply(c) \/ ResponseTooLong(c)
                \/ BrokenPipe(c))
        BY <4>1, WorkShape
      <4> QED
        BY <4>2 DEF Serves, Destroys, SendReply
    <3>2. pc[c] = "rollback" \/ sock[c] = "reset"
      BY <3>1 DEF ResponseTooLong, BrokenPipe, At
    <3> QED
      BY <2>2, <3>2 DEF ServerWorks
  <2>3. CASE AcceptConnection(c) \/ ReadEnd(c)
    BY <2>3 DEF AcceptConnection, AcceptClient, ReadEnd, ReadEOF, At
  <2> QED
    BY <1>1, <2>1, <2>2, <2>3 DEF Server
<1> QED
  BY <1>1 DEF CNext, ServerExits, AllDone, cvars, net

\* Every step keeps what has been read.
LEMMA NextSaw ==
  ASSUME ServerInv, ClientTypeInv, QueueInv, PlaceInv, UpdateInv, NoOverflow,
         SeesInv, SawInv, [CNext]_cvars
  PROVE  SeesInv' /\ SawInv'
<1>r. role' = role /\ (OnlyIncrements' => OnlyIncrements)
  BY SameRoles DEF OnlyIncrements
<1>b. ASSUME OnlyIncrements PROVE \A f, v : Between(f, v) => Between(f, v)'
  BY <1>b, BetweenKept
<1>i. TypeInv
  BY DEF ServerInv
<1>1. ASSUME process' = "running", OnlyIncrements, NEW c \in Conns
      PROVE  Sees(c)' /\ Saw(c)'
  <2>p. process = "running" /\ Placed(c)
    BY <1>1, RunningStep DEF PlaceInv
  <2>s. /\ Stored \in DOMAIN Stoi /\ (role[c] = "get" => Reads(c))
        /\ role[c] \in {"incr_t", "get"}
    BY <1>1, <2>p DEF UpdateInv, Tally, OnlyIncrements
  <2>i. Sees(c) /\ Saw(c)
    BY <1>1, <2>p DEF SeesInv, SawInv
  <2>1. ASSUME NEW d \in Conns, Client(d) \/ Killed(d) \/ Server(d)
        PROVE  Sees(c)' /\ Saw(c)'
    <3>1. CASE c = d /\ (Client(c) \/ Killed(c))
      BY <1>1, <1>b, <2>p, <2>s, <2>i, <3>1, ClientSees, ClientSaw
    <3>2. CASE c = d /\ Server(c)
      BY <1>1, <1>b, <2>p, <2>s, <2>i, <3>2, ServerSees
    <3>3. CASE c # d
      BY <1>1, <1>b, <1>i, <2>i, <2>1, <3>3, StepOfOne, OtherSees
    <3> QED
      BY <2>1, <3>1, <3>2, <3>3
  <2>2. CASE UNCHANGED cvars
    <3>1. OwnSame(c)
      BY <2>2 DEF cvars, vars, client, net, session, OwnSame
    <3> QED
      BY <1>1, <1>b, <2>i, <3>1, OtherSees
  <2> QED
    BY <1>1, <2>1, <2>2, RunningStep
<1>2. ASSUME process' # "running", OnlyIncrements, NEW c \in Conns
      PROVE  Saw(c)'
  <2>i. Saw(c)
    BY <1>2 DEF SawInv
  <2>1. ASSUME NEW d \in Conns, Client(d) \/ Killed(d) PROVE Saw(c)'
    <3>1. CASE c = d
      BY <1>2, <1>b, <2>1, <2>i, <3>1, ClientSaw
    <3>2. CASE c # d
      BY <1>2, <1>b, <1>i, <2>1, <2>i, <3>2, ClientOfOne, OtherSees
    <3> QED
      BY <3>1, <3>2
  <2>2. CASE UNCHANGED <<client, responses, accepted>>
    BY <1>2, <1>b, <2>2, <2>i DEF Saw, client
  <2> QED
    BY <1>2, <2>1, <2>2, DyingStep
<1>3. SeesInv'
  BY <1>1, <1>r DEF SeesInv
<1>4. SawInv'
  BY <1>1, <1>2, <1>r DEF SawInv
<1> QED
  BY <1>3, <1>4

\* Nobody has read anything at first.
LEMMA InitSaw == CInit => SeesInv /\ SawInv
<1> SUFFICES ASSUME CInit, NEW c \in Conns PROVE Sees(c) /\ Saw(c)
  BY DEF SeesInv, SawInv
<1>1. /\ at[c] = "start" /\ ~accepted[c] /\ responses[c] = << >>
      /\ printed[c] = NoValue /\ buf[c].type = "unset"
      /\ m_stack[c] = << >> /\ resp[c] = "NONE" /\ sock[c] = "open"
  BY DEF CInit, InitWith, EachConn
<1>2. Len(<< >>) = 0 /\ 1 .. 0 = {}
  OBVIOUS
<1> QED
  BY <1>1, <1>2 DEF Sees, Saw

\* FreshRead, for any finite number of clients: what get_value.cpp prints beside
\* any number of incr_value -t was committed by Table::commit_changes, and was
\* not older than its connection; also when the server has exited under it
\* and it decodes what its buffer holds.
THEOREM ReadsAreFresh ==
  ASSUME IsFiniteSet(Conns),
         Stoi[StartValue] + Cardinality(Conns) <= IntMax
  PROVE  CSpec => []FreshRead
<1>n. NoOverflow
  BY DEF NoOverflow
<1>1. CInit => PlaceInv /\ EndInv /\ UpdateInv /\ SeesInv /\ SawInv
  BY InitUpdate, InitSaw
<1>2. /\ ServerInv /\ ClientTypeInv /\ QueueInv
      /\ PlaceInv /\ UpdateInv /\ SeesInv /\ SawInv /\ [CNext]_cvars
      => PlaceInv' /\ UpdateInv' /\ SeesInv' /\ SawInv'
  BY <1>n, NextPlace, NextUpdate, NextSaw DEF ServerInv
<1>3. SawInv => FreshRead
  BY DEF SawInv, Saw, Between, FreshRead, OnlyIncrements
<1> QED
  BY <1>1, <1>2, <1>3, ClientsInvariant, PTL DEF CSpec
=============================================================================
