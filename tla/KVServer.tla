------------------------------ MODULE KVServer ------------------------------
(***************************************************************************)
(* The server process: server_loop (the main thread, server.cpp) and one    *)
(* thread per connection running chat_with_client (client_connection.cpp)   *)
(* over the shared tables (table.cpp), table_lock and the table mutexes.    *)
(*                                                                         *)
(* A step of a thread is the code between two points where another thread   *)
(* can interfere: a lock or trylock, the work done under it, one iteration  *)
(* of a commit or rollback loop, the write of the response.  pc[c] names    *)
(* the point the thread of connection c has reached:                        *)
(*                                                                         *)
(*   off       no such connection         trylock   Table::trylock         *)
(*   read      in rio_readlineb           lock      Guard on the table     *)
(*   create_lock  Guard on table_lock     access    Table::get / set       *)
(*   create    create_table, locked       unlock    ~Guard of the table    *)
(*   find_lock    Guard on table_lock     commit    handle_commit's loop   *)
(*   find      find_table, locked         rollback  the catch's loop       *)
(*   reply     rio_writen                 dtor      ~ClientConnection      *)
(*   last_reply   rio_writen, then out of the loop                         *)
(*                                                                         *)
(* The peer of a connection is any client at all: it may send any request   *)
(* of Requests at any time, and close at any time.  (Unless Impatient, it   *)
(* waits for the response to one before it does the next: the server looks  *)
(* at the socket only to read and to write, and cannot tell the difference  *)
(* from a client that closes while its last request is served.)             *)
(*                                                                         *)
(* A definition said to be a mutant of another is a plausible mistake in    *)
(* it; only the mutation runs use it.                                       *)
(***************************************************************************)
EXTENDS Table

CONSTANTS
  Conns,      \* connection slots; a slot is reused when its connection ends
  Tables,     \* table names
  LongNames,  \* the names that do not fit a FailedTransaction response
  Requests,   \* the lines clients send
  Impatient,  \* may a client send on, or close, while a response is due?
  Nobody,     \* the owner of a free mutex
  MaxDepth    \* bound on the operand stacks (unbounded in the code)

(***************************************************************************)
(* Lines as decode sees them.  GARBAGE is a line it rejects, OTHER a valid   *)
(* message that is a response, NONE the type of an unset Message.           *)
(***************************************************************************)
PlainTypes == {"LOGIN", "POP", "TOP", "ADD", "SUB", "MUL", "DIV",
               "BEGIN", "COMMIT", "BYE", "OTHER", "GARBAGE", "NONE"}
Message == [type : PlainTypes]
      \cup [type : {"PUSH"}, value : Vals]
      \cup [type : {"CREATE"}, table : Tables]
      \cup [type : {"GET", "SET"}, table : Tables, key : Keys]
NoMessage == [type |-> "NONE"]

ASSUME KVAssumption ==
  /\ Nobody \notin Conns
  /\ LongNames \subseteq Tables
  /\ Requests \subseteq Message \ {NoMessage}
  /\ Impatient \in BOOLEAN
  /\ MaxDepth \in Nat

VARIABLES
  process,          \* "running", or how the server process ended
  set_of_table,     \* Server: names of the tables
  table_lock,       \* Server: owner of the mutex of set_of_table
  table_mutex,      \* Table: owner of the mutex of each table
  key_value,        \* Table: committed map of each table
  key_value_temp,   \* Table: pending changes of each table
  pc,               \* where the thread of a connection is
  m_logged_in,      \* ClientConnection members
  m_in_transaction,
  locked_tables,
  m_stack,
  req,              \* the handler's request, while it is between two steps
  value,            \* the handler's local value (SET, TOP)
  resp,             \* the response to write
  rest,             \* tables a commit or rollback loop has still to visit
  sock              \* the peer: open, closed, or reset after a lost write

registry == <<set_of_table, table_lock>>
tables   == <<table_mutex, key_value, key_value_temp>>
session  == <<m_logged_in, m_in_transaction, locked_tables, m_stack>>
vars == <<process, registry, tables, pc, session, req, value, resp, rest, sock>>

PCs == {"off", "read", "create_lock", "create", "find_lock", "find", "trylock",
        "lock", "access", "unlock", "commit", "rollback", "reply",
        "last_reply", "dtor"}

TypeOK ==
  /\ process \in {"running", "exited", "SIGPIPE", "SIGFPE", "terminated"}
  /\ set_of_table \subseteq Tables
  /\ table_lock \in Conns \cup {Nobody}
  /\ table_mutex \in [Tables -> Conns \cup {Nobody}]
  /\ key_value \in [Tables -> Map]
  /\ key_value_temp \in [Tables -> Map]
  /\ pc \in [Conns -> PCs]
  /\ m_logged_in \in [Conns -> BOOLEAN]
  /\ m_in_transaction \in [Conns -> BOOLEAN]
  /\ locked_tables \in [Conns -> SUBSET Tables]
  /\ m_stack \in [Conns -> Seq(Vals)]
  /\ req \in [Conns -> Message]
  /\ value \in [Conns -> Vals \cup {NoValue}]
  /\ resp \in [Conns -> {"NONE", "OK", "FAILED", "ERROR", "DATA"}]
  /\ rest \in [Conns -> SUBSET Tables]
  /\ sock \in [Conns -> {"open", "closed", "reset"}]

\* A process without tables and connections.
EachConn(x)  == [c \in Conns |-> x]
EachTable(x) == [t \in Tables |-> x]

\* No connections; tables and values that earlier ones have left.
InitWith(created, maps) ==
  /\ process = "running"
  /\ set_of_table = created /\ table_lock = Nobody
  /\ table_mutex = EachTable(Nobody)
  /\ key_value = maps /\ key_value_temp = EachTable(EmptyMap)
  /\ pc = EachConn("off") /\ sock = EachConn("open")
  /\ m_logged_in = EachConn(FALSE) /\ m_in_transaction = EachConn(FALSE)
  /\ locked_tables = EachConn({}) /\ m_stack = EachConn(<< >>)
  /\ req = EachConn(NoMessage) /\ value = EachConn(NoValue)
  /\ resp = EachConn("NONE") /\ rest = EachConn({})

Init == InitWith({}, EachTable(EmptyMap))

\* The process ends: its memory, and with it every table, is lost.
Dies(how) ==
  /\ process' = how
  /\ set_of_table' = {} /\ table_lock' = Nobody
  /\ table_mutex' = EachTable(Nobody)
  /\ key_value' = EachTable(EmptyMap) /\ key_value_temp' = EachTable(EmptyMap)
  /\ pc' = EachConn("off") /\ sock' = EachConn("open")
  /\ m_logged_in' = EachConn(FALSE) /\ m_in_transaction' = EachConn(FALSE)
  /\ locked_tables' = EachConn({}) /\ m_stack' = EachConn(<< >>)
  /\ req' = EachConn(NoMessage) /\ value' = EachConn(NoValue)
  /\ resp' = EachConn("NONE") /\ rest' = EachConn({})

-----------------------------------------------------------------------------
(***************************************************************************)
(* server_loop: Accept, new ClientConnection, pthread_create.  When          *)
(* pthread_create fails the object is deleted at once and nothing changes.  *)
(***************************************************************************)
AcceptClient(c) ==
  /\ process = "running"
  /\ pc[c] = "off"
  /\ pc' = [pc EXCEPT ![c] = "read"]
  /\ m_logged_in' = [m_logged_in EXCEPT ![c] = FALSE]
  /\ m_in_transaction' = [m_in_transaction EXCEPT ![c] = FALSE]
  /\ UNCHANGED <<process, registry, tables, locked_tables, m_stack,
                 req, value, resp, rest, sock>>

\* csapp's Accept wrapper calls unix_error, which exits the process.
AcceptError == process = "running" /\ Dies("exited")

\* The client closes its socket, or ends.
PeerCloses(c) ==
  /\ process = "running"
  /\ sock[c] = "open"
  /\ pc[c] = "read" \/ (Impatient /\ pc[c] # "off")
  /\ sock' = [sock EXCEPT ![c] = "closed"]
  /\ UNCHANGED <<process, registry, tables, pc, session, req, value, resp, rest>>

-----------------------------------------------------------------------------
(***************************************************************************)
(* chat_with_client: read a line, decode it, check the login, dispatch.     *)
(* The handlers that touch only the connection run to their response.       *)
(***************************************************************************)
At(c, where) == process = "running" /\ pc[c] = where

\* A line sent before the peer closed may still be buffered afterwards.
Receives(c) == At(c, "read") /\ (sock[c] = "open" \/ Impatient)

\* Mutant of Admitted: no login check.
AdmittedUnchecked(c, m, types) == Receives(c) /\ m.type \in types

\* A request of one of the types, past the login check.
Admitted(c, m, types) ==
  /\ Receives(c)
  /\ m.type \in types
  /\ m_logged_in[c] \/ m.type \in {"LOGIN", "BYE"}

GoTo(c, where) == pc' = [pc EXCEPT ![c] = where]

Answer(c, r)     == GoTo(c, "reply") /\ resp' = [resp EXCEPT ![c] = r]
LastAnswer(c, r) == GoTo(c, "last_reply") /\ resp' = [resp EXCEPT ![c] = r]

\* Mutant of Destroy: the destructor only closes the socket.
DestroyLeaking(c) == GoTo(c, "dtor") /\ rest' = [rest EXCEPT ![c] = {}]

\* Out of the loop and into the destructor, which rolls back if it must.
Destroy(c) ==
  /\ GoTo(c, "dtor")
  /\ rest' = [rest EXCEPT ![c] = IF m_in_transaction[c] THEN locked_tables[c]
                                                        ELSE {}]

\* rio_readlineb returns 0 or -1: leave the loop, destroy the connection.
ReadEOF(c) ==
  /\ At(c, "read")
  /\ sock[c] # "open"
  /\ Destroy(c)
  /\ UNCHANGED <<process, registry, tables, session, req, value, resp, sock>>

\* OperationException of the login check.
NotLoggedIn(c, m) ==
  /\ Receives(c)
  /\ m.type \notin {"LOGIN", "BYE", "GARBAGE"}
  /\ ~m_logged_in[c]
  /\ Answer(c, "FAILED")
  /\ UNCHANGED <<process, registry, tables, session, req, value, rest, sock>>

\* InvalidMessage, from decode or from the default case of the switch.
InvalidRequest(c, m) ==
  /\ Receives(c)
  /\ m.type = "GARBAGE" \/ (m.type = "OTHER" /\ m_logged_in[c])
  /\ LastAnswer(c, "ERROR")
  /\ UNCHANGED <<process, registry, tables, session, req, value, rest, sock>>

HandleLogin(c, m) ==
  /\ Admitted(c, m, {"LOGIN"})
  /\ m_logged_in' = [m_logged_in EXCEPT ![c] = TRUE]
  /\ Answer(c, IF m_logged_in[c] THEN "FAILED" ELSE "OK")
  /\ UNCHANGED <<process, registry, tables, m_in_transaction, locked_tables,
                 m_stack, req, value, rest, sock>>

HandleBye(c, m) ==
  /\ Admitted(c, m, {"BYE"})
  /\ LastAnswer(c, "OK")
  /\ UNCHANGED <<process, registry, tables, session, req, value, rest, sock>>

HandlePush(c, m) ==
  /\ Admitted(c, m, {"PUSH"})
  /\ Len(m_stack[c]) < MaxDepth
  /\ m_stack' = [m_stack EXCEPT ![c] = Push(@, m.value)]
  /\ Answer(c, "OK")
  /\ UNCHANGED <<process, registry, tables, m_logged_in, m_in_transaction,
                 locked_tables, req, value, rest, sock>>

\* POP and SET take the top off; on an empty stack POP, TOP and SET throw.
EmptyStack(c, m) ==
  /\ Admitted(c, m, {"POP", "TOP", "SET"})
  /\ IsEmpty(m_stack[c])
  /\ Answer(c, "FAILED")
  /\ UNCHANGED <<process, registry, tables, session, req, value, rest, sock>>

HandlePop(c, m) ==
  /\ Admitted(c, m, {"POP"})
  /\ ~IsEmpty(m_stack[c])
  /\ m_stack' = [m_stack EXCEPT ![c] = Pop(@)]
  /\ Answer(c, "OK")
  /\ UNCHANGED <<process, registry, tables, m_logged_in, m_in_transaction,
                 locked_tables, req, value, rest, sock>>

HandleTop(c, m) ==
  /\ Admitted(c, m, {"TOP"})
  /\ ~IsEmpty(m_stack[c])
  /\ value' = [value EXCEPT ![c] = GetTop(m_stack[c])]
  /\ Answer(c, "DATA")
  /\ UNCHANGED <<process, registry, tables, session, req, rest, sock>>

\* handle_add, handle_sub, handle_mul, handle_div on the two top values.
Left(c)  == GetTop(Pop(m_stack[c]))
Right(c) == GetTop(m_stack[c])

TooFewOperands(c, m) ==
  /\ Admitted(c, m, ArithOps)
  /\ Len(m_stack[c]) < 2
  /\ Answer(c, "FAILED")
  /\ UNCHANGED <<process, registry, tables, session, req, value, rest, sock>>

\* Both operands are already popped when stoi throws or the divisor is 0.
BadOperands(c, m) ==
  /\ Admitted(c, m, ArithOps)
  /\ Len(m_stack[c]) >= 2
  /\ ~Computable(m.type, Left(c), Right(c))
  /\ m_stack' = [m_stack EXCEPT ![c] = Pop(Pop(@))]
  /\ Answer(c, "FAILED")
  /\ UNCHANGED <<process, registry, tables, m_logged_in, m_in_transaction,
                 locked_tables, req, value, rest, sock>>

HandleArith(c, m) ==
  /\ Admitted(c, m, ArithOps)
  /\ Len(m_stack[c]) >= 2
  /\ Computable(m.type, Left(c), Right(c))
  /\ ~Traps(m.type, Left(c), Right(c))
  /\ m_stack' = [m_stack EXCEPT ![c] =
       Push(Pop(Pop(@)),
            ToStr[Result(m.type, Stoi[Left(c)], Stoi[Right(c)])])]
  /\ Answer(c, "OK")
  /\ UNCHANGED <<process, registry, tables, m_logged_in, m_in_transaction,
                 locked_tables, req, value, rest, sock>>

\* INT_MIN / -1 raises SIGFPE, which ends the process.
DivisionTrap(c, m) ==
  /\ Admitted(c, m, {"DIV"})
  /\ Len(m_stack[c]) >= 2
  /\ Computable(m.type, Left(c), Right(c))
  /\ Traps(m.type, Left(c), Right(c))
  /\ Dies("SIGFPE")

HandleBegin(c, m) ==
  /\ Admitted(c, m, {"BEGIN"})
  /\ ~m_in_transaction[c]
  /\ m_in_transaction' = [m_in_transaction EXCEPT ![c] = TRUE]
  /\ Answer(c, "OK")
  /\ UNCHANGED <<process, registry, tables, m_logged_in, locked_tables,
                 m_stack, req, value, rest, sock>>

\* throw FailedTransaction: the catch clause loops over locked_tables.
FailTransaction(c) ==
  GoTo(c, "rollback") /\ rest' = [rest EXCEPT ![c] = locked_tables[c]]

NestedBegin(c, m) ==
  /\ Admitted(c, m, {"BEGIN"})
  /\ m_in_transaction[c]
  /\ FailTransaction(c)
  /\ UNCHANGED <<process, registry, tables, session, req, value, resp, sock>>

NotInTransaction(c, m) ==
  /\ Admitted(c, m, {"COMMIT"})
  /\ ~m_in_transaction[c]
  /\ Answer(c, "FAILED")
  /\ UNCHANGED <<process, registry, tables, session, req, value, rest, sock>>

-----------------------------------------------------------------------------
(***************************************************************************)
(* CREATE: Server::create_table under Guard(table_lock).                    *)
(***************************************************************************)
HandleCreate(c, m) ==
  /\ Admitted(c, m, {"CREATE"})
  /\ GoTo(c, "create_lock") /\ req' = [req EXCEPT ![c] = m]
  /\ UNCHANGED <<process, registry, tables, session, value, resp, rest, sock>>

\* The handler's locals end with it.
Forget(c) == /\ req' = [req EXCEPT ![c] = NoMessage]
             /\ value' = [value EXCEPT ![c] = NoValue]

\* Guard( table_lock ), in create_table and in find_table.
LockRegistry(c) ==
  /\ process = "running"
  /\ table_lock = Nobody
  /\ table_lock' = c
  /\ \/ pc[c] = "create_lock" /\ GoTo(c, "create")
     \/ pc[c] = "find_lock" /\ GoTo(c, "find")
  /\ UNCHANGED <<process, set_of_table, tables, session, req, value, resp,
                 rest, sock>>

CreateTable(c) ==
  /\ At(c, "create")
  /\ set_of_table' = set_of_table \cup {req[c].table}
  /\ Answer(c, IF req[c].table \in set_of_table THEN "FAILED" ELSE "OK")
  /\ table_lock' = Nobody
  /\ Forget(c)
  /\ UNCHANGED <<process, tables, session, rest, sock>>

(***************************************************************************)
(* GET and SET: find_table, then the table's mutex.  SET pops its value     *)
(* before it looks for the table.                                           *)
(***************************************************************************)
HandleGet(c, m) ==
  /\ Admitted(c, m, {"GET"})
  /\ Len(m_stack[c]) < MaxDepth
  /\ GoTo(c, "find_lock") /\ req' = [req EXCEPT ![c] = m]
  /\ UNCHANGED <<process, registry, tables, session, value, resp, rest, sock>>

HandleSet(c, m) ==
  /\ Admitted(c, m, {"SET"})
  /\ ~IsEmpty(m_stack[c])
  /\ value' = [value EXCEPT ![c] = GetTop(m_stack[c])]
  /\ m_stack' = [m_stack EXCEPT ![c] = Pop(@)]
  /\ GoTo(c, "find_lock") /\ req' = [req EXCEPT ![c] = m]
  /\ UNCHANGED <<process, registry, tables, m_logged_in, m_in_transaction,
                 locked_tables, resp, rest, sock>>

\* Mutants of LockStep: a transaction that blocks, or does not lock at all.
LockStepBlocking(c, t) == IF t \in locked_tables[c] THEN "access" ELSE "lock"
LockStepMissing(c, t)  == IF m_in_transaction[c] THEN "access" ELSE "lock"

\* How the handler gets the table's mutex: autocommit mode blocks on a Guard,
\* a transaction tries, unless it has the table already.
LockStep(c, t) == IF ~m_in_transaction[c] THEN "lock"
                  ELSE IF t \in locked_tables[c] THEN "access"
                  ELSE "trylock"

FindTable(c) ==
  /\ At(c, "find")
  /\ table_lock' = Nobody
  /\ LET t == req[c].table
     IN  \/ /\ t \notin set_of_table
            /\ Answer(c, "FAILED")
            /\ Forget(c)
         \/ /\ t \in set_of_table
            /\ GoTo(c, LockStep(c, t))
            /\ UNCHANGED <<req, value, resp>>
  /\ UNCHANGED <<process, set_of_table, tables, session, rest, sock>>

\* pthread_mutex_trylock or pthread_mutex_lock would succeed.  Free's mutant:
\* the result is not looked at.
FreeAlways(t) == TRUE
Free(t) == table_mutex[t] = Nobody

\* In a transaction: Table::trylock succeeds ...
TryLock(c) ==
  /\ At(c, "trylock")
  /\ LET t == req[c].table
     IN  /\ Free(t)
         /\ table_mutex' = [table_mutex EXCEPT ![t] = c]
         /\ locked_tables' = [locked_tables EXCEPT ![c] = @ \cup {t}]
  /\ GoTo(c, "access")
  /\ UNCHANGED <<process, registry, key_value, key_value_temp, m_logged_in,
                 m_in_transaction, m_stack, req, value, resp, rest, sock>>

\* ... or the transaction fails.
TryLockFails(c) ==
  /\ At(c, "trylock")
  /\ ~Free(req[c].table)
  /\ FailTransaction(c)
  /\ UNCHANGED <<process, registry, tables, session, req, value, resp, sock>>

\* In autocommit mode: Guard( handle_table->get_mutex() ) blocks.
LockTable(c) ==
  /\ At(c, "lock")
  /\ Free(req[c].table)
  /\ table_mutex' = [table_mutex EXCEPT ![req[c].table] = c]
  /\ GoTo(c, "access")
  /\ UNCHANGED <<process, registry, key_value, key_value_temp, session,
                 req, value, resp, rest, sock>>

\* After the access a transaction answers with its locks held, autocommit
\* mode leaves the Guard's scope first, by return or by exception.
Leave(c, r) ==
  IF m_in_transaction[c]
  THEN Answer(c, r) /\ Forget(c)
  ELSE /\ GoTo(c, "unlock")
       /\ resp' = [resp EXCEPT ![c] = r]
       /\ value' = [value EXCEPT ![c] = NoValue]
       /\ UNCHANGED req

GetAccess(c) ==
  /\ At(c, "access")
  /\ req[c].type = "GET"
  /\ LET t == req[c].table
         k == req[c].key
     IN  \/ /\ ~HasKey(key_value[t], key_value_temp[t], k)
            /\ Leave(c, "FAILED") /\ UNCHANGED m_stack
         \/ /\ HasKey(key_value[t], key_value_temp[t], k)
            /\ m_stack' = [m_stack EXCEPT ![c] =
                 Push(@, TableGet(key_value[t], key_value_temp[t], k))]
            /\ Leave(c, "OK")
  /\ UNCHANGED <<process, registry, tables, m_logged_in, m_in_transaction,
                 locked_tables, rest, sock>>

SetAccess(c) ==
  /\ At(c, "access")
  /\ req[c].type = "SET"
  /\ LET t == req[c].table
         temp == TableSet(key_value_temp[t], req[c].key, value[c])
     IN  IF m_in_transaction[c]
         THEN /\ key_value_temp' = [key_value_temp EXCEPT ![t] = temp]
              /\ UNCHANGED key_value
         ELSE /\ key_value' = [key_value EXCEPT ![t] = CommitChanges(@, temp)]
              /\ key_value_temp' = [key_value_temp EXCEPT ![t] = EmptyMap]
  /\ Leave(c, "OK")
  /\ UNCHANGED <<process, registry, table_mutex, session, rest, sock>>

UnlockTable(c) ==
  /\ At(c, "unlock")
  /\ table_mutex' = [table_mutex EXCEPT ![req[c].table] = Nobody]
  /\ GoTo(c, "reply")
  /\ Forget(c)
  /\ UNCHANGED <<process, registry, key_value, key_value_temp, session,
                 resp, rest, sock>>

-----------------------------------------------------------------------------
(***************************************************************************)
(* COMMIT, and the two rollbacks: of FailedTransaction's catch clause and   *)
(* of the destructor.  Each visits locked_tables (a std::set of pointers,   *)
(* so in no order the program controls) and unlocks table by table.         *)
(***************************************************************************)
HandleCommit(c, m) ==
  /\ Admitted(c, m, {"COMMIT"})
  /\ m_in_transaction[c]
  /\ GoTo(c, "commit")
  /\ rest' = [rest EXCEPT ![c] = locked_tables[c]]
  /\ UNCHANGED <<process, registry, tables, session, req, value, resp, sock>>

CommitTable(c, t) ==
  /\ At(c, "commit")
  /\ t \in rest[c]
  /\ key_value' =
       [key_value EXCEPT ![t] = CommitChanges(@, key_value_temp[t])]
  /\ key_value_temp' = [key_value_temp EXCEPT ![t] = EmptyMap]
  /\ table_mutex' = [table_mutex EXCEPT ![t] = Nobody]
  /\ rest' = [rest EXCEPT ![c] = @ \ {t}]
  /\ UNCHANGED <<process, registry, pc, session, req, value, resp, sock>>

RollbackTable(c, t) ==
  /\ At(c, "rollback") \/ At(c, "dtor")
  /\ t \in rest[c]
  /\ key_value_temp' = [key_value_temp EXCEPT ![t] = RollbackChanges(@)]
  /\ table_mutex' = [table_mutex EXCEPT ![t] = Nobody]
  /\ rest' = [rest EXCEPT ![c] = @ \ {t}]
  /\ UNCHANGED <<process, registry, key_value, pc, session, req, value, resp,
                 sock>>

\* After the loop of handle_commit or of the catch clause.
EndTransaction(c) ==
  /\ rest[c] = {}
  /\ m_in_transaction' = [m_in_transaction EXCEPT ![c] = FALSE]
  /\ locked_tables' = [locked_tables EXCEPT ![c] = {}]
  /\ Forget(c)
  /\ UNCHANGED <<process, registry, tables, m_logged_in, m_stack, rest, sock>>

CommitDone(c) ==
  At(c, "commit") /\ EndTransaction(c) /\ Answer(c, "OK")

\* The text of the response to a failed trylock holds the table's name.
TextTooLong(c) == req[c].type \in {"GET", "SET"} /\ req[c].table \in LongNames

RollbackDone(c) ==
  /\ At(c, "rollback")
  /\ ~TextTooLong(c)
  /\ EndTransaction(c)
  /\ Answer(c, "FAILED")

\* encode throws InvalidMessage out of the catch clause: no handler is left
\* in the thread and std::terminate ends the process.
ResponseTooLong(c) ==
  /\ At(c, "rollback")
  /\ rest[c] = {}
  /\ TextTooLong(c)
  /\ Dies("terminated")

\* The end of the destructor: the object and its descriptor are gone.
DtorDone(c) ==
  /\ At(c, "dtor")
  /\ rest[c] = {}
  /\ GoTo(c, "off")
  /\ m_logged_in' = [m_logged_in EXCEPT ![c] = FALSE]
  /\ m_in_transaction' = [m_in_transaction EXCEPT ![c] = FALSE]
  /\ locked_tables' = [locked_tables EXCEPT ![c] = {}]
  /\ m_stack' = [m_stack EXCEPT ![c] = << >>]
  /\ sock' = [sock EXCEPT ![c] = "open"]
  /\ UNCHANGED <<process, registry, tables, req, value, resp, rest>>

-----------------------------------------------------------------------------
(***************************************************************************)
(* rio_writen of the response; its result is ignored.  The first write      *)
(* after the peer has closed succeeds and makes the peer answer with a      *)
(* reset; a write after the reset has arrived raises SIGPIPE, which nothing *)
(* blocks or ignores.  BYE and ERROR end the loop of chat_with_client.      *)
(***************************************************************************)
SendReply(c) ==
  /\ At(c, "reply") \/ At(c, "last_reply")
  /\ \/ sock[c] = "open" /\ UNCHANGED sock
     \/ sock[c] = "closed" /\ UNCHANGED sock
     \/ sock[c] = "closed" /\ sock' = [sock EXCEPT ![c] = "reset"]
  /\ \/ pc[c] = "reply" /\ GoTo(c, "read") /\ UNCHANGED rest
     \/ pc[c] = "last_reply" /\ Destroy(c)
  /\ value' = [value EXCEPT ![c] = NoValue]
  /\ resp' = [resp EXCEPT ![c] = "NONE"]
  /\ UNCHANGED <<process, registry, tables, session, req>>

BrokenPipe(c) ==
  /\ At(c, "reply") \/ At(c, "last_reply")
  /\ sock[c] = "reset"
  /\ Dies("SIGPIPE")

Dispatch(c, m) ==
  \/ NotLoggedIn(c, m)    \/ InvalidRequest(c, m)  \/ HandleLogin(c, m)
  \/ HandleBye(c, m)      \/ HandlePush(c, m)      \/ EmptyStack(c, m)
  \/ HandlePop(c, m)      \/ HandleTop(c, m)       \/ TooFewOperands(c, m)
  \/ BadOperands(c, m)    \/ HandleArith(c, m)     \/ DivisionTrap(c, m)
  \/ HandleBegin(c, m)    \/ NestedBegin(c, m)     \/ NotInTransaction(c, m)
  \/ HandleCreate(c, m)   \/ HandleGet(c, m)       \/ HandleSet(c, m)
  \/ HandleCommit(c, m)

\* What a thread does by itself once it has a request.
Work(c) ==
  \/ LockRegistry(c) \/ CreateTable(c)  \/ FindTable(c)
  \/ TryLock(c)      \/ TryLockFails(c) \/ LockTable(c)
  \/ GetAccess(c)    \/ SetAccess(c)    \/ UnlockTable(c)
  \/ \E t \in Tables : CommitTable(c, t) \/ RollbackTable(c, t)
  \/ CommitDone(c)   \/ RollbackDone(c) \/ ResponseTooLong(c)
  \/ DtorDone(c)     \/ SendReply(c)    \/ BrokenPipe(c)

\* The process has ended.
Ended == process # "running" /\ UNCHANGED vars

Next ==
  \/ \E c \in Conns :
       \/ AcceptClient(c) \/ PeerCloses(c) \/ ReadEOF(c)
       \/ \E m \in Requests : Dispatch(c, m)
       \/ Work(c)
  \/ AcceptError
  \/ Ended

Spec == Init /\ [][Next]_vars

-----------------------------------------------------------------------------
(***************************************************************************)
(* Properties.                                                             *)
(***************************************************************************)

\* The tables whose maps the next step of c reads or writes.
Touches(c) == CASE pc[c] = "access" -> {req[c].table}
                [] pc[c] \in {"commit", "rollback", "dtor"} -> rest[c]
                [] OTHER -> {}

\* No data race: a thread about to use the maps of a table owns the table's
\* mutex, and a thread inside create_table or find_table owns table_lock
\* (table.h: "these functions should only be called while the table's lock
\* is held!").
RaceFree ==
  \A c \in Conns :
    /\ \A t \in Touches(c) : table_mutex[t] = c
    /\ pc[c] \in {"create", "find"} => table_lock = c

\* No mutex is leaked: whoever owns a table's mutex is a live connection
\* that will reach the unlock, because the table is in its locked_tables or
\* is the one its Guard is on, however the request or connection ended.
NoLeakedLock ==
  \A t \in Tables, c \in Conns :
    table_mutex[t] = c =>
      \/ m_in_transaction[c] /\ t \in locked_tables[c]
      \/ ~m_in_transaction[c] /\ pc[c] \in {"access", "unlock"}
                             /\ t = req[c].table

\* Pending changes never outlive their transaction: a table with any is
\* locked by a transaction that has it in locked_tables, so no autocommit
\* request and no later transaction can read or commit them.
PendingIsOwned ==
  \A t \in Tables :
    key_value_temp[t] # EmptyMap =>
      \E c \in Conns : /\ table_mutex[t] = c
                       /\ m_in_transaction[c]
                       /\ t \in locked_tables[c]

\* Thread c is blocked in pthread_mutex_lock on a mutex that d owns.
WaitsFor(c, d) ==
  \/ pc[c] \in {"create_lock", "find_lock"} /\ table_lock = d
  \/ pc[c] = "lock" /\ table_mutex[req[c].table] = d

\* No deadlock: in no set of threads does everyone wait for another member
\* (the README's "breaks the circular wait condition").
NoCircularWait ==
  \A S \in (SUBSET Conns) \ {{}} :
    \E c \in S : \A d \in S : ~WaitsFor(c, d)

\* Before LOGIN a connection can do nothing: no transaction, no operands, no
\* thread of it inside the tables.
LoginFirst ==
  \A c \in Conns :
    ~m_logged_in[c] => /\ ~m_in_transaction[c]
                       /\ m_stack[c] = << >>
                       /\ pc[c] \in {"off", "read", "reply", "last_reply", "dtor"}
                       /\ \A t \in Tables : table_mutex[t] # c

\* While a transaction has a table, no step of another thread changes the
\* table's maps or its mutex: what the transaction has read stays true until
\* its own commit or rollback loop starts.
NoInterference ==
  [][\A c \in Conns, t \in Tables :
       (/\ t \in locked_tables[c]
        /\ pc[c] \notin {"commit", "rollback", "dtor"}
        /\ pc'[c] = pc[c]
        /\ process' = "running")
       => UNCHANGED <<key_value[t], key_value_temp[t], table_mutex[t]>>]_vars

\* The int a request computes is right: its result is the exact one modulo the
\* width of int, DIV truncates towards zero (the remainder has the sign of
\* the left operand), left is the operand pushed first, and the values below
\* the two operands stay where they are.
ArithmeticRight ==
  [][\A c \in Conns, m \in Requests :
       HandleArith(c, m) =>
         LET s == m_stack[c]
             n == Len(s)
             l == Stoi[s[n - 1]]
             r == Stoi[s[n]]
             x == Stoi[m_stack'[c][n - 1]]
             exact(y) == (x - y) % (2 * (IntMax + 1)) = 0
         IN  /\ Len(m_stack'[c]) = n - 1
             /\ \A i \in 1 .. n - 2 : m_stack'[c][i] = s[i]
             /\ m.type = "ADD" => exact(l + r)
             /\ m.type = "SUB" => exact(l - r)
             /\ m.type = "MUL" => exact(l * r)
             /\ m.type = "DIV" => /\ Abs(l - x * r) < Abs(r)
                                 /\ (l - x * r) * l >= 0]_vars

(***************************************************************************)
(* What the repository says and the code does not do: each of these is      *)
(* violated (see the findings in README.md).                                *)
(***************************************************************************)

\* "If a lock required by a transaction is already held, the transaction ...
\* fails and rolls back": nothing a transaction did is visible before its
\* COMMIT.  CREATE acts on set_of_table at once.
UncommittedInvisible ==
  [][\A c \in Conns :
       m_in_transaction[c] /\ CreateTable(c) => UNCHANGED set_of_table]_vars

\* exceptions.h on FailedTransaction: "This kind of exception is recoverable,
\* but requires special handling."  The handler itself may throw.
FailureRecoverable == process # "terminated"

\* client_connection.cpp means to answer "the result number is out of range"
\* when the result of ADD, SUB, MUL or DIV is no int.  No such answer is ever
\* sent: the first three wrap and are answered OK, DIV ends the process.
OutOfRangeReported ==
  [][/\ process' # "SIGFPE"
     /\ \A c \in Conns, m \in Requests :
          HandleArith(c, m) =>
            LET l == Stoi[Left(c)]
                r == Stoi[Right(c)]
            IN  /\ m.type = "ADD" => l + r \in Ints
                /\ m.type = "SUB" => l - r \in Ints
                /\ m.type = "MUL" => l * r \in Ints]_vars
=============================================================================
