--------------------------- MODULE KVServer_proofs ---------------------------
(***************************************************************************)
(* Proofs about KVServer, for every set of connections, tables, keys,       *)
(* values and requests, every int width and every bound on the stacks.      *)
(*                                                                         *)
(* TypeInv is TypeOK with what a thread's position says about its request.  *)
(* LockInv is the lock discipline: the mutexes a thread owns are exactly    *)
(* those its own state says it has to release.                              *)
(***************************************************************************)
EXTENDS KVServer, Values_proofs

CreatePCs == {"create_lock", "create"}
AccessPCs == {"find_lock", "find", "trylock", "lock", "access", "unlock"}
LoopPCs   == {"commit", "rollback", "dtor"}

RequestInv ==
  \A c \in Conns :
    /\ pc[c] \in CreatePCs => req[c].type = "CREATE" /\ req[c].table \in Tables
    /\ pc[c] \in AccessPCs => /\ req[c].type \in {"GET", "SET"}
                              /\ req[c].table \in Tables
                              /\ req[c].key \in Keys

TypeInv == TypeOK /\ RequestInv

\* The tables whose mutex c owns, told from c's own state.
Held(c) ==
  IF pc[c] \in LoopPCs THEN rest[c]
  ELSE IF ~m_in_transaction[c] /\ pc[c] \in {"access", "unlock"}
  THEN {req[c].table}
  ELSE locked_tables[c]

MutexInv == \A c \in Conns, t \in Tables : table_mutex[t] = c <=> t \in Held(c)

RegistryInv == \A c \in Conns : table_lock = c <=> pc[c] \in {"create", "find"}

TxnInv ==
  \A c \in Conns :
    /\ ~m_in_transaction[c] => locked_tables[c] = {}
    /\ rest[c] \subseteq locked_tables[c]
    /\ pc[c] \in {"commit", "rollback", "trylock"} => m_in_transaction[c]
    /\ pc[c] \in {"off", "lock", "unlock"} => ~m_in_transaction[c]
    /\ pc[c] = "access" /\ m_in_transaction[c] =>
         req[c].table \in locked_tables[c]

LockInv == MutexInv /\ RegistryInv /\ TxnInv

PendingInv ==
  \A t \in Tables :
    key_value_temp[t] # EmptyMap =>
      \E c \in Conns : table_mutex[t] = c /\ t \in locked_tables[c]

-----------------------------------------------------------------------------
(***************************************************************************)
(* Type correctness.                                                       *)
(***************************************************************************)

\* The arguments a request carries.
LEMMA MessageFields ==
  ASSUME NEW m \in Requests
  PROVE  /\ m \in Message
         /\ m.type = "PUSH" => m.value \in Vals
         /\ m.type = "CREATE" => m.table \in Tables
         /\ m.type \in {"GET", "SET"} => m.table \in Tables /\ m.key \in Keys
BY KVAssumption DEF Message, PlainTypes

\* The unset request is a message.
LEMMA NoMessageType == NoMessage \in Message /\ NoMessage.type = "NONE"
BY DEF NoMessage, Message, PlainTypes

\* The maps of a table stay maps.
LEMMA MapTypes ==
  ASSUME NEW kv \in Map, NEW temp \in Map, NEW k \in Keys
  PROVE  /\ EmptyMap \in Map
         /\ CommitChanges(kv, temp) \in Map
         /\ \A v \in Vals \cup {NoValue} : TableSet(temp, k, v) \in Map
         /\ HasKey(kv, temp, k) => TableGet(kv, temp, k) \in Vals
BY NoValueAssumption
   DEF Map, EmptyMap, CommitChanges, TableSet, TableGet, HasKey

\* A process that starts, with whatever tables and values it starts with.
LEMMA InitWithType ==
  ASSUME NEW created \in SUBSET Tables, NEW maps \in [Tables -> Map],
         InitWith(created, maps)
  PROVE  TypeInv
<1> USE DEF InitWith, EachConn, EachTable
<1>1. EmptyMap \in Map
  BY DEF EmptyMap, Map
<1>2. << >> \in Seq(Vals)
  OBVIOUS
<1>3. TypeOK
  BY <1>1, <1>2, NoMessageType DEF TypeOK, PCs
<1>4. RequestInv
  BY DEF RequestInv, CreatePCs, AccessPCs
<1> QED
  BY <1>3, <1>4 DEF TypeInv

\* The initial state.
LEMMA InitType == Init => TypeInv
<1>1. EachTable(EmptyMap) \in [Tables -> Map]
  BY DEF EachTable, EmptyMap, Map
<1> QED
  BY <1>1, InitWithType DEF Init

\* The end of the process.
LEMMA DiesType ==
  ASSUME NEW how \in {"exited", "SIGPIPE", "SIGFPE", "terminated"}, Dies(how)
  PROVE  TypeInv'
<1> USE DEF Dies, EachConn, EachTable
<1>1. EmptyMap \in Map
  BY DEF EmptyMap, Map
<1>2. << >> \in Seq(Vals)
  OBVIOUS
<1>3. TypeOK'
  BY <1>1, <1>2, NoMessageType DEF TypeOK, PCs
<1>4. RequestInv'
  BY DEF RequestInv, CreatePCs, AccessPCs
<1> QED
  BY <1>3, <1>4 DEF TypeInv

\* Every step of the request handlers keeps TypeInv.
LEMMA DispatchType ==
  ASSUME TypeInv, NEW c \in Conns, NEW m \in Requests, Dispatch(c, m)
  PROVE  TypeInv'
<1> USE DEF TypeInv, TypeOK, RequestInv, CreatePCs, AccessPCs, PCs, GoTo,
            registry, tables, session
<1>m. /\ m \in Message
      /\ m.type = "PUSH" => m.value \in Vals
      /\ m.type = "CREATE" => m.table \in Tables
      /\ m.type \in {"GET", "SET"} => m.table \in Tables /\ m.key \in Keys
  BY MessageFields
<1>s. Len(m_stack[c]) \in Nat /\ m_stack[c] \in Seq(Vals)
  BY LenProperties
<1>1. CASE NotLoggedIn(c, m)
  BY <1>1, <1>m, NoMessageType DEF NotLoggedIn, Answer
<1>2. CASE InvalidRequest(c, m)
  BY <1>2, <1>m, NoMessageType DEF InvalidRequest, LastAnswer
<1>3. CASE HandleLogin(c, m)
  BY <1>3, <1>m, NoMessageType DEF HandleLogin, Answer, Admitted
<1>4. CASE HandleBye(c, m)
  BY <1>4, <1>m, NoMessageType DEF HandleBye, LastAnswer
<1>5. CASE HandlePush(c, m)
  BY <1>5, <1>m, <1>s, StackPush DEF HandlePush, Answer, Admitted
<1>6. CASE EmptyStack(c, m)
  BY <1>6, <1>m, NoMessageType DEF EmptyStack, Answer
<1>7. CASE HandlePop(c, m)
  <2>1. Len(m_stack[c]) > 0
    BY <1>7, <1>s, EmptySeq DEF HandlePop, IsEmpty
  <2> QED
    BY <1>7, <1>m, <1>s, <2>1, StackTop DEF HandlePop, Answer, IsEmpty
<1>8. CASE HandleTop(c, m)
  <2>1. Len(m_stack[c]) > 0
    BY <1>8, <1>s, EmptySeq DEF HandleTop, IsEmpty
  <2> QED
    BY <1>8, <1>m, <1>s, <2>1, StackTop DEF HandleTop, Answer, IsEmpty
<1>9. CASE TooFewOperands(c, m)
  BY <1>9, <1>m, NoMessageType DEF TooFewOperands, Answer
<1>p. ASSUME Len(m_stack[c]) >= 2
      PROVE  Pop(Pop(m_stack[c])) \in Seq(Vals)
  <2>1. Pop(m_stack[c]) \in Seq(Vals) /\ Len(Pop(m_stack[c])) > 0
    BY <1>s, <1>p, StackTop
  <2> QED
    BY <2>1, StackTop
<1>10. CASE BadOperands(c, m)
  BY <1>10, <1>p DEF BadOperands, Answer
<1>11. CASE HandleArith(c, m)
  <2> DEFINE v == ToStr[Result(m.type, Stoi[Left(c)], Stoi[Right(c)])]
  <2>1. v \in Vals
    BY <1>11, ResultInt, ToStrAssumption DEF HandleArith, Admitted
  <2>2. Push(Pop(Pop(m_stack[c])), v) \in Seq(Vals)
    BY <1>11, <1>p, <2>1, StackPush DEF HandleArith
  <2> HIDE DEF v
  <2>3. m_stack' = [m_stack EXCEPT ![c] = Push(Pop(Pop(m_stack[c])), v)]
    BY <1>11 DEF HandleArith, v
  <2> QED
    BY <1>11, <2>2, <2>3 DEF HandleArith, Answer
<1>12. CASE DivisionTrap(c, m)
  BY <1>12, DiesType DEF DivisionTrap
<1>13. CASE HandleBegin(c, m)
  BY <1>13, <1>m, NoMessageType DEF HandleBegin, Answer
<1>14. CASE NestedBegin(c, m)
  BY <1>14, <1>m, NoMessageType DEF NestedBegin, FailTransaction
<1>15. CASE NotInTransaction(c, m)
  BY <1>15, <1>m, NoMessageType DEF NotInTransaction, Answer
<1>16. CASE HandleCreate(c, m)
  BY <1>16, <1>m, NoMessageType DEF HandleCreate, Admitted
<1>17. CASE HandleGet(c, m)
  BY <1>17, <1>m, NoMessageType DEF HandleGet, Admitted
<1>18. CASE HandleSet(c, m)
  <2>1. Len(m_stack[c]) > 0
    BY <1>18, <1>s, EmptySeq DEF HandleSet, IsEmpty
  <2> QED
    BY <1>18, <1>m, <1>s, <2>1, StackTop DEF HandleSet, Admitted, IsEmpty
<1>19. CASE HandleCommit(c, m)
  BY <1>19, <1>m, NoMessageType DEF HandleCommit
<1> QED
  BY <1>1, <1>2, <1>3, <1>4, <1>5, <1>6, <1>7, <1>8, <1>9, <1>10, <1>11, <1>12, <1>13, <1>14, <1>15, <1>16, <1>17, <1>18, <1>19 DEF Dispatch


\* Leaving a GET or SET.
LEMMA LeaveType ==
  ASSUME TypeInv, NEW c \in Conns, pc[c] = "access",
         NEW r \in {"OK", "FAILED"}, Leave(c, r)
  PROVE  /\ pc' \in [Conns -> PCs]
         /\ req' \in [Conns -> Message]
         /\ value' \in [Conns -> Vals \cup {NoValue}]
         /\ resp' \in [Conns -> {"NONE", "OK", "FAILED", "ERROR", "DATA"}]
         /\ RequestInv'
<1>1. /\ \/ GoTo(c, "reply") /\ req' = [req EXCEPT ![c] = NoMessage]
         \/ GoTo(c, "unlock") /\ req' = req
      /\ value' = [value EXCEPT ![c] = NoValue]
      /\ resp' = [resp EXCEPT ![c] = r]
  BY DEF Leave, Answer, Forget
<1>2. /\ pc' \in [Conns -> PCs]
      /\ resp' \in [Conns -> {"NONE", "OK", "FAILED", "ERROR", "DATA"}]
  BY <1>1 DEF TypeInv, TypeOK, PCs, GoTo
<1>3. req' \in [Conns -> Message]
  BY <1>1, NoMessageType DEF TypeInv, TypeOK
<1>4. value' \in [Conns -> Vals \cup {NoValue}]
  BY <1>1 DEF TypeInv, TypeOK
<1>5. RequestInv'
  BY <1>1 DEF TypeInv, TypeOK, RequestInv, CreatePCs, AccessPCs, GoTo
<1> QED
  BY <1>2, <1>3, <1>4, <1>5

\* Every step a thread takes by itself keeps TypeInv.
LEMMA WorkType ==
  ASSUME TypeInv, NEW c \in Conns, Work(c)
  PROVE  TypeInv'
<1> USE DEF TypeInv, TypeOK, RequestInv, CreatePCs, AccessPCs, PCs, GoTo, At,
            registry, tables, session
<1>m. /\ EmptyMap \in Map
      /\ \A t \in Tables : CommitChanges(key_value[t], key_value_temp[t]) \in Map
  BY DEF Map, EmptyMap, CommitChanges
<1>1. CASE LockRegistry(c)
  BY <1>1 DEF LockRegistry
<1>2. CASE CreateTable(c)
  BY <1>2, NoMessageType DEF CreateTable, Answer, Forget
<1>3. CASE FindTable(c)
  <2>1. CASE req[c].table \notin set_of_table
    <3>1. Answer(c, "FAILED") /\ Forget(c)
      BY <1>3, <2>1 DEF FindTable
    <3>2. req' \in [Conns -> Message] /\ value' \in [Conns -> Vals \cup {NoValue}]
      BY <3>1, NoMessageType DEF Forget
    <3>3. RequestInv'
      BY <3>1 DEF Answer, Forget
    <3> QED
      BY <1>3, <3>1, <3>2, <3>3 DEF FindTable, Answer
  <2>2. CASE req[c].table \in set_of_table
    <3>1. PICK w \in {"lock", "access", "trylock"} : GoTo(c, w)
      BY <1>3, <2>2 DEF FindTable, LockStep
    <3> QED
      BY <1>3, <2>2, <3>1 DEF FindTable
  <2> QED
    BY <2>1, <2>2
<1>4. CASE TryLock(c)
  BY <1>4 DEF TryLock
<1>5. CASE TryLockFails(c)
  BY <1>5 DEF TryLockFails, FailTransaction
<1>6. CASE LockTable(c)
  BY <1>6 DEF LockTable
<1>7. CASE GetAccess(c)
  <2> DEFINE t == req[c].table
             k == req[c].key
             v == TableGet(key_value[t], key_value_temp[t], k)
  <2>1. t \in Tables /\ k \in Keys
    BY <1>7 DEF GetAccess
  <2>2. HasKey(key_value[t], key_value_temp[t], k) =>
          Push(m_stack[c], v) \in Seq(Vals)
    BY <2>1, MapTypes, StackPush
  <2> HIDE DEF v
  <2>3. \/ m_stack' = m_stack
        \/ /\ HasKey(key_value[t], key_value_temp[t], k)
           /\ m_stack' = [m_stack EXCEPT ![c] = Push(m_stack[c], v)]
    BY <1>7 DEF GetAccess, v
  <2>4. m_stack' \in [Conns -> Seq(Vals)]
    BY <2>2, <2>3
  <2>5. PICK r \in {"OK", "FAILED"} : Leave(c, r)
    BY <1>7 DEF GetAccess
  <2> QED
    BY <1>7, <2>4, <2>5, LeaveType DEF GetAccess
<1>8. CASE SetAccess(c)
  <2> DEFINE t == req[c].table
             temp == TableSet(key_value_temp[t], req[c].key, value[c])
  <2>1. t \in Tables /\ req[c].key \in Keys
    BY <1>8 DEF SetAccess
  <2>2. temp \in Map
    BY <2>1, MapTypes
  <2> HIDE DEF temp
  <2>3. CommitChanges(key_value[t], temp) \in Map
    BY <2>1, <2>2, MapTypes
  <2>4. /\ key_value' \in [Tables -> Map]
        /\ key_value_temp' \in [Tables -> Map]
    BY <1>8, <1>m, <2>2, <2>3 DEF SetAccess, temp
  <2>5. Leave(c, "OK")
    BY <1>8 DEF SetAccess
  <2> QED
    BY <1>8, <2>4, <2>5, LeaveType DEF SetAccess
<1>9. CASE UnlockTable(c)
  BY <1>9, NoMessageType DEF UnlockTable, Forget
<1>10. ASSUME NEW t \in Tables, CommitTable(c, t) PROVE TypeInv'
  BY <1>10, <1>m DEF CommitTable
<1>11. ASSUME NEW t \in Tables, RollbackTable(c, t) PROVE TypeInv'
  BY <1>11, <1>m DEF RollbackTable, RollbackChanges
<1>12. CASE CommitDone(c)
  BY <1>12, NoMessageType DEF CommitDone, EndTransaction, Answer, Forget
<1>13. CASE RollbackDone(c)
  BY <1>13, NoMessageType DEF RollbackDone, EndTransaction, Answer, Forget
<1>14. CASE ResponseTooLong(c)
  BY <1>14, DiesType DEF ResponseTooLong
<1>15. CASE DtorDone(c)
  BY <1>15, EmptySeq DEF DtorDone
<1>16. CASE SendReply(c)
  <2>1. sock' \in [Conns -> {"open", "closed", "reset"}]
    BY <1>16 DEF SendReply
  <2>2. CASE pc[c] = "reply"
    BY <1>16, <2>1, <2>2 DEF SendReply, Destroy
  <2>3. CASE pc[c] = "last_reply"
    <3>1. Destroy(c)
      BY <1>16, <2>3 DEF SendReply
    <3>2. rest' \in [Conns -> SUBSET Tables]
      BY <3>1 DEF Destroy
    <3> QED
      BY <1>16, <2>1, <3>1, <3>2 DEF SendReply, Destroy
  <2> QED
    BY <1>16, <2>2, <2>3 DEF SendReply
<1>17. CASE BrokenPipe(c)
  BY <1>17, DiesType DEF BrokenPipe
<1> QED
  BY <1>1, <1>2, <1>3, <1>4, <1>5, <1>6, <1>7, <1>8, <1>9, <1>10, <1>11,
     <1>12, <1>13, <1>14, <1>15, <1>16, <1>17 DEF Work

\* TypeInv is inductive.
LEMMA NextType ==
  ASSUME TypeInv, [Next]_vars
  PROVE  TypeInv'
<1> USE DEF TypeInv, TypeOK, RequestInv, CreatePCs, AccessPCs, PCs, GoTo, At,
            registry, tables, session
<1>1. ASSUME NEW c \in Conns, AcceptClient(c) PROVE TypeInv'
  BY <1>1 DEF AcceptClient
<1>2. ASSUME NEW c \in Conns, PeerCloses(c) PROVE TypeInv'
  BY <1>2 DEF PeerCloses
<1>3. ASSUME NEW c \in Conns, ReadEOF(c) PROVE TypeInv'
  BY <1>3 DEF ReadEOF, Destroy
<1>4. ASSUME NEW c \in Conns, NEW m \in Requests, Dispatch(c, m) PROVE TypeInv'
  BY <1>4, DispatchType
<1>5. ASSUME NEW c \in Conns, Work(c) PROVE TypeInv'
  BY <1>5, WorkType
<1>6. CASE AcceptError
  BY <1>6, DiesType DEF AcceptError
<1>7. CASE UNCHANGED vars
  BY <1>7 DEF vars
<1> QED
  BY <1>1, <1>2, <1>3, <1>4, <1>5, <1>6, <1>7 DEF Next, Ended

\* Type correctness of the server: in particular no operand is ever pushed
\* that is not a value, whatever GET finds and the arithmetic computes, and
\* a thread uses a request's table and key only where the request has them.
THEOREM TypeCorrect == Spec => []TypeOK
<1>1. TypeInv => TypeOK
  BY DEF TypeInv
<1> QED
  BY <1>1, InitType, NextType, PTL DEF Spec

-----------------------------------------------------------------------------
(***************************************************************************)
(* The lock discipline.                                                    *)
(***************************************************************************)

\* A process that starts owns no mutex.
LEMMA InitWithLock ==
  ASSUME NEW created, NEW maps, InitWith(created, maps)
  PROVE  LockInv
BY KVAssumption DEF InitWith, EachConn, EachTable, LockInv, MutexInv,
   RegistryInv, TxnInv, Held, LoopPCs

\* The end of the process.
LEMMA DiesLock ==
  ASSUME NEW how, Dies(how)
  PROVE  LockInv'
BY KVAssumption DEF Dies, EachConn, EachTable, LockInv, MutexInv, RegistryInv,
   TxnInv, Held, LoopPCs

\* The handlers that run from the read to the response, and the first steps
\* of the others.
LEMMA DispatchLock ==
  ASSUME TypeInv, LockInv, NEW c \in Conns, NEW m \in Requests, Dispatch(c, m)
  PROVE  LockInv'
<1> USE DEF TypeInv, TypeOK, LockInv, MutexInv, RegistryInv, TxnInv, Held,
            LoopPCs, GoTo, registry, tables, session
<1>1. CASE NotLoggedIn(c, m)
  BY <1>1 DEF NotLoggedIn, Answer, Receives, At
<1>2. CASE InvalidRequest(c, m)
  BY <1>2 DEF InvalidRequest, LastAnswer, Receives, At
<1>3. CASE HandleLogin(c, m)
  BY <1>3 DEF HandleLogin, Answer, Admitted, Receives, At
<1>4. CASE HandleBye(c, m)
  BY <1>4 DEF HandleBye, LastAnswer, Admitted, Receives, At
<1>5. CASE HandlePush(c, m)
  BY <1>5 DEF HandlePush, Answer, Admitted, Receives, At
<1>6. CASE EmptyStack(c, m)
  BY <1>6 DEF EmptyStack, Answer, Admitted, Receives, At
<1>7. CASE HandlePop(c, m)
  BY <1>7 DEF HandlePop, Answer, Admitted, Receives, At
<1>8. CASE HandleTop(c, m)
  BY <1>8 DEF HandleTop, Answer, Admitted, Receives, At
<1>9. CASE TooFewOperands(c, m)
  BY <1>9 DEF TooFewOperands, Answer, Admitted, Receives, At
<1>10. CASE BadOperands(c, m)
  BY <1>10 DEF BadOperands, Answer, Admitted, Receives, At
<1>11. CASE HandleArith(c, m)
  BY <1>11 DEF HandleArith, Answer, Admitted, Receives, At
<1>12. CASE HandleBegin(c, m)
  BY <1>12 DEF HandleBegin, Answer, Admitted, Receives, At
<1>13. CASE NestedBegin(c, m)
  BY <1>13 DEF NestedBegin, FailTransaction, Admitted, Receives, At
<1>14. CASE NotInTransaction(c, m)
  BY <1>14 DEF NotInTransaction, Answer, Admitted, Receives, At
<1>15. CASE HandleCreate(c, m)
  BY <1>15 DEF HandleCreate, Admitted, Receives, At
<1>16. CASE HandleGet(c, m)
  BY <1>16 DEF HandleGet, Admitted, Receives, At
<1>17. CASE HandleSet(c, m)
  BY <1>17 DEF HandleSet, Admitted, Receives, At
<1>18. CASE HandleCommit(c, m)
  BY <1>18 DEF HandleCommit, Admitted, Receives, At
<1>19. CASE DivisionTrap(c, m)
  BY <1>19, DiesLock DEF DivisionTrap
<1> QED
  BY <1>1, <1>2, <1>3, <1>4, <1>5, <1>6, <1>7, <1>8, <1>9, <1>10, <1>11, <1>12, <1>13, <1>14, <1>15, <1>16, <1>17, <1>18, <1>19 DEF Dispatch


\* Leaving a GET or SET: a transaction keeps its mutexes, autocommit mode its
\* Guard until the unlock.
LEMMA LeaveLock ==
  ASSUME TypeInv, LockInv, NEW c \in Conns, pc[c] = "access", NEW r, Leave(c, r),
         UNCHANGED <<table_lock, table_mutex, m_in_transaction, locked_tables,
                     rest>>
  PROVE  LockInv'
<1> USE DEF TypeInv, TypeOK, LockInv, MutexInv, RegistryInv, TxnInv, Held,
            LoopPCs, GoTo
<1>1. CASE m_in_transaction[c]
  <2>1. GoTo(c, "reply") /\ req' = [req EXCEPT ![c] = NoMessage]
    BY <1>1 DEF Leave, Answer, Forget
  <2> QED
    BY <1>1, <2>1
<1>2. CASE ~m_in_transaction[c]
  <2>1. GoTo(c, "unlock") /\ req' = req
    BY <1>2 DEF Leave
  <2> QED
    BY <1>2, <2>1
<1> QED
  BY <1>1, <1>2

\* The steps at the locks and under them.
LEMMA WorkLock ==
  ASSUME TypeInv, LockInv, NEW c \in Conns, Work(c)
  PROVE  LockInv'
<1> USE KVAssumption
    DEF TypeInv, TypeOK, LockInv, MutexInv, RegistryInv, TxnInv, Held,
        LoopPCs, GoTo, At, registry, tables, session
<1>r. pc[c] \in AccessPCs => req[c].table \in Tables
  BY DEF RequestInv
<1>1. CASE LockRegistry(c)
  BY <1>1 DEF LockRegistry
<1>2. CASE CreateTable(c)
  BY <1>2 DEF CreateTable, Answer, Forget
<1>3. CASE FindTable(c)
  <2>1. CASE req[c].table \notin set_of_table
    <3>1. GoTo(c, "reply") /\ req' = [req EXCEPT ![c] = NoMessage]
      BY <1>3, <2>1 DEF FindTable, Answer, Forget
    <3> QED
      BY <1>3, <3>1 DEF FindTable
  <2>2. CASE req[c].table \in set_of_table
    <3>1. GoTo(c, LockStep(c, req[c].table)) /\ UNCHANGED req
      BY <1>3, <2>2 DEF FindTable
    <3>2. CASE ~m_in_transaction[c]
      BY <1>3, <3>1, <3>2 DEF FindTable, LockStep
    <3>3. CASE m_in_transaction[c] /\ req[c].table \in locked_tables[c]
      BY <1>3, <3>1, <3>3 DEF FindTable, LockStep
    <3>4. CASE m_in_transaction[c] /\ req[c].table \notin locked_tables[c]
      BY <1>3, <3>1, <3>4 DEF FindTable, LockStep
    <3> QED
      BY <3>2, <3>3, <3>4
  <2> QED
    BY <2>1, <2>2
<1>4. CASE TryLock(c)
  BY <1>4, <1>r DEF TryLock, Free, AccessPCs
<1>5. CASE TryLockFails(c)
  BY <1>5 DEF TryLockFails, FailTransaction
<1>6. CASE LockTable(c)
  BY <1>6, <1>r DEF LockTable, Free, AccessPCs
<1>7. CASE GetAccess(c)
  <2>1. PICK r \in {"OK", "FAILED"} : Leave(c, r)
    BY <1>7 DEF GetAccess
  <2> QED
    BY <1>7, <2>1, LeaveLock DEF GetAccess
<1>8. CASE SetAccess(c)
  BY <1>8, LeaveLock DEF SetAccess
<1>9. CASE UnlockTable(c)
  BY <1>9, <1>r DEF UnlockTable, Forget, AccessPCs
<1>10. ASSUME NEW t \in Tables, CommitTable(c, t) PROVE LockInv'
  BY <1>10 DEF CommitTable
<1>11. ASSUME NEW t \in Tables, RollbackTable(c, t) PROVE LockInv'
  BY <1>11 DEF RollbackTable
<1>12. CASE CommitDone(c)
  BY <1>12 DEF CommitDone, EndTransaction, Answer, Forget
<1>13. CASE RollbackDone(c)
  BY <1>13 DEF RollbackDone, EndTransaction, Answer, Forget
<1>14. CASE ResponseTooLong(c)
  BY <1>14, DiesLock DEF ResponseTooLong
<1>15. CASE DtorDone(c)
  BY <1>15 DEF DtorDone
<1>16. CASE SendReply(c)
  <2>1. CASE pc[c] = "reply"
    BY <1>16, <2>1 DEF SendReply
  <2>2. CASE pc[c] = "last_reply"
    <3>1. Destroy(c)
      BY <1>16, <2>2 DEF SendReply
    <3> QED
      BY <1>16, <2>2, <3>1 DEF SendReply, Destroy
  <2> QED
    BY <1>16, <2>1, <2>2 DEF SendReply
<1>17. CASE BrokenPipe(c)
  BY <1>17, DiesLock DEF BrokenPipe
<1> QED
  BY <1>1, <1>2, <1>3, <1>4, <1>5, <1>6, <1>7, <1>8, <1>9, <1>10, <1>11,
     <1>12, <1>13, <1>14, <1>15, <1>16, <1>17 DEF Work

\* LockInv is inductive, given TypeInv.
LEMMA NextLock ==
  ASSUME TypeInv, LockInv, [Next]_vars
  PROVE  LockInv'
<1> USE DEF TypeInv, TypeOK, LockInv, MutexInv, RegistryInv, TxnInv, Held,
            LoopPCs, GoTo, At, registry, tables, session
<1>1. ASSUME NEW c \in Conns, AcceptClient(c) PROVE LockInv'
  BY <1>1 DEF AcceptClient
<1>2. ASSUME NEW c \in Conns, PeerCloses(c) PROVE LockInv'
  BY <1>2 DEF PeerCloses
<1>3. ASSUME NEW c \in Conns, ReadEOF(c) PROVE LockInv'
  BY <1>3 DEF ReadEOF, Destroy
<1>4. ASSUME NEW c \in Conns, NEW m \in Requests, Dispatch(c, m) PROVE LockInv'
  BY <1>4, DispatchLock
<1>5. ASSUME NEW c \in Conns, Work(c) PROVE LockInv'
  BY <1>5, WorkLock
<1>6. CASE AcceptError
  BY <1>6, DiesLock DEF AcceptError
<1>7. CASE UNCHANGED vars
  BY <1>7 DEF vars
<1> QED
  BY <1>1, <1>2, <1>3, <1>4, <1>5, <1>6, <1>7 DEF Next, Ended

\* Both invariants hold in every reachable state.
LEMMA Discipline == Spec => [](TypeInv /\ LockInv)
<1>1. Init => TypeInv /\ LockInv
  BY InitType, InitWithLock DEF Init
<1>2. TypeInv /\ LockInv /\ [Next]_vars => (TypeInv /\ LockInv)'
  BY NextType, NextLock
<1> QED
  BY <1>1, <1>2, PTL DEF Spec

\* What a thread is about to touch it holds.
LEMMA HeldWhenTouched == TypeInv /\ LockInv => RaceFree
<1> SUFFICES ASSUME TypeInv, LockInv, NEW c \in Conns
             PROVE  /\ \A t \in Touches(c) : table_mutex[t] = c
                    /\ pc[c] \in {"create", "find"} => table_lock = c
  BY DEF RaceFree
<1>1. pc[c] \in {"create", "find"} => table_lock = c
  BY DEF LockInv, RegistryInv
<1>2. ASSUME NEW t \in Touches(c) PROVE t \in Tables /\ t \in Held(c)
  <2>1. CASE pc[c] = "access"
    <3>1. t = req[c].table
      BY <1>2, <2>1 DEF Touches
    <3>2. req[c].table \in Tables
      BY <2>1 DEF TypeInv, RequestInv, AccessPCs
    <3>3. req[c].table \in Held(c)
      BY <2>1 DEF LockInv, TxnInv, Held, LoopPCs
    <3> QED
      BY <3>1, <3>2, <3>3
  <2>2. CASE pc[c] \in LoopPCs
    <3>1. t \in rest[c]
      BY <1>2, <2>2 DEF Touches, LoopPCs
    <3> QED
      BY <2>2, <3>1 DEF Held, TypeInv, TypeOK
  <2>3. CASE pc[c] \notin LoopPCs \cup {"access"}
    BY <1>2, <2>3 DEF Touches, LoopPCs
  <2> QED
    BY <2>1, <2>2, <2>3
<1> QED
  BY <1>1, <1>2 DEF LockInv, MutexInv

\* No data race: every access to a table's maps happens under its mutex, and
\* every access to set_of_table under table_lock, in both modes and in the
\* commit and rollback loops.
THEOREM RaceFreedom == Spec => []RaceFree
BY HeldWhenTouched, Discipline, PTL

\* What is owned will be released.
LEMMA OwnedWillBeFreed == TypeInv /\ LockInv => NoLeakedLock
BY DEF TypeInv, TypeOK, LockInv, MutexInv, TxnInv, Held, LoopPCs, NoLeakedLock

\* No mutex is leaked, however a request or a connection ends.
THEOREM LocksAccountedFor == Spec => []NoLeakedLock
BY OwnedWillBeFreed, Discipline, PTL

\* A thread that waits in pthread_mutex_lock owns no table, and one that owns
\* table_lock does not wait.
LEMMA NobodyInACircle == TypeInv /\ LockInv => NoCircularWait
<1> SUFFICES ASSUME TypeInv, LockInv, NEW S \in (SUBSET Conns) \ {{}},
                    \A c \in S : \E d \in S : WaitsFor(c, d)
             PROVE  FALSE
  BY DEF NoCircularWait
<1>1. ASSUME NEW c \in S PROVE pc[c] \in {"create_lock", "find_lock", "lock"}
  BY DEF WaitsFor
<1>2. ASSUME NEW c \in S, NEW d \in S,
             pc[c] \in {"create_lock", "find_lock"}, table_lock = d
      PROVE  FALSE
  BY <1>1, <1>2 DEF LockInv, RegistryInv
<1>3. ASSUME NEW c \in S, NEW d \in S,
             pc[c] = "lock", table_mutex[req[c].table] = d
      PROVE  FALSE
  <2>1. req[c].table \in Tables
    BY <1>3 DEF TypeInv, RequestInv, AccessPCs
  <2>2. req[c].table \in Held(d)
    BY <1>3, <2>1 DEF LockInv, MutexInv
  <2>3. pc[d] # "lock"
    BY <2>2 DEF LockInv, TxnInv, Held, LoopPCs
  <2>4. pc[d] \in {"create_lock", "find_lock"}
    BY <1>1, <2>3
  <2>5. PICK e \in S : WaitsFor(d, e)
    OBVIOUS
  <2> QED
    BY <1>2, <2>4, <2>5 DEF WaitsFor
<1>4. PICK c \in S : TRUE
  OBVIOUS
<1>5. PICK d \in S : WaitsFor(c, d)
  OBVIOUS
<1> QED
  BY <1>2, <1>3, <1>5 DEF WaitsFor

\* No set of threads waits in a circle, in Guard's pthread_mutex_lock on
\* table_lock or on the mutex of a table.
THEOREM DeadlockFreedom == Spec => []NoCircularWait
BY NobodyInACircle, Discipline, PTL

-----------------------------------------------------------------------------
(***************************************************************************)
(* Pending changes.                                                        *)
(***************************************************************************)

\* The steps that leave the mutexes, the pending maps and locked_tables alone.
LEMMA QuietPending ==
  ASSUME PendingInv, UNCHANGED <<table_mutex, key_value_temp, locked_tables>>
  PROVE  PendingInv'
BY DEF PendingInv

\* No table has pending changes when the process starts.
LEMMA InitWithPending ==
  ASSUME NEW created, NEW maps, InitWith(created, maps)
  PROVE  PendingInv
BY DEF InitWith, EachTable, PendingInv

\* No table has pending changes after the process has ended.
LEMMA DiesPending ==
  ASSUME NEW how, Dies(how)
  PROVE  PendingInv'
BY DEF Dies, EachTable, PendingInv

\* A handler's first step changes no pending map.
LEMMA DispatchPending ==
  ASSUME PendingInv, NEW c \in Conns, NEW m \in Requests, Dispatch(c, m)
  PROVE  PendingInv'
<1>1. CASE DivisionTrap(c, m)
  BY <1>1, DiesPending DEF DivisionTrap
<1>2. CASE ~DivisionTrap(c, m)
  <2>1. UNCHANGED <<table_mutex, key_value_temp, locked_tables>>
    BY <1>2
       DEF Dispatch, NotLoggedIn, InvalidRequest, HandleLogin, HandleBye,
           HandlePush, EmptyStack, HandlePop, HandleTop, TooFewOperands,
           BadOperands, HandleArith, HandleBegin, NestedBegin,
           NotInTransaction, HandleCreate, HandleGet, HandleSet, HandleCommit,
           tables, session
  <2> QED
    BY <2>1, QuietPending
<1> QED
  BY <1>1, <1>2

\* Only a transaction that has the table leaves changes pending, and it keeps
\* the mutex until it has committed or discarded them.
LEMMA WorkPending ==
  ASSUME TypeInv, LockInv, PendingInv, NEW c \in Conns, Work(c)
  PROVE  PendingInv'
<1> USE DEF At, tables, session
<1>r. pc[c] \in AccessPCs => req[c].table \in Tables
  BY DEF TypeInv, RequestInv
<1>1. CASE LockRegistry(c)
  BY <1>1, QuietPending DEF LockRegistry
<1>2. CASE CreateTable(c)
  BY <1>2, QuietPending DEF CreateTable
<1>3. CASE FindTable(c)
  BY <1>3, QuietPending DEF FindTable
<1>4. CASE TryLock(c)
  BY <1>4, <1>r, KVAssumption
     DEF TryLock, Free, AccessPCs, PendingInv, TypeInv, TypeOK
<1>5. CASE TryLockFails(c)
  BY <1>5, QuietPending DEF TryLockFails
<1>6. CASE LockTable(c)
  BY <1>6, <1>r, KVAssumption
     DEF LockTable, Free, AccessPCs, PendingInv, TypeInv, TypeOK
<1>7. CASE GetAccess(c)
  BY <1>7, QuietPending DEF GetAccess
<1>8. CASE SetAccess(c)
  <2> DEFINE u == req[c].table
  <2>1. u \in Tables
    BY <1>8, <1>r DEF SetAccess, AccessPCs
  <2>2. CASE m_in_transaction[c]
    <3>1. table_mutex[u] = c /\ u \in locked_tables[c]
      BY <1>8, <2>1, <2>2
         DEF SetAccess, LockInv, MutexInv, TxnInv, Held, LoopPCs
    <3>2. \A t \in Tables \ {u} : key_value_temp'[t] = key_value_temp[t]
      BY <1>8, <2>1, <2>2 DEF SetAccess, TypeInv, TypeOK
    <3> QED
      BY <1>8, <3>1, <3>2 DEF SetAccess, PendingInv
  <2>3. CASE ~m_in_transaction[c]
    <3>1. key_value_temp' = [key_value_temp EXCEPT ![u] = EmptyMap]
      BY <1>8, <2>3 DEF SetAccess
    <3> QED
      BY <1>8, <2>1, <3>1 DEF SetAccess, PendingInv, TypeInv, TypeOK
  <2> QED
    BY <2>2, <2>3
<1>9. CASE UnlockTable(c)
  <2>1. locked_tables[c] = {}
    BY <1>9 DEF UnlockTable, LockInv, TxnInv
  <2>2. req[c].table \in Tables /\ table_mutex[req[c].table] = c
    BY <1>9, <1>r DEF UnlockTable, LockInv, MutexInv, TxnInv, Held, LoopPCs,
                      AccessPCs
  <2> QED
    BY <1>9, <2>1, <2>2 DEF UnlockTable, PendingInv, TypeInv, TypeOK
<1>10. ASSUME NEW t \in Tables, CommitTable(c, t) PROVE PendingInv'
  BY <1>10 DEF CommitTable, PendingInv, TypeInv, TypeOK
<1>11. ASSUME NEW t \in Tables, RollbackTable(c, t) PROVE PendingInv'
  BY <1>11 DEF RollbackTable, RollbackChanges, PendingInv, TypeInv, TypeOK
<1>e. ASSUME pc[c] \in LoopPCs, rest[c] = {}, locked_tables' =
               [locked_tables EXCEPT ![c] = {}],
             UNCHANGED <<table_mutex, key_value_temp>>
      PROVE  PendingInv'
  <2>1. \A t \in Tables : table_mutex[t] # c
    BY <1>e DEF LockInv, MutexInv, Held
  <2> QED
    BY <1>e, <2>1 DEF PendingInv, TypeInv, TypeOK
<1>12. CASE CommitDone(c)
  BY <1>12, <1>e DEF CommitDone, EndTransaction, LoopPCs
<1>13. CASE RollbackDone(c)
  BY <1>13, <1>e DEF RollbackDone, EndTransaction, LoopPCs
<1>14. CASE ResponseTooLong(c)
  BY <1>14, DiesPending DEF ResponseTooLong
<1>15. CASE DtorDone(c)
  BY <1>15, <1>e DEF DtorDone, LoopPCs
<1>16. CASE SendReply(c)
  BY <1>16, QuietPending DEF SendReply
<1>17. CASE BrokenPipe(c)
  BY <1>17, DiesPending DEF BrokenPipe
<1> QED
  BY <1>1, <1>2, <1>3, <1>4, <1>5, <1>6, <1>7, <1>8, <1>9, <1>10, <1>11,
     <1>12, <1>13, <1>14, <1>15, <1>16, <1>17 DEF Work

\* PendingInv is inductive, given TypeInv and LockInv.
LEMMA NextPending ==
  ASSUME TypeInv, LockInv, PendingInv, [Next]_vars
  PROVE  PendingInv'
<1> USE DEF tables, session
<1>1. ASSUME NEW c \in Conns, AcceptClient(c) PROVE PendingInv'
  BY <1>1, QuietPending DEF AcceptClient
<1>2. ASSUME NEW c \in Conns, PeerCloses(c) PROVE PendingInv'
  BY <1>2, QuietPending DEF PeerCloses
<1>3. ASSUME NEW c \in Conns, ReadEOF(c) PROVE PendingInv'
  BY <1>3, QuietPending DEF ReadEOF
<1>4. ASSUME NEW c \in Conns, NEW m \in Requests, Dispatch(c, m)
      PROVE  PendingInv'
  BY <1>4, DispatchPending
<1>5. ASSUME NEW c \in Conns, Work(c) PROVE PendingInv'
  BY <1>5, WorkPending
<1>6. CASE AcceptError
  BY <1>6, DiesPending DEF AcceptError
<1>7. CASE UNCHANGED vars
  BY <1>7, QuietPending DEF vars
<1> QED
  BY <1>1, <1>2, <1>3, <1>4, <1>5, <1>6, <1>7 DEF Next, Ended

\* Whoever has pending changes is in a transaction.
LEMMA PendingHasOwner == LockInv /\ PendingInv => PendingIsOwned
BY DEF PendingIsOwned, PendingInv, LockInv, TxnInv

\* Pending changes never outlive their transaction: neither an autocommit
\* request nor another transaction ever reads or commits them.
THEOREM PendingOwnership == Spec => []PendingIsOwned
<1>1. Init => PendingInv
  BY InitWithPending DEF Init
<1>2. TypeInv /\ LockInv /\ PendingInv => PendingIsOwned
  BY PendingHasOwner
<1>3. TypeInv /\ LockInv /\ PendingInv /\ [Next]_vars => PendingInv'
  BY NextPending
<1> QED
  BY <1>1, <1>2, <1>3, Discipline, PTL DEF Spec

-----------------------------------------------------------------------------
(***************************************************************************)
(* Isolation.                                                              *)
(***************************************************************************)

\* What a step leaves alone: u is the one table the step may touch, which the
\* thread d has or takes while it is free.
LEMMA OneTable ==
  ASSUME TypeInv, LockInv, NEW c \in Conns, NEW t \in Tables,
         t \in locked_tables[c], pc[c] \notin LoopPCs,
         NEW d \in Conns, NEW u \in Tables, d # c,
         table_mutex[u] \in {d, Nobody},
         \A w \in Tables \ {u} :
           UNCHANGED <<key_value[w], key_value_temp[w], table_mutex[w]>>
  PROVE  UNCHANGED <<key_value[t], key_value_temp[t], table_mutex[t]>>
<1>1. m_in_transaction[c]
  BY DEF LockInv, TxnInv
<1>2. table_mutex[t] = c
  BY <1>1 DEF LockInv, MutexInv, Held
<1>3. t # u
  BY <1>2, KVAssumption
<1> QED
  BY <1>3

\* No step touches a table that another thread's transaction has.
LEMMA StepIsolation ==
  ASSUME TypeInv, LockInv, [Next]_vars, NEW c \in Conns, NEW t \in Tables,
         t \in locked_tables[c], pc[c] \notin LoopPCs, pc'[c] = pc[c],
         process' = "running"
  PROVE  UNCHANGED <<key_value[t], key_value_temp[t], table_mutex[t]>>
<1> USE DEF At, tables, session
<1>q. ASSUME UNCHANGED tables
      PROVE  UNCHANGED <<key_value[t], key_value_temp[t], table_mutex[t]>>
  BY <1>q
<1>1. ASSUME NEW d \in Conns, AcceptClient(d) PROVE UNCHANGED tables
  BY <1>1 DEF AcceptClient
<1>2. ASSUME NEW d \in Conns, PeerCloses(d) PROVE UNCHANGED tables
  BY <1>2 DEF PeerCloses
<1>3. ASSUME NEW d \in Conns, ReadEOF(d) PROVE UNCHANGED tables
  BY <1>3 DEF ReadEOF
<1>4. ASSUME NEW d \in Conns, NEW m \in Requests, Dispatch(d, m)
      PROVE  UNCHANGED tables
  BY <1>4
     DEF Dispatch, NotLoggedIn, InvalidRequest, HandleLogin, HandleBye,
         HandlePush, EmptyStack, HandlePop, HandleTop, TooFewOperands,
         BadOperands, HandleArith, DivisionTrap, Dies, HandleBegin,
         NestedBegin, NotInTransaction, HandleCreate, HandleGet, HandleSet,
         HandleCommit
<1>5. ASSUME NEW d \in Conns, Work(d)
      PROVE  UNCHANGED <<key_value[t], key_value_temp[t], table_mutex[t]>>
  <2> DEFINE u == req[d].table
  <2>1. CASE \/ LockRegistry(d) \/ CreateTable(d) \/ FindTable(d)
             \/ TryLockFails(d) \/ GetAccess(d) \/ CommitDone(d)
             \/ RollbackDone(d) \/ DtorDone(d) \/ SendReply(d)
             \/ ResponseTooLong(d) \/ BrokenPipe(d)
    BY <2>1, <1>q DEF LockRegistry, CreateTable, FindTable, TryLockFails,
       GetAccess, CommitDone, RollbackDone, EndTransaction, DtorDone,
       SendReply, ResponseTooLong, BrokenPipe, Dies
  <2>2. CASE TryLock(d) \/ LockTable(d) \/ SetAccess(d) \/ UnlockTable(d)
    <3>1. pc[d] \in {"trylock", "lock", "access", "unlock"}
      BY <2>2 DEF TryLock, LockTable, SetAccess, UnlockTable
    <3>2. u \in Tables
      BY <3>1 DEF TypeInv, RequestInv, AccessPCs
    <3>3. table_mutex[u] \in {d, Nobody}
      <4>1. CASE TryLock(d) \/ LockTable(d)
        BY <4>1 DEF TryLock, LockTable, Free
      <4>2. CASE SetAccess(d) \/ UnlockTable(d)
        <5>1. u \in Held(d)
          BY <4>2 DEF SetAccess, UnlockTable, LockInv, TxnInv, Held, LoopPCs
        <5> QED
          BY <3>2, <5>1 DEF LockInv, MutexInv
      <4> QED
        BY <2>2, <4>1, <4>2
    <3>4. pc'[d] # pc[d]
      BY <2>2 DEF TryLock, LockTable, SetAccess, UnlockTable, Leave, Answer,
                  GoTo, TypeInv, TypeOK
    <3>5. \A w \in Tables \ {u} :
            UNCHANGED <<key_value[w], key_value_temp[w], table_mutex[w]>>
      BY <2>2, <3>2 DEF TryLock, LockTable, SetAccess, UnlockTable, TypeInv,
                        TypeOK
    <3> QED
      BY <3>2, <3>3, <3>4, <3>5, OneTable
  <2>3. ASSUME NEW w \in Tables, CommitTable(d, w) \/ RollbackTable(d, w)
        PROVE  UNCHANGED <<key_value[t], key_value_temp[t], table_mutex[t]>>
    <3>1. pc[d] \in LoopPCs /\ w \in rest[d]
      BY <2>3 DEF CommitTable, RollbackTable, LoopPCs
    <3>2. table_mutex[w] = d /\ d # c
      BY <3>1 DEF LockInv, MutexInv, Held
    <3>3. \A x \in Tables \ {w} :
            UNCHANGED <<key_value[x], key_value_temp[x], table_mutex[x]>>
      BY <2>3 DEF CommitTable, RollbackTable, TypeInv, TypeOK
    <3> QED
      BY <3>2, <3>3, OneTable
  <2> QED
    BY <1>5, <2>1, <2>2, <2>3 DEF Work
<1>6. CASE AcceptError
  BY <1>6 DEF AcceptError, Dies
<1>7. CASE UNCHANGED vars
  BY <1>7, <1>q DEF vars
<1> QED
  BY <1>1, <1>2, <1>3, <1>4, <1>5, <1>6, <1>7, <1>q DEF Next, Ended

\* Isolation: what a transaction has read or written stays as it is until its
\* own commit or rollback, whatever the other threads do.
THEOREM Isolation == Spec => NoInterference
<1> DEFINE P == \A c \in Conns, t \in Tables :
                  (/\ t \in locked_tables[c]
                   /\ pc[c] \notin {"commit", "rollback", "dtor"}
                   /\ pc'[c] = pc[c]
                   /\ process' = "running")
                  => UNCHANGED <<key_value[t], key_value_temp[t], table_mutex[t]>>
<1>1. TypeInv /\ LockInv /\ [Next]_vars => P
  BY StepIsolation DEF LoopPCs
<1> QED
  BY <1>1, Discipline, PTL DEF Spec, NoInterference

-----------------------------------------------------------------------------
(***************************************************************************)
(* Login.                                                                  *)
(***************************************************************************)

\* Where a session that has not logged in can be.
EarlyPCs == {"off", "read", "reply", "last_reply", "dtor"}

\* A slot without connection is not logged in, and a session that is not has
\* done nothing.
LoginInv ==
  \A c \in Conns :
    /\ pc[c] = "off" => ~m_logged_in[c]
    /\ ~m_logged_in[c] => /\ ~m_in_transaction[c]
                          /\ m_stack[c] = << >>
                          /\ pc[c] \in EarlyPCs

\* A step of a session that is logged in and stays so.
LEMMA LoggedInStep ==
  ASSUME TypeInv, LoginInv, NEW c \in Conns, m_logged_in[c],
         UNCHANGED m_logged_in,
         NEW x, pc' = [pc EXCEPT ![c] = x], x # "off",
         \A d \in Conns \ {c} : m_in_transaction'[d] = m_in_transaction[d],
         \A d \in Conns \ {c} : m_stack'[d] = m_stack[d]
  PROVE  LoginInv'
BY DEF TypeInv, TypeOK, LoginInv

\* A step that changes at most where a session is, inside its early places.
LEMMA EarlyStep ==
  ASSUME TypeInv, LoginInv, NEW c \in Conns,
         UNCHANGED <<m_logged_in, m_in_transaction, m_stack>>,
         NEW x \in EarlyPCs \ {"off"}, pc' = [pc EXCEPT ![c] = x]
  PROVE  LoginInv'
BY DEF TypeInv, TypeOK, LoginInv

\* The end of the process.
LEMMA DiesLogin ==
  ASSUME NEW how, Dies(how)
  PROVE  LoginInv'
BY DEF Dies, EachConn, LoginInv, EarlyPCs

\* The request handlers: all but LOGIN and BYE need a session that is logged in.
LEMMA DispatchLogin ==
  ASSUME TypeInv, LoginInv, NEW c \in Conns, NEW m \in Requests, Dispatch(c, m)
  PROVE  LoginInv'
<1> USE DEF GoTo, Answer, LastAnswer, session
<1>1. CASE NotLoggedIn(c, m)
  BY <1>1, EarlyStep DEF NotLoggedIn, EarlyPCs
<1>2. CASE InvalidRequest(c, m)
  BY <1>2, EarlyStep DEF InvalidRequest, EarlyPCs
<1>3. CASE HandleLogin(c, m)
  BY <1>3 DEF HandleLogin, LoginInv, TypeInv, TypeOK
<1>4. CASE HandleBye(c, m)
  BY <1>4, EarlyStep DEF HandleBye, EarlyPCs
<1>5. CASE HandlePush(c, m)
  BY <1>5, LoggedInStep DEF HandlePush, Admitted, TypeInv, TypeOK
<1>6. CASE EmptyStack(c, m)
  BY <1>6, EarlyStep DEF EmptyStack, EarlyPCs
<1>7. CASE HandlePop(c, m)
  BY <1>7, LoggedInStep DEF HandlePop, Admitted, TypeInv, TypeOK
<1>8. CASE HandleTop(c, m)
  BY <1>8, EarlyStep DEF HandleTop, EarlyPCs
<1>9. CASE TooFewOperands(c, m)
  BY <1>9, EarlyStep DEF TooFewOperands, EarlyPCs
<1>10. CASE BadOperands(c, m)
  BY <1>10, LoggedInStep DEF BadOperands, Admitted, ArithOps, TypeInv, TypeOK
<1>11. CASE HandleArith(c, m)
  BY <1>11, LoggedInStep DEF HandleArith, Admitted, ArithOps, TypeInv, TypeOK
<1>12. CASE DivisionTrap(c, m)
  BY <1>12, DiesLogin DEF DivisionTrap
<1>13. CASE HandleBegin(c, m)
  BY <1>13, LoggedInStep DEF HandleBegin, Admitted, TypeInv, TypeOK
<1>14. CASE NestedBegin(c, m)
  BY <1>14, LoggedInStep DEF NestedBegin, FailTransaction, Admitted
<1>15. CASE NotInTransaction(c, m)
  BY <1>15, EarlyStep DEF NotInTransaction, EarlyPCs
<1>16. CASE HandleCreate(c, m)
  BY <1>16, LoggedInStep DEF HandleCreate, Admitted
<1>17. CASE HandleGet(c, m)
  BY <1>17, LoggedInStep DEF HandleGet, Admitted
<1>18. CASE HandleSet(c, m)
  BY <1>18, LoggedInStep DEF HandleSet, Admitted, TypeInv, TypeOK
<1>19. CASE HandleCommit(c, m)
  BY <1>19, LoggedInStep DEF HandleCommit, Admitted
<1> QED
  BY <1>1, <1>2, <1>3, <1>4, <1>5, <1>6, <1>7, <1>8, <1>9, <1>10, <1>11,
     <1>12, <1>13, <1>14, <1>15, <1>16, <1>17, <1>18, <1>19 DEF Dispatch

\* What a thread does with a request, it does for a session that is logged in;
\* only the response and the destructor are for every session.
LEMMA WorkLogin ==
  ASSUME TypeInv, LoginInv, NEW c \in Conns, Work(c)
  PROVE  LoginInv'
<1> USE DEF GoTo, Answer, At, session
<1>i. pc[c] \notin EarlyPCs => m_logged_in[c]
  BY DEF LoginInv
<1>1. CASE LockRegistry(c)
  BY <1>1, <1>i, LoggedInStep DEF LockRegistry, EarlyPCs
<1>2. CASE CreateTable(c)
  BY <1>2, EarlyStep DEF CreateTable, EarlyPCs
<1>3. CASE FindTable(c)
  BY <1>3, <1>i, LoggedInStep DEF FindTable, LockStep, EarlyPCs
<1>4. CASE TryLock(c)
  BY <1>4, <1>i, LoggedInStep DEF TryLock, EarlyPCs
<1>5. CASE TryLockFails(c)
  BY <1>5, <1>i, LoggedInStep DEF TryLockFails, FailTransaction, EarlyPCs
<1>6. CASE LockTable(c)
  BY <1>6, <1>i, LoggedInStep DEF LockTable, EarlyPCs
<1>7. CASE GetAccess(c)
  <2>1. m_logged_in[c] /\ UNCHANGED <<m_logged_in, m_in_transaction>>
    BY <1>7, <1>i DEF GetAccess, EarlyPCs
  <2>2. \A d \in Conns \ {c} : m_stack'[d] = m_stack[d]
    BY <1>7 DEF GetAccess, TypeInv, TypeOK
  <2>3. \E x \in {"reply", "unlock"} : pc' = [pc EXCEPT ![c] = x]
    BY <1>7 DEF GetAccess, Leave
  <2> QED
    BY <2>1, <2>2, <2>3, LoggedInStep
<1>8. CASE SetAccess(c)
  BY <1>8, <1>i, LoggedInStep DEF SetAccess, Leave, EarlyPCs
<1>9. CASE UnlockTable(c)
  BY <1>9, EarlyStep DEF UnlockTable, EarlyPCs
<1>10. ASSUME NEW t \in Tables, CommitTable(c, t) \/ RollbackTable(c, t)
       PROVE  LoginInv'
  BY <1>10 DEF CommitTable, RollbackTable, LoginInv
<1>11. CASE CommitDone(c)
  BY <1>11, <1>i, LoggedInStep
     DEF CommitDone, EndTransaction, EarlyPCs, TypeInv, TypeOK
<1>12. CASE RollbackDone(c)
  BY <1>12, <1>i, LoggedInStep
     DEF RollbackDone, EndTransaction, EarlyPCs, TypeInv, TypeOK
<1>13. CASE ResponseTooLong(c)
  BY <1>13, DiesLogin DEF ResponseTooLong
<1>14. CASE DtorDone(c)
  BY <1>14 DEF DtorDone, LoginInv, EarlyPCs, TypeInv, TypeOK
<1>15. CASE SendReply(c)
  <2>1. \E x \in {"read", "dtor"} : pc' = [pc EXCEPT ![c] = x]
    BY <1>15 DEF SendReply, Destroy
  <2> QED
    BY <1>15, <2>1, EarlyStep DEF SendReply, EarlyPCs
<1>16. CASE BrokenPipe(c)
  BY <1>16, DiesLogin DEF BrokenPipe
<1> QED
  BY <1>1, <1>2, <1>3, <1>4, <1>5, <1>6, <1>7, <1>8, <1>9, <1>10, <1>11,
     <1>12, <1>13, <1>14, <1>15, <1>16 DEF Work

\* LoginInv is inductive, given TypeInv.
LEMMA NextLogin ==
  ASSUME TypeInv, LoginInv, [Next]_vars
  PROVE  LoginInv'
<1> USE DEF session
<1>1. ASSUME NEW c \in Conns, AcceptClient(c) PROVE LoginInv'
  BY <1>1 DEF AcceptClient, LoginInv, EarlyPCs, TypeInv, TypeOK
<1>2. ASSUME NEW c \in Conns, PeerCloses(c) PROVE LoginInv'
  BY <1>2 DEF PeerCloses, LoginInv
<1>3. ASSUME NEW c \in Conns, ReadEOF(c) PROVE LoginInv'
  BY <1>3, EarlyStep DEF ReadEOF, Destroy, GoTo, EarlyPCs
<1>4. ASSUME NEW c \in Conns, NEW m \in Requests, Dispatch(c, m)
      PROVE  LoginInv'
  BY <1>4, DispatchLogin
<1>5. ASSUME NEW c \in Conns, Work(c) PROVE LoginInv'
  BY <1>5, WorkLogin
<1>6. CASE AcceptError
  BY <1>6, DiesLogin DEF AcceptError
<1>7. CASE UNCHANGED vars
  BY <1>7 DEF vars, LoginInv
<1> QED
  BY <1>1, <1>2, <1>3, <1>4, <1>5, <1>6, <1>7 DEF Next, Ended

\* Before LOGIN a connection has no effect: whatever it sends, in whatever
\* order, it gets no transaction, no operands and no table.
THEOREM LoginRequired == Spec => []LoginFirst
<1>1. Init => LoginInv
  BY DEF Init, InitWith, EachConn, LoginInv, EarlyPCs
<1>2. TypeInv /\ LoginInv /\ [Next]_vars => LoginInv'
  BY NextLogin
<1>3. TypeInv /\ LockInv /\ LoginInv => LoginFirst
  BY DEF LoginInv, LoginFirst, LockInv, MutexInv, TxnInv, Held, EarlyPCs
<1> QED
  BY <1>1, <1>2, <1>3, Discipline, PTL DEF Spec

-----------------------------------------------------------------------------
(***************************************************************************)
(* Arithmetic.                                                             *)
(***************************************************************************)

\* What handle_add, handle_sub, handle_mul and handle_div do to the stack.
LEMMA ArithStep ==
  ASSUME TypeInv, NEW c \in Conns, NEW m \in Requests, HandleArith(c, m)
  PROVE  LET s == m_stack[c]
             n == Len(s)
             l == Stoi[s[n - 1]]
             r == Stoi[s[n]]
             x == Stoi[m_stack'[c][n - 1]]
         IN  /\ Len(m_stack'[c]) = n - 1
             /\ \A i \in 1 .. n - 2 : m_stack'[c][i] = s[i]
             /\ m.type \in ArithOps
             /\ l \in Int /\ r \in Int
             /\ m.type = "DIV" => r # 0
             /\ x = Result(m.type, l, r)
<1> DEFINE s == m_stack[c]
           n == Len(s)
           v == ToStr[Result(m.type, Stoi[Left(c)], Stoi[Right(c)])]
<1>1. s \in Seq(Vals) /\ n >= 2
  BY DEF TypeInv, TypeOK, HandleArith
<1>2. Result(m.type, Stoi[Left(c)], Stoi[Right(c)]) \in Ints
  BY ResultInt DEF HandleArith, Admitted
<1>3. /\ v \in Vals
      /\ Stoi[v] = Result(m.type, Stoi[Left(c)], Stoi[Right(c)])
  BY <1>2, ToStrAssumption
<1>4. m_stack'[c] = Push(Pop(Pop(s)), v)
  BY DEF HandleArith, TypeInv, TypeOK
<1> HIDE DEF v
<1>5. /\ Right(c) = s[n] /\ Left(c) = s[n - 1]
      /\ Len(Push(Pop(Pop(s)), v)) = n - 1
      /\ \A i \in 1 .. n - 2 : Push(Pop(Pop(s)), v)[i] = s[i]
      /\ Push(Pop(Pop(s)), v)[n - 1] = v
  BY <1>1, <1>3, StackTwo DEF Left, Right
<1>6. /\ m.type \in ArithOps
      /\ {s[n - 1], s[n]} \subseteq DOMAIN Stoi
      /\ m.type = "DIV" => Stoi[s[n]] # 0
  BY <1>5 DEF HandleArith, Admitted, Computable
<1>7. Stoi[s[n - 1]] \in Int /\ Stoi[s[n]] \in Int
  BY <1>6, StoiAssumption, IntMaxAssumption DEF Ints, IntMin
<1> QED
  BY <1>3, <1>4, <1>5, <1>6, <1>7

\* The arithmetic requests compute what C++ int arithmetic defines, up to the
\* wrap of the build, for every width of int, every text stoi accepts and every
\* stack; left is the operand pushed first.
THEOREM ArithmeticCorrect == Spec => ArithmeticRight
<1> DEFINE P == \A c \in Conns, m \in Requests :
       HandleArith(c, m) =>
         LET s == m_stack[c]
             n == Len(s)
             l == Stoi[s[n - 1]]
             r == Stoi[s[n]]
             x == Stoi[m_stack'[c][n - 1]]
             exact(y) == (x - y) % (2 * (IntMax + 1)) = 0
         IN  /\ Len(m_stack'[c]) = n - 1
             /\ \A i \in 1 .. n - 2 : m_stack'[c][i] = s[i]
             /\ m.type = "ADD" => exact(l + r)
             /\ m.type = "SUB" => exact(l - r)
             /\ m.type = "MUL" => exact(l * r)
             /\ m.type = "DIV" => /\ Abs(l - x * r) < Abs(r)
                                 /\ (l - x * r) * l >= 0
<1>1. TypeInv /\ [Next]_vars => P
  <2> HAVE TypeInv /\ [Next]_vars
  <2> TAKE c \in Conns, m \in Requests
  <2> HAVE HandleArith(c, m)
  <2> DEFINE s == m_stack[c]
             n == Len(s)
             l == Stoi[s[n - 1]]
             r == Stoi[s[n]]
             x == Stoi[m_stack'[c][n - 1]]
  <2>1. /\ Len(m_stack'[c]) = n - 1
        /\ \A i \in 1 .. n - 2 : m_stack'[c][i] = s[i]
        /\ l \in Int /\ r \in Int
        /\ m.type = "DIV" => r # 0
        /\ x = Result(m.type, l, r)
    BY ArithStep
  <2> HIDE DEF l, r, x
  <2>2. m.type = "ADD" => (x - (l + r)) % (2 * (IntMax + 1)) = 0
    BY <2>1, WrapExact DEF Result
  <2>3. m.type = "SUB" => (x - (l - r)) % (2 * (IntMax + 1)) = 0
    BY <2>1, WrapExact DEF Result
  <2>4. m.type = "MUL" => (x - (l * r)) % (2 * (IntMax + 1)) = 0
    BY <2>1, WrapExact DEF Result
  <2>5. m.type = "DIV" => Abs(l - x * r) < Abs(r) /\ (l - x * r) * l >= 0
    BY <2>1, TruncDivExact DEF Result
  <2> QED
    BY <2>1, <2>2, <2>3, <2>4, <2>5 DEF l, r, x
<1>2. Spec => []TypeInv
  BY InitType, NextType, PTL DEF Spec
<1> QED
  BY <1>1, <1>2, PTL DEF Spec, ArithmeticRight

-----------------------------------------------------------------------------
(***************************************************************************)
(* What the modules that extend the server need: a thread changes its own   *)
(* state only, a SET has its value, and an ended process has no threads.    *)
(***************************************************************************)

\* A step of the thread or the peer of c after which the process goes on.
ThreadStep(c) ==
  /\ process' = "running"
  /\ \A d \in Conns \ {c} :
       UNCHANGED <<pc[d], m_in_transaction[d], locked_tables[d], rest[d]>>

\* A thread changes its own state only.
LEMMA OwnState ==
  ASSUME TypeInv, NEW c \in Conns, process' = "running",
         \/ AcceptClient(c) \/ PeerCloses(c) \/ ReadEOF(c) \/ Work(c)
         \/ \E m \in Requests : Dispatch(c, m)
  PROVE  ThreadStep(c)
<1> USE DEF TypeInv, TypeOK, ThreadStep, GoTo, Answer, LastAnswer, session
<1>1. CASE AcceptClient(c) \/ PeerCloses(c) \/ ReadEOF(c)
  BY <1>1 DEF AcceptClient, PeerCloses, ReadEOF, Destroy
<1>2. ASSUME NEW m \in Requests, Dispatch(c, m) PROVE ThreadStep(c)
  <2>1. ~DivisionTrap(c, m)
    BY DEF DivisionTrap, Dies
  <2> QED
    BY <1>2, <2>1
       DEF Dispatch, NotLoggedIn, InvalidRequest, HandleLogin, HandleBye,
           HandlePush, EmptyStack, HandlePop, HandleTop, TooFewOperands,
           BadOperands, HandleArith, HandleBegin, NestedBegin,
           NotInTransaction, HandleCreate, HandleGet, HandleSet, HandleCommit,
           FailTransaction
<1>3. CASE Work(c)
  <2>1. ~ResponseTooLong(c) /\ ~BrokenPipe(c)
    BY DEF ResponseTooLong, BrokenPipe, Dies
  <2>2. CASE \/ LockRegistry(c) \/ CreateTable(c) \/ FindTable(c)
             \/ TryLock(c) \/ TryLockFails(c) \/ LockTable(c) \/ UnlockTable(c)
    BY <2>2 DEF LockRegistry, CreateTable, FindTable, TryLock, TryLockFails,
                LockTable, UnlockTable, FailTransaction
  <2>3. CASE GetAccess(c) \/ SetAccess(c)
    BY <2>3 DEF GetAccess, SetAccess, Leave
  <2>4. CASE \E t \in Tables : CommitTable(c, t) \/ RollbackTable(c, t)
    BY <2>4 DEF CommitTable, RollbackTable
  <2>5. CASE CommitDone(c) \/ RollbackDone(c) \/ DtorDone(c)
    BY <2>5 DEF CommitDone, RollbackDone, DtorDone, EndTransaction
  <2>6. CASE SendReply(c)
    BY <2>6 DEF SendReply, Destroy
  <2> QED
    BY <1>3, <2>1, <2>2, <2>3, <2>4, <2>5, <2>6 DEF Work
<1> QED
  BY <1>1, <1>2, <1>3

\* A SET that has not reached the table yet has its value.
ValueInv ==
  \A c \in Conns :
    pc[c] \in AccessPCs \ {"unlock"} /\ req[c].type = "SET" => value[c] \in Vals

EndedInv == process # "running" => \A c \in Conns : pc[c] = "off"

\* A SET keeps its value until Table::set has it.
LEMMA NextValue ==
  ASSUME TypeInv, ValueInv, [Next]_vars
  PROVE  ValueInv'
<1> USE DEF ValueInv, AccessPCs, TypeInv, TypeOK, GoTo, Answer, LastAnswer,
            Forget, At
<1>q. ASSUME UNCHANGED <<req, value>>, NEW c \in Conns,
             NEW x, pc' = [pc EXCEPT ![c] = x],
             x \notin AccessPCs \ {"unlock"} \/ pc[c] \in AccessPCs \ {"unlock"}
      PROVE  ValueInv'
  BY <1>q
<1>d. ASSUME NEW how, Dies(how) PROVE ValueInv'
  BY <1>d DEF Dies, EachConn
<1>1. ASSUME NEW c \in Conns, AcceptClient(c) PROVE ValueInv'
  BY <1>1 DEF AcceptClient
<1>2. ASSUME NEW c \in Conns, PeerCloses(c) PROVE ValueInv'
  BY <1>2 DEF PeerCloses
<1>3. ASSUME NEW c \in Conns, ReadEOF(c) PROVE ValueInv'
  BY <1>3 DEF ReadEOF, Destroy
<1>4. ASSUME NEW c \in Conns, NEW m \in Requests, Dispatch(c, m)
      PROVE  ValueInv'
  <2>1. CASE HandleSet(c, m)
    <3>1. m_stack[c] \in Seq(Vals) /\ Len(m_stack[c]) > 0
      BY <2>1, LenProperties, EmptySeq DEF HandleSet, IsEmpty
    <3>2. GetTop(m_stack[c]) \in Vals
      BY <3>1, StackTop
    <3> QED
      BY <2>1, <3>2 DEF HandleSet
  <2>2. CASE HandleGet(c, m)
    BY <2>2 DEF HandleGet, Admitted
  <2>3. CASE HandleTop(c, m)
    BY <2>3 DEF HandleTop
  <2>4. CASE HandleCreate(c, m)
    BY <2>4 DEF HandleCreate
  <2>5. CASE DivisionTrap(c, m)
    BY <2>5, <1>d DEF DivisionTrap
  <2>6. CASE \/ NotLoggedIn(c, m) \/ InvalidRequest(c, m) \/ HandleLogin(c, m)
             \/ HandleBye(c, m) \/ HandlePush(c, m) \/ EmptyStack(c, m)
             \/ HandlePop(c, m) \/ TooFewOperands(c, m) \/ BadOperands(c, m)
             \/ HandleArith(c, m) \/ HandleBegin(c, m) \/ NestedBegin(c, m)
             \/ NotInTransaction(c, m) \/ HandleCommit(c, m)
    <3>1. /\ UNCHANGED <<req, value>>
          /\ \E x \in PCs \ AccessPCs : pc' = [pc EXCEPT ![c] = x]
      BY <2>6
         DEF NotLoggedIn, InvalidRequest, HandleLogin, HandleBye, HandlePush,
             EmptyStack, HandlePop, TooFewOperands, BadOperands, HandleArith,
             HandleBegin, NestedBegin, NotInTransaction, HandleCommit,
             FailTransaction, PCs
    <3> QED
      BY <3>1, <1>q
  <2> QED
    BY <1>4, <2>1, <2>2, <2>3, <2>4, <2>5, <2>6 DEF Dispatch
<1>5. ASSUME NEW c \in Conns, Work(c) PROVE ValueInv'
  <2>1. CASE \/ LockRegistry(c) \/ TryLock(c) \/ TryLockFails(c) \/ LockTable(c)
    <3>1. /\ UNCHANGED <<req, value>>
          /\ \/ GoTo(c, "create") \/ GoTo(c, "rollback")
             \/ GoTo(c, "find") /\ pc[c] = "find_lock"
             \/ GoTo(c, "access") /\ pc[c] \in {"trylock", "lock"}
      BY <2>1 DEF LockRegistry, TryLock, TryLockFails, LockTable, FailTransaction
    <3> QED
      BY <3>1, <1>q
  <2>2. CASE \/ CreateTable(c) \/ UnlockTable(c) \/ CommitDone(c)
             \/ RollbackDone(c)
    BY <2>2 DEF CreateTable, UnlockTable, CommitDone, RollbackDone,
                EndTransaction
  <2>3. CASE FindTable(c)
    <3>1. CASE req[c].table \notin set_of_table
      BY <2>3, <3>1 DEF FindTable
    <3>2. CASE req[c].table \in set_of_table
      <4>1. /\ UNCHANGED <<req, value>> /\ pc[c] = "find"
            /\ pc' = [pc EXCEPT ![c] = LockStep(c, req[c].table)]
        BY <2>3, <3>2 DEF FindTable
      <4> QED
        BY <4>1, <1>q
    <3> QED
      BY <3>1, <3>2
  <2>4. CASE GetAccess(c) \/ SetAccess(c)
    <3>1. /\ \E x \in {"reply", "unlock"} : pc' = [pc EXCEPT ![c] = x]
          /\ \A d \in Conns \ {c} : value'[d] = value[d] /\ req'[d] = req[d]
      BY <2>4 DEF GetAccess, SetAccess, Leave
    <3> QED
      BY <3>1
  <2>5. ASSUME NEW t \in Tables, CommitTable(c, t) \/ RollbackTable(c, t)
        PROVE  ValueInv'
    BY <2>5 DEF CommitTable, RollbackTable
  <2>6. CASE DtorDone(c)
    BY <2>6 DEF DtorDone
  <2>7. CASE SendReply(c)
    BY <2>7 DEF SendReply, Destroy
  <2>8. CASE ResponseTooLong(c) \/ BrokenPipe(c)
    BY <2>8, <1>d DEF ResponseTooLong, BrokenPipe
  <2> QED
    BY <1>5, <2>1, <2>2, <2>3, <2>4, <2>5, <2>6, <2>7, <2>8 DEF Work
<1>6. CASE AcceptError
  BY <1>6, <1>d DEF AcceptError
<1>7. CASE UNCHANGED vars
  BY <1>7 DEF vars
<1> QED
  BY <1>1, <1>2, <1>3, <1>4, <1>5, <1>6, <1>7 DEF Next, Ended

\* A thread runs only while the process does; it goes on or ends the process.
LEMMA GoesOn ==
  ASSUME NEW c \in Conns,
         \/ AcceptClient(c) \/ PeerCloses(c) \/ ReadEOF(c) \/ Work(c)
         \/ \E m \in Requests : Dispatch(c, m)
  PROVE  /\ process = "running"
         /\ \/ UNCHANGED process
            \/ Dies("SIGFPE") \/ Dies("SIGPIPE") \/ Dies("terminated")
<1> USE DEF At, Receives, Admitted
<1>1. CASE AcceptClient(c) \/ PeerCloses(c) \/ ReadEOF(c)
  BY <1>1 DEF AcceptClient, PeerCloses, ReadEOF
<1>2. ASSUME NEW m \in Requests, Dispatch(c, m)
      PROVE  process = "running" /\ (UNCHANGED process \/ Dies("SIGFPE"))
  BY <1>2
     DEF Dispatch, NotLoggedIn, InvalidRequest, HandleLogin, HandleBye,
         HandlePush, EmptyStack, HandlePop, HandleTop, TooFewOperands,
         BadOperands, HandleArith, DivisionTrap, HandleBegin, NestedBegin,
         NotInTransaction, HandleCreate, HandleGet, HandleSet, HandleCommit
<1>3. CASE Work(c)
  <2>1. CASE ResponseTooLong(c) \/ BrokenPipe(c)
    BY <2>1 DEF ResponseTooLong, BrokenPipe
  <2>2. CASE \E t \in Tables : CommitTable(c, t) \/ RollbackTable(c, t)
    BY <2>2 DEF CommitTable, RollbackTable
  <2>3. CASE \/ LockRegistry(c) \/ CreateTable(c) \/ FindTable(c) \/ TryLock(c)
             \/ TryLockFails(c) \/ LockTable(c) \/ GetAccess(c) \/ SetAccess(c)
             \/ UnlockTable(c) \/ CommitDone(c) \/ RollbackDone(c)
             \/ DtorDone(c) \/ SendReply(c)
    BY <2>3
       DEF LockRegistry, CreateTable, FindTable, TryLock, TryLockFails,
           LockTable, GetAccess, SetAccess, UnlockTable, CommitDone,
           RollbackDone, EndTransaction, DtorDone, SendReply
  <2> QED
    BY <1>3, <2>1, <2>2, <2>3 DEF Work
<1> QED
  BY <1>1, <1>2, <1>3

\* When the process has ended its threads have.
LEMMA NextEnded ==
  ASSUME EndedInv, [Next]_vars
  PROVE  EndedInv'
<1>1. ASSUME NEW how, Dies(how) PROVE EndedInv'
  BY <1>1 DEF Dies, EachConn, EndedInv
<1>2. CASE \E c \in Conns : \/ AcceptClient(c) \/ PeerCloses(c) \/ ReadEOF(c)
                            \/ \E m \in Requests : Dispatch(c, m)
                            \/ Work(c)
  BY <1>1, <1>2, GoesOn DEF EndedInv
<1>3. CASE AcceptError
  BY <1>1, <1>3 DEF AcceptError
<1>4. CASE UNCHANGED vars
  BY <1>4 DEF vars, EndedInv
<1> QED
  BY <1>2, <1>3, <1>4 DEF Next, Ended
=============================================================================
