------------------------ MODULE KVServerSerial_proofs ------------------------
(***************************************************************************)
(* The server implements AtomicStore, for every set of connections, tables, *)
(* keys, values and requests.                                               *)
(*                                                                         *)
(* The inductive invariant adds to the lock discipline of KVServer_proofs   *)
(* what ties the histories to the state: whatever a transaction has read    *)
(* is in a table it has locked, and is still so.                            *)
(***************************************************************************)
EXTENDS KVServerSerial, KVServer_proofs

ToldInv ==
  /\ told = [c \in Conns |-> told[c]]
  /\ \A c \in Conns : \A x \in told[c] :
       /\ Live(c)
       /\ \E t \in locked_tables[c], k \in Keys : x = <<t, k, key_value[t][k]>>

StateInv == TypeInv /\ LockInv /\ PendingInv /\ ValueInv /\ EndedInv

HInv == StateInv /\ ToldInv

-----------------------------------------------------------------------------
(***************************************************************************)
(* Facts about a state.                                                    *)
(***************************************************************************)

\* A transaction owns the mutexes of its tables until a loop starts.
LEMMA Owner ==
  ASSUME TypeInv, LockInv, NEW c \in Conns, Live(c),
         NEW t \in locked_tables[c]
  PROVE  t \in Tables /\ table_mutex[t] = c
BY DEF TypeInv, TypeOK, LockInv, MutexInv, Held, Live, LoopPCs

\* A commit loop owns the mutexes of the tables it has still to visit: a table
\* that is free, or that a thread outside that loop owns, is not committing.
LEMMA Settled ==
  ASSUME TypeInv, LockInv, NEW t \in Tables,
         \/ table_mutex[t] = Nobody
         \/ pc[table_mutex[t]] # "commit"
  PROVE  /\ ~Committing(t)
         /\ StoreBar[t] = key_value[t]
<1>1. ~Committing(t)
  BY KVAssumption DEF LockInv, MutexInv, Held, LoopPCs, Committing
<1> QED
  BY <1>1 DEF StoreBar

\* A free table, and one an autocommit request owns, has no pending changes.
LEMMA NothingPending ==
  ASSUME TypeInv, LockInv, PendingInv, NEW t \in Tables,
         \/ table_mutex[t] = Nobody
         \/ locked_tables[table_mutex[t]] = {}
  PROVE  key_value_temp[t] = EmptyMap
BY KVAssumption DEF PendingInv

\* What the maps of the mapping are.
LEMMA BarTypes ==
  ASSUME TypeInv
  PROVE  /\ StoreBar \in [Tables -> Map]
         /\ WritesBar \in [Conns -> [Tables -> Map]]
<1>1. \A t \in Tables : /\ key_value[t] \in Map /\ key_value_temp[t] \in Map
                        /\ CommitChanges(key_value[t], key_value_temp[t]) \in Map
                        /\ EmptyMap \in Map
  BY DEF TypeInv, TypeOK, Map, CommitChanges, EmptyMap
<1> QED
  BY <1>1 DEF StoreBar, WritesBar

\* Committing the changes of a transaction that made none.
LEMMA CommitNothing ==
  ASSUME NEW kv \in Map
  PROVE  CommitChanges(kv, EmptyMap) = kv
BY DEF CommitChanges, EmptyMap, Map

-----------------------------------------------------------------------------
(***************************************************************************)
(* Facts about a step.                                                     *)
(***************************************************************************)

\* The histories of the other connections stay as they are.
LEMMA OthersHistory ==
  ASSUME HInv, HNext, NEW c \in Conns, ThreadStep(c)
  PROVE  /\ told' = [told EXCEPT ![c] = Tells(c)]
         /\ got' = IF Gets(c) THEN {<<c, Got(c)>>} ELSE {}
         /\ \A d \in Conns \ {c} : Live(d)' <=> Live(d)
<1>1. \A d \in Conns \ {c} : Live(d)' <=> Live(d)
  BY DEF ThreadStep, Live
<1>2. \A d \in Conns \ {c} : ~Gets(d)
  BY DEF ThreadStep, Gets
<1>3. \A d \in Conns \ {c} : Tells(d) = told[d]
  BY <1>1, <1>2 DEF Tells, HInv, ToldInv
<1>4. told' = [d \in Conns |-> Tells(d)]
  BY DEF HNext, ThreadStep
<1>5. told = [d \in Conns |-> told[d]]
  BY DEF HInv, ToldInv
<1>6. told' = [told EXCEPT ![c] = Tells(c)]
  BY <1>3, <1>4, <1>5
<1>7. got' = IF Gets(c) THEN {<<c, Got(c)>>} ELSE {}
  BY <1>2 DEF HNext
<1> QED
  BY <1>1, <1>6, <1>7
-----------------------------------------------------------------------------
(***************************************************************************)
(* The invariant.                                                          *)
(***************************************************************************)

\* The state invariants are inductive.
LEMMA NextState ==
  ASSUME StateInv, [Next]_vars
  PROVE  StateInv'
BY NextType, NextLock, NextPending, NextValue, NextEnded DEF StateInv

\* What a transaction reads is in a table it has, and is the committed value
\* unless the transaction wrote the key itself.
LEMMA ReadsItsTable ==
  ASSUME StateInv, NEW c \in Conns, Gets(c), GetAccess(c)
  PROVE  /\ req[c].table \in Tables /\ req[c].key \in Keys
         /\ table_mutex[req[c].table] = c
         /\ ~Committing(req[c].table)
         /\ Got(c) = TableGet(key_value[req[c].table],
                              key_value_temp[req[c].table], req[c].key)
<1> DEFINE t == req[c].table
           k == req[c].key
           v == TableGet(key_value[t], key_value_temp[t], k)
<1>1. t \in Tables /\ k \in Keys /\ pc[c] = "access"
  BY DEF Gets, StateInv, TypeInv, RequestInv, AccessPCs
<1>2. t \in Held(c)
  BY <1>1 DEF StateInv, LockInv, TxnInv, Held, LoopPCs
<1>3. table_mutex[t] = c
  BY <1>1, <1>2 DEF StateInv, LockInv, MutexInv
<1>4. ~Committing(t)
  BY <1>1, <1>3, Settled DEF StateInv
<1>5. Got(c) = v
  <2>1. m_stack[c] \in Seq(Vals) /\ Len(m_stack[c]) \in Nat
    BY LenProperties DEF StateInv, TypeInv, TypeOK
  <2>2. CASE ~HasKey(key_value[t], key_value_temp[t], k)
    <3>1. m_stack' = m_stack
      BY <2>2 DEF GetAccess
    <3>2. Got(c) = NoValue
      BY <2>1, <3>1 DEF Got
    <3> QED
      BY <2>2, <3>2 DEF HasKey, TableGet
  <2>3. CASE HasKey(key_value[t], key_value_temp[t], k)
    <3>1. v \in Vals
      BY <1>1, <2>3, MapTypes DEF StateInv, TypeInv, TypeOK
    <3>2. m_stack' = [m_stack EXCEPT ![c] = Push(m_stack[c], v)]
      BY <2>3 DEF GetAccess
    <3> HIDE DEF v
    <3>3. m_stack'[c] = Append(m_stack[c], v)
      BY <3>2 DEF Push, StateInv, TypeInv, TypeOK
    <3>4. /\ Len(m_stack'[c]) = Len(m_stack[c]) + 1
          /\ m_stack'[c][Len(m_stack[c]) + 1] = v
      BY <2>1, <3>1, <3>3, AppendProperties
    <3> QED
      BY <2>1, <3>4 DEF Got, GetTop
  <2> QED
    BY <2>2, <2>3
<1> QED
  BY <1>1, <1>3, <1>4, <1>5
\* Until its commit or rollback starts, a transaction keeps its tables and
\* nobody changes their committed maps: not even itself.
LEMMA TablesStay ==
  ASSUME StateInv, Next, process' = "running", NEW d \in Conns,
         Live(d), Live(d)', NEW t \in locked_tables[d]
  PROVE  t \in locked_tables'[d] /\ key_value'[t] = key_value[t]
<1> USE DEF At, tables, session
<1>o. t \in Tables /\ table_mutex[t] = d
  BY Owner DEF StateInv
<1>t. TypeOK /\ m_in_transaction[d] /\ m_in_transaction'[d]
  BY DEF StateInv, TypeInv, Live
<1>1. ASSUME NEW c \in Conns, AcceptClient(c) \/ PeerCloses(c) \/ ReadEOF(c)
      PROVE  UNCHANGED <<locked_tables, key_value>>
  BY <1>1 DEF AcceptClient, PeerCloses, ReadEOF
<1>2. ASSUME NEW c \in Conns, NEW m \in Requests, Dispatch(c, m)
      PROVE  UNCHANGED <<locked_tables, key_value>>
  BY <1>2
     DEF Dispatch, NotLoggedIn, InvalidRequest, HandleLogin, HandleBye,
         HandlePush, EmptyStack, HandlePop, HandleTop, TooFewOperands,
         BadOperands, HandleArith, DivisionTrap, Dies, HandleBegin,
         NestedBegin, NotInTransaction, HandleCreate, HandleGet, HandleSet,
         HandleCommit
<1>3. ASSUME NEW c \in Conns, Work(c)
      PROVE  t \in locked_tables'[d] /\ key_value'[t] = key_value[t]
  <2>1. CASE \/ LockRegistry(c) \/ CreateTable(c) \/ FindTable(c)
             \/ TryLockFails(c) \/ LockTable(c) \/ GetAccess(c)
             \/ UnlockTable(c) \/ SendReply(c)
    BY <2>1 DEF LockRegistry, CreateTable, FindTable, TryLockFails, LockTable,
                GetAccess, UnlockTable, SendReply
  <2>2. CASE TryLock(c)
    BY <1>t, <2>2 DEF TryLock, TypeOK
  <2>3. CASE SetAccess(c)
    <3>1. CASE m_in_transaction[c]
      BY <2>3, <3>1 DEF SetAccess
    <3>2. CASE ~m_in_transaction[c]
      <4>1. req[c].table \in Tables /\ table_mutex[req[c].table] = c
        BY <2>3, <3>2 DEF SetAccess, StateInv, TypeInv, RequestInv, AccessPCs,
                          LockInv, MutexInv, Held, LoopPCs
      <4>2. req[c].table # t
        BY <1>o, <1>t, <3>2, <4>1
      <4> QED
        BY <1>o, <1>t, <2>3, <3>2, <4>1, <4>2 DEF SetAccess, TypeOK
    <3> QED
      BY <3>1, <3>2
  <2>4. ASSUME NEW u \in Tables, CommitTable(c, u)
        PROVE  t \in locked_tables'[d] /\ key_value'[t] = key_value[t]
    <3>1. table_mutex[u] = c
      BY <2>4 DEF CommitTable, StateInv, LockInv, MutexInv, Held, LoopPCs
    <3>2. c # d
      BY <2>4 DEF CommitTable, Live
    <3> QED
      BY <1>o, <1>t, <2>4, <3>1, <3>2 DEF CommitTable, TypeOK
  <2>5. ASSUME NEW u \in Tables, RollbackTable(c, u)
        PROVE  t \in locked_tables'[d] /\ key_value'[t] = key_value[t]
    BY <2>5 DEF RollbackTable
  <2>6. CASE CommitDone(c) \/ RollbackDone(c) \/ DtorDone(c)
    <3>1. c # d
      BY <2>6 DEF CommitDone, RollbackDone, DtorDone, Live
    <3> QED
      BY <1>t, <2>6, <3>1 DEF CommitDone, RollbackDone, EndTransaction,
                              DtorDone, TypeOK
  <2>7. CASE ResponseTooLong(c) \/ BrokenPipe(c)
    BY <2>7 DEF ResponseTooLong, BrokenPipe, Dies
  <2> QED
    BY <1>3, <2>1, <2>2, <2>3, <2>4, <2>5, <2>6, <2>7 DEF Work
<1>4. CASE AcceptError
  BY <1>4 DEF AcceptError, Dies
<1>5. CASE Ended
  BY <1>5 DEF Ended, vars
<1> QED
  BY <1>1, <1>2, <1>3, <1>4, <1>5 DEF Next

\* A step in which a GET returns is its access to the table.
LEMMA GetsIsGetAccess ==
  ASSUME StateInv, Next, NEW c \in Conns, Gets(c)
  PROVE  GetAccess(c)
<1> USE DEF Gets, At
<1>t. TypeOK /\ pc[c] = "access" /\ req[c].type = "GET" /\ pc'[c] # pc[c]
  BY DEF StateInv, TypeInv
<1>1. ASSUME NEW d \in Conns, d # c,
             \/ AcceptClient(d) \/ PeerCloses(d) \/ ReadEOF(d) \/ Work(d)
             \/ \E m \in Requests : Dispatch(d, m)
      PROVE  FALSE
  <2>1. ThreadStep(d)
    BY <1>1, OwnState DEF StateInv
  <2> QED
    BY <1>1, <1>t, <2>1 DEF ThreadStep
<1>2. ASSUME NEW m \in Requests, Dispatch(c, m) PROVE FALSE
  BY <1>2, <1>t
     DEF Dispatch, NotLoggedIn, InvalidRequest, HandleLogin, HandleBye,
         HandlePush, EmptyStack, HandlePop, HandleTop, TooFewOperands,
         BadOperands, HandleArith, DivisionTrap, HandleBegin, NestedBegin,
         NotInTransaction, HandleCreate, HandleGet, HandleSet, HandleCommit,
         Admitted, Receives
<1>3. CASE Work(c)
  BY <1>3, <1>t
     DEF Work, LockRegistry, CreateTable, FindTable, TryLock, TryLockFails,
         LockTable, SetAccess, UnlockTable, CommitTable, RollbackTable,
         CommitDone, RollbackDone, ResponseTooLong, DtorDone, SendReply,
         BrokenPipe
<1>4. ~AcceptClient(c) /\ ~PeerCloses(c) /\ ~ReadEOF(c)
  BY <1>t DEF AcceptClient, PeerCloses, ReadEOF
<1>5. ~AcceptError /\ ~Ended
  BY <1>t DEF AcceptError, Dies, Ended, vars
<1> QED
  BY <1>1, <1>2, <1>3, <1>4, <1>5 DEF Next

\* What a transaction has read stays true.
LEMMA NextTold ==
  ASSUME StateInv, ToldInv, HNext
  PROVE  ToldInv'
<1>1. told' = [c \in Conns |-> IF process' = "running" THEN Tells(c) ELSE {}]
      /\ Next
  BY DEF HNext
<1>2. told' = [c \in Conns |-> told'[c]]
  BY <1>1
<1>3. ASSUME NEW c \in Conns, NEW x \in told'[c]
      PROVE  /\ Live(c)'
             /\ \E t \in locked_tables'[c], k \in Keys :
                  x = <<t, k, key_value'[t][k]>>
  <2>1. process' = "running" /\ x \in Tells(c)
    BY <1>1, <1>3
  <2>2. Live(c)'
    BY <2>1 DEF Tells
  <2>3. CASE x \in told[c]
    <3>1. Live(c)
      BY <2>3 DEF ToldInv
    <3>2. PICK t \in locked_tables[c], k \in Keys : x = <<t, k, key_value[t][k]>>
      BY <2>3 DEF ToldInv
    <3>3. t \in locked_tables'[c] /\ key_value'[t] = key_value[t]
      BY <1>1, <2>1, <2>2, <3>1, TablesStay
    <3> QED
      BY <2>2, <3>2, <3>3
  <2>4. CASE x \notin told[c]
    <3> DEFINE t == req[c].table
               k == req[c].key
    <3>1. Gets(c) /\ Live(c) /\ ~OwnWrite(c) /\ x = <<t, k, Got(c)>>
      BY <2>1, <2>2, <2>4 DEF Tells
    <3>2. GetAccess(c)
      BY <1>1, <3>1, GetsIsGetAccess
    <3>3. t \in Tables /\ k \in Keys /\ Got(c) = key_value[t][k]
      BY <3>1, <3>2, ReadsItsTable DEF OwnWrite, TableGet
    <3>4. t \in locked_tables[c]
      BY <3>1, <3>2 DEF Live, GetAccess, At, StateInv, LockInv, TxnInv
    <3>5. t \in locked_tables'[c] /\ key_value'[t] = key_value[t]
      BY <1>1, <2>1, <2>2, <3>1, <3>4, TablesStay
    <3> QED
      BY <2>2, <3>1, <3>3, <3>5
  <2> QED
    BY <2>3, <2>4
<1> QED
  BY <1>2, <1>3 DEF ToldInv

\* The invariant holds initially, whatever tables and values there are.
LEMMA InitH ==
  ASSUME NEW created \in SUBSET Tables, NEW maps \in [Tables -> Map],
         InitWith(created, maps), told = EachConn({}), got = {}
  PROVE  HInv
<1>1. TypeInv /\ LockInv /\ PendingInv
  BY InitWithType, InitWithLock, InitWithPending
<1>2. ValueInv /\ EndedInv
  BY DEF InitWith, EachConn, ValueInv, EndedInv, AccessPCs
<1>3. ToldInv
  BY DEF EachConn, ToldInv
<1> QED
  BY <1>1, <1>2, <1>3 DEF HInv, StateInv

\* The invariant is inductive.
LEMMA NextH ==
  ASSUME HInv, [HNext]_hvars
  PROVE  HInv'
<1>1. [Next]_vars
  BY DEF HNext, hvars
<1>2. StateInv'
  BY <1>1, NextState DEF HInv
<1>3. CASE HNext
  BY <1>2, <1>3, NextTold DEF HInv
<1>4. CASE UNCHANGED hvars
  <2>1. ToldInv'
    BY <1>4 DEF hvars, vars, tables, session, HInv, ToldInv, Live
  <2> QED
    BY <1>2, <2>1 DEF HInv
<1> QED
  BY <1>3, <1>4
-----------------------------------------------------------------------------
(***************************************************************************)
(* The refinement, step by step.                                           *)
(***************************************************************************)

ActiveBar == [c \in Conns |-> Live(c)]

\* The operators of Table mean the same on both sides of the mapping.
LEMMA SameTable ==
  /\ A!EmptyMap = EmptyMap
  /\ A!NoWrites = [t \in Tables |-> EmptyMap]
  /\ A!Map = Map
  /\ \A kv, temp : A!CommitChanges(kv, temp) = CommitChanges(kv, temp)
BY DEF A!EmptyMap, EmptyMap, A!NoWrites, A!Map, Map, A!CommitChanges,
       CommitChanges

\* The transactions of the other connections stay as they are.
LEMMA OthersBars ==
  ASSUME HInv, HNext, NEW c \in Conns, ThreadStep(c)
  PROVE  /\ ActiveBar' = [ActiveBar EXCEPT ![c] = Live(c)']
         /\ WritesBar' = [WritesBar EXCEPT ![c] = WritesBar'[c]]
<1>1. \A d \in Conns \ {c} : Live(d)' <=> Live(d)
  BY OthersHistory
<1>2. ActiveBar' = [ActiveBar EXCEPT ![c] = Live(c)']
  BY <1>1 DEF ActiveBar, Live
<1>3. ASSUME NEW d \in Conns \ {c} PROVE WritesBar'[d] = WritesBar[d]
  <2>1. locked_tables'[d] = locked_tables[d] /\ pc'[d] = pc[d]
    BY DEF ThreadStep
  <2>2. ASSUME NEW t \in Tables, Live(d), t \in locked_tables[d]
        PROVE  key_value_temp'[t] = key_value_temp[t]
    BY <2>1, <2>2, StepIsolation
       DEF HInv, StateInv, HNext, ThreadStep, Live, LoopPCs
  <2> QED
    BY <1>1, <2>1, <2>2 DEF WritesBar
<1>4. WritesBar' = [WritesBar EXCEPT ![c] = WritesBar'[c]]
  <2>1. /\ WritesBar = [d \in Conns |-> WritesBar[d]]
        /\ WritesBar' = [d \in Conns |-> WritesBar'[d]]
    BY DEF WritesBar
  <2> QED
    BY <1>3, <2>1, Zenon
<1> QED
  BY <1>2, <1>4

\* What becomes of the committed maps when the maps of the tables stay as they
\* are and c is in no commit loop before or after the step.
LEMMA StoreStays ==
  ASSUME NEW c \in Conns, ThreadStep(c), UNCHANGED <<key_value, key_value_temp>>,
         pc[c] # "commit", pc'[c] # "commit"
  PROVE  StoreBar' = StoreBar
<1>1. \A t \in Tables : Committing(t)' <=> Committing(t)
  BY DEF Committing, ThreadStep
<1> QED
  BY <1>1 DEF StoreBar

\* A step that a client of the atomic store cannot see.
LEMMA IdleStep ==
  ASSUME HInv, HNext, NEW c \in Conns, ThreadStep(c), ~Gets(c),
         Live(c)' <=> Live(c), StoreBar' = StoreBar,
         WritesBar'[c] = WritesBar[c]
  PROVE  A!Idle
<1>1. told' = told
  <2>1. told = [d \in Conns |-> told[d]]
    BY DEF HInv, ToldInv
  <2>2. Tells(c) = told[c]
    BY DEF Tells, HInv, ToldInv
  <2> QED
    BY <2>1, <2>2, OthersHistory
<1>2. got' = {}
  BY OthersHistory
<1>3. WritesBar' = WritesBar
  <2>1. WritesBar = [d \in Conns |-> WritesBar[d]]
    BY DEF WritesBar
  <2>2. WritesBar' = [WritesBar EXCEPT ![c] = WritesBar'[c]]
    BY OthersBars
  <2> QED
    BY <2>1, <2>2, Zenon
<1>4. ActiveBar' = ActiveBar
  BY OthersHistory DEF ActiveBar, Live
<1> QED
  BY <1>1, <1>2, <1>3, <1>4 DEF A!Idle, ActiveBar

\* The steps of a request outside the tables' maps and the loops.
LEMMA QuietStep ==
  ASSUME HInv, HNext, NEW c \in Conns, ThreadStep(c),
         UNCHANGED <<key_value, key_value_temp, m_in_transaction, locked_tables>>,
         pc[c] \notin LoopPCs \cup {"access"}, pc'[c] \notin LoopPCs
  PROVE  A!Idle
<1>1. Live(c)' <=> Live(c)
  BY DEF Live, LoopPCs
<1>2. StoreBar' = StoreBar
  BY StoreStays DEF LoopPCs
<1>3. WritesBar'[c] = WritesBar[c]
  BY <1>1 DEF WritesBar
<1>4. ~Gets(c)
  BY DEF Gets
<1> QED
  BY <1>1, <1>2, <1>3, <1>4, IdleStep

\* A rollback loop starts, in the catch clause or in the destructor: a
\* transaction, if there is one, leaves no trace.
LEMMA AbortStep ==
  ASSUME HInv, HNext, NEW c \in Conns, ThreadStep(c),
         UNCHANGED <<key_value, key_value_temp>>,
         pc[c] \notin LoopPCs \cup {"access"}, pc'[c] \in {"rollback", "dtor"}
  PROVE  A!Abort(c)
<1>1. StoreBar' = StoreBar
  BY StoreStays DEF LoopPCs
<1>2. ~Live(c)' /\ ~Gets(c)
  BY DEF Live, Gets
<1>3. told' = [told EXCEPT ![c] = {}] /\ got' = {}
  BY <1>2, OthersHistory DEF Tells
<1>4. ActiveBar' = [ActiveBar EXCEPT ![c] = FALSE]
  BY <1>2, OthersBars
<1>5. WritesBar'[c] = [t \in Tables |-> EmptyMap]
  BY <1>2 DEF WritesBar
<1>6. WritesBar' = [WritesBar EXCEPT ![c] = A!NoWrites]
  BY <1>5, OthersBars, SameTable
<1> QED
  BY <1>1, <1>3, <1>4, <1>6 DEF A!Abort, A!Drop, ActiveBar

\* The end of the process.
LEMMA CrashStep ==
  ASSUME HNext, NEW how, how # "running", Dies(how)
  PROVE  A!Crash
<1>1. \A c \in Conns : ~Live(c)'
  BY DEF Dies, EachConn, Live
<1>2. told' = [c \in Conns |-> {}] /\ got' = {}
  BY DEF HNext, Dies, Gets
<1>3. \A t \in Tables : ~Committing(t)'
  BY DEF Dies, EachConn, Committing
<1>4. StoreBar' = [t \in Tables |-> EmptyMap]
  BY <1>3 DEF StoreBar, Dies, EachTable
<1>5. WritesBar' = [c \in Conns |-> [t \in Tables |-> EmptyMap]]
  BY <1>1 DEF WritesBar
<1>6. [c \in Conns |-> Live(c)]' = [c \in Conns |-> FALSE]
  BY <1>1 DEF Live
<1> QED
  BY <1>2, <1>4, <1>5, <1>6, SameTable DEF A!Crash
\* BEGIN: nothing but the transaction is there afterwards.
LEMMA BeginStep ==
  ASSUME HInv, HNext, NEW c \in Conns, NEW m \in Requests, ThreadStep(c),
         HandleBegin(c, m)
  PROVE  A!Begin(c)
<1> USE DEF HandleBegin, Admitted, Receives, At, Answer, GoTo, tables
<1>t. TypeOK /\ LockInv
  BY DEF HInv, StateInv, TypeInv
<1>1. ~Live(c) /\ Live(c)' /\ ~Gets(c)
  BY <1>t DEF Live, Gets, TypeOK
<1>2. StoreBar' = StoreBar
  BY <1>t, StoreStays DEF TypeOK
<1>3. told' = told /\ got' = {}
  <2>1. told = [d \in Conns |-> told[d]]
    BY DEF HInv, ToldInv
  <2>2. Tells(c) = told[c]
    BY <1>1 DEF Tells
  <2> QED
    BY <1>1, <2>1, <2>2, OthersHistory
<1>4. ActiveBar' = [ActiveBar EXCEPT ![c] = TRUE] /\ ~ActiveBar[c]
  BY <1>1, OthersBars DEF ActiveBar, Live
<1>5. locked_tables'[c] = {}
  BY <1>t DEF LockInv, TxnInv
<1>6. WritesBar'[c] = WritesBar[c]
  BY <1>1, <1>5 DEF WritesBar
<1>7. WritesBar' = WritesBar
  <2>1. WritesBar = [d \in Conns |-> WritesBar[d]]
    BY DEF WritesBar
  <2>2. WritesBar' = [WritesBar EXCEPT ![c] = WritesBar'[c]]
    BY OthersBars
  <2> QED
    BY <1>6, <2>1, <2>2, Zenon
<1> QED
  BY <1>2, <1>3, <1>4, <1>7 DEF A!Begin, ActiveBar

\* COMMIT: the whole transaction takes effect when the loop starts, and what
\* it has read is true at that moment.
LEMMA CommitStep ==
  ASSUME HInv, HNext, NEW c \in Conns, NEW m \in Requests, ThreadStep(c),
         HandleCommit(c, m)
  PROVE  A!Commit(c)
<1> USE DEF HandleCommit, Admitted, Receives, At, GoTo, tables, session
<1>t. TypeInv /\ TypeOK /\ LockInv
  BY DEF HInv, StateInv, TypeInv
<1>1. Live(c) /\ ~Live(c)' /\ ~Gets(c)
  BY <1>t DEF Live, Gets, TypeOK
<1>2. told' = [told EXCEPT ![c] = {}] /\ got' = {}
  BY <1>1, OthersHistory DEF Tells
<1>3. ActiveBar' = [ActiveBar EXCEPT ![c] = FALSE] /\ ActiveBar[c]
  BY <1>1, OthersBars DEF ActiveBar, Live
<1>4. WritesBar' = [WritesBar EXCEPT ![c] = A!NoWrites]
  <2>1. WritesBar'[c] = [t \in Tables |-> EmptyMap]
    BY <1>1 DEF WritesBar
  <2> QED
    BY <2>1, OthersBars, SameTable
<1>5. ASSUME NEW t \in locked_tables[c]
      PROVE  t \in Tables /\ StoreBar[t] = key_value[t]
  <2>1. t \in Tables /\ table_mutex[t] = c
    BY <1>t, <1>1, Owner
  <2> QED
    BY <1>t, <2>1, Settled
<1>6. ASSUME NEW x \in told[c] PROVE StoreBar[x[1]][x[2]] = x[3]
  <2>1. PICK t \in locked_tables[c], k \in Keys : x = <<t, k, key_value[t][k]>>
    BY DEF HInv, ToldInv
  <2> QED
    BY <1>5, <2>1
<1>7. ASSUME NEW t \in Tables
      PROVE  StoreBar'[t] = A!CommitChanges(StoreBar[t], WritesBar[c][t])
  <2>1. CASE t \in locked_tables[c]
    <3>1. Committing(t)'
      BY <1>t, <2>1 DEF Committing, TypeOK
    <3>2. StoreBar'[t] = CommitChanges(key_value[t], key_value_temp[t])
      BY <3>1 DEF StoreBar
    <3>3. WritesBar[c][t] = key_value_temp[t]
      BY <1>1, <2>1 DEF WritesBar
    <3> QED
      BY <1>5, <2>1, <3>2, <3>3, SameTable
  <2>2. CASE t \notin locked_tables[c]
    <3>1. Committing(t)' <=> Committing(t)
      BY <1>t, <2>2 DEF Committing, ThreadStep, TypeOK
    <3>2. StoreBar'[t] = StoreBar[t]
      BY <3>1 DEF StoreBar
    <3>3. WritesBar[c][t] = EmptyMap
      BY <2>2 DEF WritesBar
    <3>4. StoreBar[t] \in Map
      BY <1>t, BarTypes
    <3> QED
      BY <3>2, <3>3, <3>4, SameTable, CommitNothing
  <2> QED
    BY <2>1, <2>2
<1>8. StoreBar' = [t \in Tables |-> A!CommitChanges(StoreBar[t], WritesBar[c][t])]
  <2>1. StoreBar' = [t \in Tables |-> StoreBar'[t]]
    BY DEF StoreBar
  <2> QED
    BY <1>7, <2>1, Zenon
<1> QED
  BY <1>2, <1>3, <1>4, <1>6, <1>8 DEF A!Commit, A!Drop, ActiveBar

\* GET: a transaction reads its own changes, or what is committed; a single
\* request reads what is committed.
LEMMA GetStep ==
  ASSUME HInv, HNext, NEW c \in Conns, ThreadStep(c), GetAccess(c)
  PROVE  \E t \in Tables, k \in Keys :
           A!ReadOwn(c, t, k) \/ A!Read(c, t, k) \/ A!ReadOne(c, t, k)
<1> DEFINE t == req[c].table
           k == req[c].key
<1>t. StateInv /\ TypeInv /\ TypeOK /\ LockInv /\ PendingInv
  BY DEF HInv, StateInv, TypeInv
<1>a. /\ pc[c] = "access" /\ req[c].type = "GET"
      /\ UNCHANGED <<key_value, key_value_temp, m_in_transaction, locked_tables>>
      /\ pc'[c] \in {"reply", "unlock"}
  BY <1>t DEF GetAccess, At, tables, Leave, Answer, GoTo, TypeOK
<1>1. Gets(c)
  BY <1>a DEF Gets, ThreadStep
<1>2. /\ t \in Tables /\ k \in Keys /\ table_mutex[t] = c /\ ~Committing(t)
      /\ Got(c) = TableGet(key_value[t], key_value_temp[t], k)
  BY <1>t, <1>1, ReadsItsTable
<1>3. StoreBar' = StoreBar /\ StoreBar[t] = key_value[t]
  BY <1>a, <1>2, StoreStays DEF StoreBar
<1>4. (Live(c)' <=> Live(c)) /\ (Live(c) <=> m_in_transaction[c])
  BY <1>a DEF Live
<1>5. ActiveBar' = ActiveBar
  BY <1>4, OthersHistory DEF ActiveBar, Live
<1>6. WritesBar' = WritesBar
  <2>1. WritesBar'[c] = WritesBar[c]
    BY <1>a, <1>4 DEF WritesBar
  <2>2. WritesBar = [d \in Conns |-> WritesBar[d]]
    BY DEF WritesBar
  <2>3. WritesBar' = [WritesBar EXCEPT ![c] = WritesBar'[c]]
    BY OthersBars
  <2> QED
    BY <2>1, <2>2, <2>3, Zenon
<1>7. /\ got' = {<<c, Got(c)>>}
      /\ told' = [told EXCEPT ![c] = Tells(c)]
      /\ told = [d \in Conns |-> told[d]]
  BY <1>1, OthersHistory DEF HInv, ToldInv
<1>8. CASE Live(c)
  <2>1. t \in locked_tables[c]
    BY <1>t, <1>a, <1>4, <1>8 DEF LockInv, TxnInv
  <2>2. WritesBar[c][t] = key_value_temp[t]
    BY <1>2, <1>8, <2>1 DEF WritesBar
  <2>3. ActiveBar[c]
    BY <1>8 DEF ActiveBar
  <2>4. CASE OwnWrite(c)
    <3>1. Tells(c) = told[c]
      BY <1>4, <1>8, <2>4 DEF Tells
    <3>2. told' = told
      BY <1>7, <3>1
    <3>3. Got(c) = WritesBar[c][t][k] /\ WritesBar[c][t][k] # NoValue
      BY <1>2, <2>2, <2>4 DEF OwnWrite, TableGet
    <3>4. A!ReadOwn(c, t, k)
      BY <1>3, <1>5, <1>6, <1>7, <2>3, <3>2, <3>3 DEF A!ReadOwn, ActiveBar
    <3> QED
      BY <1>2, <3>4
  <2>5. CASE ~OwnWrite(c)
    <3>1. Got(c) = StoreBar[t][k] /\ WritesBar[c][t][k] = NoValue
      BY <1>2, <1>3, <2>2, <2>5 DEF OwnWrite, TableGet
    <3>2. Tells(c) = told[c] \cup {<<t, k, Got(c)>>}
      BY <1>1, <1>4, <1>8, <2>5 DEF Tells
    <3>3. told' = [told EXCEPT ![c] = told[c] \cup {<<t, k, StoreBar[t][k]>>}]
      BY <1>7, <3>1, <3>2
    <3>4. A!Read(c, t, k)
      BY <1>3, <1>5, <1>6, <1>7, <2>3, <3>1, <3>3 DEF A!Read, ActiveBar
    <3> QED
      BY <1>2, <3>4
  <2> QED
    BY <2>4, <2>5
<1>9. CASE ~Live(c)
  <2>1. Tells(c) = told[c]
    BY <1>4, <1>9 DEF Tells, HInv, ToldInv
  <2>2. told' = told
    BY <1>7, <2>1
  <2>3. locked_tables[table_mutex[t]] = {}
    BY <1>t, <1>2, <1>4, <1>9 DEF LockInv, TxnInv
  <2>4. key_value_temp[t] = EmptyMap
    BY <1>t, <1>2, <2>3, NothingPending
  <2>5. Got(c) = StoreBar[t][k]
    BY <1>2, <1>3, <2>4 DEF TableGet, EmptyMap
  <2>6. ~ActiveBar[c]
    BY <1>9 DEF ActiveBar
  <2>7. A!ReadOne(c, t, k)
    BY <1>3, <1>5, <1>6, <1>7, <2>2, <2>5, <2>6 DEF A!ReadOne, ActiveBar
  <2> QED
    BY <1>2, <2>7
<1> QED
  BY <1>8, <1>9
\* SET: a transaction records the value, a single request stores it.
LEMMA SetStep ==
  ASSUME HInv, HNext, NEW c \in Conns, ThreadStep(c), SetAccess(c)
  PROVE  \E t \in Tables, k \in Keys, v \in Vals :
           A!Write(c, t, k, v) \/ A!WriteOne(c, t, k, v)
<1> DEFINE t == req[c].table
           k == req[c].key
           v == value[c]
           temp == TableSet(key_value_temp[t], k, v)
<1>t. StateInv /\ TypeInv /\ TypeOK /\ LockInv /\ PendingInv
  BY DEF HInv, StateInv, TypeInv
<1>a. /\ pc[c] = "access" /\ req[c].type = "SET"
      /\ UNCHANGED <<m_in_transaction, locked_tables, table_mutex, rest>>
      /\ pc'[c] \in {"reply", "unlock"}
  BY <1>t DEF SetAccess, At, session, Leave, Answer, GoTo, TypeOK
<1>1. t \in Tables /\ k \in Keys /\ v \in Vals
  BY <1>t, <1>a DEF StateInv, TypeInv, RequestInv, ValueInv, AccessPCs
<1>2. table_mutex[t] = c
  <2>1. t \in Held(c)
    BY <1>t, <1>a DEF LockInv, TxnInv, Held, LoopPCs
  <2> QED
    BY <1>t, <1>1, <2>1 DEF LockInv, MutexInv
<1>3. ~Committing(t) /\ StoreBar[t] = key_value[t]
  BY <1>t, <1>a, <1>1, <1>2, Settled
<1>4. \A u \in Tables : Committing(u)' <=> Committing(u)
  BY <1>a DEF Committing, ThreadStep
<1>5. (Live(c)' <=> Live(c)) /\ (Live(c) <=> m_in_transaction[c]) /\ ~Gets(c)
  BY <1>a DEF Live, Gets
<1>6. ActiveBar' = ActiveBar
  BY <1>5, OthersHistory DEF ActiveBar, Live
<1>7. told' = told /\ got' = {}
  <2>1. told = [d \in Conns |-> told[d]]
    BY DEF HInv, ToldInv
  <2>2. Tells(c) = told[c]
    BY <1>5 DEF Tells, HInv, ToldInv
  <2> QED
    BY <1>5, <2>1, <2>2, OthersHistory
<1>8. /\ WritesBar' = [WritesBar EXCEPT ![c] = WritesBar'[c]]
      /\ WritesBar \in [Conns -> [Tables -> Map]]
  BY <1>t, OthersBars, BarTypes
<1>9. CASE Live(c)
  <2>1. t \in locked_tables[c] /\ m_in_transaction[c]
    BY <1>t, <1>a, <1>5, <1>9 DEF LockInv, TxnInv
  <2>2. /\ key_value' = key_value
        /\ key_value_temp' = [key_value_temp EXCEPT ![t] = temp]
    BY <2>1 DEF SetAccess
  <2>3. StoreBar' = StoreBar
    <3>1. \A u \in Tables : StoreBar'[u] = StoreBar[u]
      BY <1>t, <1>3, <1>4, <2>2 DEF StoreBar, TypeOK
    <3> QED
      BY <3>1 DEF StoreBar
  <2>4. WritesBar'[c] = [WritesBar[c] EXCEPT ![t] = [WritesBar[c][t] EXCEPT ![k] = v]]
    <3>1. WritesBar[c][t] = key_value_temp[t]
      BY <1>1, <1>9, <2>1 DEF WritesBar
    <3>2. WritesBar'[c] = [u \in Tables |-> IF u \in locked_tables[c]
                                            THEN key_value_temp'[u] ELSE EmptyMap]
      BY <1>a, <1>5, <1>9 DEF WritesBar
    <3>3. WritesBar[c] = [u \in Tables |-> IF u \in locked_tables[c]
                                           THEN key_value_temp[u] ELSE EmptyMap]
      BY <1>9 DEF WritesBar
    <3>4. /\ key_value_temp'[t] = temp
          /\ \A u \in Tables \ {t} : key_value_temp'[u] = key_value_temp[u]
      BY <1>t, <1>1, <2>2 DEF TypeOK
    <3>5. temp = [WritesBar[c][t] EXCEPT ![k] = v]
      BY <3>1 DEF TableSet
    <3> HIDE DEF temp
    <3> QED
      BY <1>1, <2>1, <3>2, <3>3, <3>4, <3>5
  <2>5. A!Write(c, t, k, v)
    BY <1>6, <1>7, <1>8, <1>9, <2>3, <2>4 DEF A!Write, ActiveBar
  <2> QED
    BY <1>1, <2>5
<1>10. CASE ~Live(c)
  <2>1. ~m_in_transaction[c] /\ locked_tables[c] = {}
    BY <1>t, <1>5, <1>10 DEF LockInv, TxnInv
  <2>2. key_value_temp[t] = EmptyMap
    BY <1>t, <1>1, <1>2, <2>1, NothingPending
  <2>3. /\ key_value' = [key_value EXCEPT ![t] = CommitChanges(key_value[t], temp)]
        /\ key_value_temp' = [key_value_temp EXCEPT ![t] = EmptyMap]
    BY <2>1 DEF SetAccess
  <2>4. CommitChanges(key_value[t], temp) = [key_value[t] EXCEPT ![k] = v]
    BY <1>t, <1>1, <2>2, NoValueAssumption
       DEF CommitChanges, TableSet, EmptyMap, TypeOK, Map
  <2>5. StoreBar' = [StoreBar EXCEPT ![t] = [StoreBar[t] EXCEPT ![k] = v]]
    <3>1. /\ key_value'[t] = [StoreBar[t] EXCEPT ![k] = v]
          /\ \A u \in Tables \ {t} : key_value'[u] = key_value[u]
                                  /\ key_value_temp'[u] = key_value_temp[u]
      BY <1>t, <1>1, <1>3, <2>3, <2>4 DEF TypeOK
    <3> QED
      BY <1>1, <1>3, <1>4, <3>1 DEF StoreBar
  <2>6. WritesBar' = WritesBar
    <3>1. WritesBar'[c] = WritesBar[c]
      BY <1>5, <1>10 DEF WritesBar
    <3> QED
      BY <1>8, <3>1
  <2>7. A!WriteOne(c, t, k, v)
    BY <1>6, <1>7, <1>10, <2>5, <2>6 DEF A!WriteOne, ActiveBar
  <2> QED
    BY <1>1, <2>7
<1> QED
  BY <1>9, <1>10

\* The loops and the locks: no client of the atomic store sees them.  A table
\* a transaction locks has no pending changes; a table the commit loop visits
\* counts as committed already.
LEMMA HiddenStep ==
  ASSUME HInv, HNext, NEW c \in Conns, ThreadStep(c),
         \/ TryLock(c) \/ CommitDone(c) \/ RollbackDone(c) \/ DtorDone(c)
         \/ \E t \in Tables : CommitTable(c, t) \/ RollbackTable(c, t)
         \/ AcceptClient(c)
  PROVE  A!Idle
<1>t. StateInv /\ TypeInv /\ TypeOK /\ LockInv /\ PendingInv
  BY DEF HInv, StateInv, TypeInv
<1> USE DEF At, GoTo, tables, session
<1>1. CASE TryLock(c)
  <2> DEFINE u == req[c].table
  <2>1. u \in Tables
    BY <1>t, <1>1 DEF TryLock, TypeInv, RequestInv, AccessPCs
  <2>2. /\ (Live(c)' <=> Live(c)) /\ ~Gets(c)
        /\ pc[c] = "trylock" /\ pc'[c] = "access"
        /\ UNCHANGED <<key_value, key_value_temp>>
    BY <1>t, <1>1 DEF TryLock, Live, Gets, TypeOK
  <2>3. key_value_temp[u] = EmptyMap
    BY <1>t, <1>1, <2>1, NothingPending DEF TryLock, Free
  <2>4. WritesBar'[c] = WritesBar[c]
    <3>1. locked_tables'[c] = locked_tables[c] \cup {u}
      BY <1>t, <1>1 DEF TryLock, TypeOK
    <3> QED
      BY <2>2, <2>3, <3>1 DEF WritesBar
  <2> QED
    BY <2>2, <2>4, StoreStays, IdleStep
<1>2. CASE CommitDone(c) \/ RollbackDone(c) \/ DtorDone(c)
  <2>1. /\ ~Live(c) /\ ~Live(c)' /\ ~Gets(c)
        /\ rest[c] = {} /\ rest' = rest /\ pc'[c] # "commit"
        /\ UNCHANGED <<key_value, key_value_temp>>
    BY <1>t, <1>2 DEF CommitDone, RollbackDone, DtorDone, EndTransaction,
                      Answer, Live, Gets, TypeOK
  <2>2. \A t \in Tables : Committing(t)' <=> Committing(t)
    BY <2>1 DEF Committing, ThreadStep
  <2>3. StoreBar' = StoreBar
    BY <2>1, <2>2 DEF StoreBar
  <2>4. WritesBar'[c] = WritesBar[c]
    BY <2>1 DEF WritesBar
  <2> QED
    BY <2>1, <2>3, <2>4, IdleStep
<1>3. ASSUME NEW t \in Tables, CommitTable(c, t) PROVE A!Idle
  <2>1. /\ ~Live(c) /\ ~Live(c)' /\ ~Gets(c)
        /\ pc[c] = "commit" /\ t \in rest[c] /\ pc' = pc
        /\ rest' = [rest EXCEPT ![c] = rest[c] \ {t}]
    BY <1>3 DEF CommitTable, Live, Gets
  <2>2. Committing(t)
    BY <2>1 DEF Committing
  <2>3. ~Committing(t)'
    BY <1>t, <2>1 DEF Committing, LockInv, MutexInv, Held, LoopPCs, TypeOK
  <2>4. \A u \in Tables \ {t} : Committing(u)' <=> Committing(u)
    BY <1>t, <2>1 DEF Committing, TypeOK
  <2>5. /\ key_value'[t] = CommitChanges(key_value[t], key_value_temp[t])
        /\ \A u \in Tables \ {t} : key_value'[u] = key_value[u]
                                /\ key_value_temp'[u] = key_value_temp[u]
    BY <1>t, <1>3 DEF CommitTable, TypeOK
  <2>6. StoreBar' = StoreBar
    BY <2>2, <2>3, <2>4, <2>5 DEF StoreBar
  <2>7. WritesBar'[c] = WritesBar[c]
    BY <2>1 DEF WritesBar
  <2> QED
    BY <2>1, <2>6, <2>7, IdleStep
<1>4. ASSUME NEW t \in Tables, RollbackTable(c, t) PROVE A!Idle
  <2>1. /\ ~Live(c) /\ ~Live(c)' /\ ~Gets(c)
        /\ pc[c] \in {"rollback", "dtor"} /\ t \in rest[c] /\ pc' = pc
        /\ rest' = [rest EXCEPT ![c] = rest[c] \ {t}]
        /\ key_value' = key_value
    BY <1>4 DEF RollbackTable, Live, Gets
  <2>2. table_mutex[t] = c
    BY <1>t, <2>1 DEF LockInv, MutexInv, Held, LoopPCs
  <2>3. ~Committing(t)
    BY <1>t, <2>1, <2>2, Settled
  <2>4. \A u \in Tables : Committing(u)' <=> Committing(u)
    BY <1>t, <2>1 DEF Committing, TypeOK
  <2>5. \A u \in Tables \ {t} : key_value_temp'[u] = key_value_temp[u]
    BY <1>t, <1>4 DEF RollbackTable, TypeOK
  <2>6. StoreBar' = StoreBar
    BY <2>1, <2>3, <2>4, <2>5 DEF StoreBar
  <2>7. WritesBar'[c] = WritesBar[c]
    BY <2>1 DEF WritesBar
  <2> QED
    BY <2>1, <2>6, <2>7, IdleStep
<1>5. CASE AcceptClient(c)
  <2>1. /\ ~Live(c) /\ ~Live(c)' /\ ~Gets(c)
        /\ pc[c] = "off" /\ pc'[c] = "read"
        /\ UNCHANGED <<key_value, key_value_temp>>
    BY <1>t, <1>5 DEF AcceptClient, Live, Gets, LockInv, TxnInv, TypeOK
  <2>2. WritesBar'[c] = WritesBar[c]
    BY <2>1 DEF WritesBar
  <2> QED
    BY <2>1, <2>2, StoreStays, IdleStep
<1> QED
  BY <1>1, <1>2, <1>3, <1>4, <1>5
\* A request's first step: BEGIN and COMMIT are the atomic store's, a second
\* BEGIN aborts, everything else concerns the connection alone.
LEMMA DispatchRefines ==
  ASSUME HInv, HNext, NEW c \in Conns, NEW m \in Requests, ThreadStep(c),
         Dispatch(c, m)
  PROVE  A!Begin(c) \/ A!Commit(c) \/ A!Abort(c) \/ A!Idle
<1>t. TypeOK
  BY DEF HInv, StateInv, TypeInv
<1>1. CASE HandleBegin(c, m)
  BY <1>1, BeginStep
<1>2. CASE HandleCommit(c, m)
  BY <1>2, CommitStep
<1>3. CASE NestedBegin(c, m)
  <2>1. /\ pc[c] = "read" /\ pc'[c] = "rollback"
        /\ UNCHANGED <<key_value, key_value_temp>>
    BY <1>t, <1>3 DEF NestedBegin, FailTransaction, Admitted, Receives, At,
                      GoTo, tables, TypeOK
  <2> QED
    BY <2>1, AbortStep DEF LoopPCs
<1>4. ~DivisionTrap(c, m)
  BY DEF DivisionTrap, Dies, ThreadStep
<1>5. CASE \/ NotLoggedIn(c, m) \/ InvalidRequest(c, m) \/ HandleLogin(c, m)
           \/ HandleBye(c, m) \/ HandlePush(c, m) \/ EmptyStack(c, m)
           \/ HandlePop(c, m) \/ HandleTop(c, m) \/ TooFewOperands(c, m)
           \/ BadOperands(c, m) \/ HandleArith(c, m) \/ NotInTransaction(c, m)
           \/ HandleCreate(c, m) \/ HandleGet(c, m) \/ HandleSet(c, m)
  <2>1. /\ UNCHANGED <<key_value, key_value_temp, m_in_transaction, locked_tables>>
        /\ pc[c] = "read"
        /\ pc'[c] \in {"reply", "last_reply", "create_lock", "find_lock"}
    BY <1>t, <1>5
       DEF NotLoggedIn, InvalidRequest, HandleLogin, HandleBye, HandlePush,
           EmptyStack, HandlePop, HandleTop, TooFewOperands, BadOperands,
           HandleArith, NotInTransaction, HandleCreate, HandleGet, HandleSet,
           Admitted, Receives, At, GoTo, Answer, LastAnswer, tables, session,
           TypeOK
  <2> QED
    BY <2>1, QuietStep DEF LoopPCs
<1> QED
  BY <1>1, <1>2, <1>3, <1>4, <1>5 DEF Dispatch

\* A step of a thread by itself.
LEMMA WorkRefines ==
  ASSUME HInv, HNext, NEW c \in Conns, ThreadStep(c), Work(c)
  PROVE  A!ANext
<1>t. TypeOK
  BY DEF HInv, StateInv, TypeInv
<1> USE DEF At, GoTo, Answer, tables, session
<1>1. CASE GetAccess(c)
  BY <1>1, GetStep DEF A!ANext
<1>2. CASE SetAccess(c)
  BY <1>2, SetStep DEF A!ANext
<1>3. CASE \/ TryLock(c) \/ CommitDone(c) \/ RollbackDone(c) \/ DtorDone(c)
           \/ \E t \in Tables : CommitTable(c, t) \/ RollbackTable(c, t)
  BY <1>3, HiddenStep DEF A!ANext
<1>4. CASE TryLockFails(c) \/ (SendReply(c) /\ pc[c] = "last_reply")
  <2>1. /\ pc[c] \in {"trylock", "last_reply"} /\ pc'[c] \in {"rollback", "dtor"}
        /\ UNCHANGED <<key_value, key_value_temp>>
    BY <1>t, <1>4 DEF TryLockFails, FailTransaction, SendReply, Destroy, TypeOK
  <2>2. A!Abort(c)
    BY <2>1, AbortStep DEF LoopPCs
  <2> QED
    BY <2>2 DEF A!ANext
<1>5. CASE \/ LockRegistry(c) \/ CreateTable(c) \/ FindTable(c) \/ LockTable(c)
           \/ UnlockTable(c) \/ (SendReply(c) /\ pc[c] = "reply")
  <2>1. /\ UNCHANGED <<key_value, key_value_temp, m_in_transaction, locked_tables>>
        /\ pc[c] \notin LoopPCs \cup {"access"} /\ pc'[c] \notin LoopPCs
    BY <1>t, <1>5
       DEF LockRegistry, CreateTable, FindTable, LockStep, LockTable,
           UnlockTable, SendReply, LoopPCs, TypeOK
  <2> QED
    BY <2>1, QuietStep DEF A!ANext
<1>6. ~ResponseTooLong(c) /\ ~BrokenPipe(c)
  BY DEF ResponseTooLong, BrokenPipe, Dies, ThreadStep
<1>7. SendReply(c) => pc[c] \in {"reply", "last_reply"}
  BY DEF SendReply
<1> QED
  BY <1>1, <1>2, <1>3, <1>4, <1>5, <1>6, <1>7 DEF Work

\* Every step of the server is a step of the atomic store, or invisible.
LEMMA NextRefines ==
  ASSUME HInv, [HNext]_hvars
  PROVE  [A!ANext]_(A!avars)
<1>t. TypeOK
  BY DEF HInv, StateInv, TypeInv
<1>1. CASE UNCHANGED hvars
  <2>1. /\ UNCHANGED <<key_value, key_value_temp, pc, rest, m_in_transaction,
                       locked_tables, told, got>>
    BY <1>1 DEF hvars, vars, tables, session
  <2>2. StoreBar' = StoreBar /\ WritesBar' = WritesBar /\ ActiveBar' = ActiveBar
    BY <2>1 DEF StoreBar, Committing, WritesBar, ActiveBar, Live
  <2> QED
    BY <2>1, <2>2 DEF A!avars, ActiveBar
<1>2. ASSUME HNext, NEW c \in Conns,
             \/ AcceptClient(c) \/ PeerCloses(c) \/ ReadEOF(c) \/ Work(c)
             \/ \E m \in Requests : Dispatch(c, m)
      PROVE  A!ANext
  <2>1. CASE process' # "running"
    <3>1. Dies("SIGFPE") \/ Dies("SIGPIPE") \/ Dies("terminated")
      BY <1>2, <2>1, GoesOn
    <3>2. A!Crash
      BY <1>2, <3>1, CrashStep
    <3> QED
      BY <3>2 DEF A!ANext
  <2>2. CASE process' = "running"
    <3>1. ThreadStep(c)
      BY <1>2, <2>2, OwnState DEF HInv, StateInv
    <3>2. CASE AcceptClient(c)
      BY <1>2, <3>1, <3>2, HiddenStep DEF A!ANext
    <3>3. CASE PeerCloses(c)
      <4>1. UNCHANGED <<key_value, key_value_temp, pc, rest, m_in_transaction,
                        locked_tables>>
        BY <3>3 DEF PeerCloses, tables, session
      <4>2. /\ StoreBar' = StoreBar /\ WritesBar'[c] = WritesBar[c]
            /\ (Live(c)' <=> Live(c)) /\ ~Gets(c)
        BY <4>1 DEF StoreBar, Committing, WritesBar, Live, Gets
      <4> QED
        BY <1>2, <3>1, <4>2, IdleStep DEF A!ANext
    <3>4. CASE ReadEOF(c)
      <4>1. /\ pc[c] = "read" /\ pc'[c] = "dtor"
            /\ UNCHANGED <<key_value, key_value_temp>>
        BY <1>t, <3>4 DEF ReadEOF, At, Destroy, GoTo, tables, TypeOK
      <4>2. A!Abort(c)
        BY <1>2, <3>1, <4>1, AbortStep DEF LoopPCs
      <4> QED
        BY <4>2 DEF A!ANext
    <3>5. CASE Work(c)
      BY <1>2, <3>1, <3>5, WorkRefines
    <3>6. ASSUME NEW m \in Requests, Dispatch(c, m) PROVE A!ANext
      BY <1>2, <3>1, <3>6, DispatchRefines DEF A!ANext
    <3> QED
      BY <1>2, <3>2, <3>3, <3>4, <3>5, <3>6
  <2> QED
    BY <2>1, <2>2
<1>3. CASE HNext /\ AcceptError
  BY <1>3, CrashStep DEF AcceptError, A!ANext
<1>4. CASE HNext /\ Ended
  <2>1. /\ UNCHANGED <<key_value, key_value_temp, pc, rest, m_in_transaction,
                       locked_tables, process>>
        /\ process # "running"
    BY <1>4 DEF Ended, vars, tables, session
  <2>2. \A c \in Conns : ~Live(c)
    BY <2>1 DEF HInv, StateInv, EndedInv, LockInv, TxnInv, Live
  <2>3. told' = told /\ got' = {}
    BY <1>4, <2>1, <2>2 DEF HNext, Gets, HInv, ToldInv
  <2>4. StoreBar' = StoreBar /\ WritesBar' = WritesBar /\ ActiveBar' = ActiveBar
    BY <2>1 DEF StoreBar, Committing, WritesBar, ActiveBar, Live
  <2>5. A!Idle
    BY <2>3, <2>4 DEF A!Idle, ActiveBar
  <2> QED
    BY <2>5 DEF A!ANext
<1> QED
  BY <1>1, <1>2, <1>3, <1>4 DEF HNext, Next

\* A store without transactions, whatever it holds.
LEMMA InitRefines ==
  ASSUME NEW created \in SUBSET Tables, NEW maps \in [Tables -> Map],
         InitWith(created, maps), told = EachConn({}), got = {}
  PROVE  A!AInit
<1>1. /\ m_in_transaction = [c \in Conns |-> FALSE]
      /\ told = [c \in Conns |-> {}] /\ got = {}
  BY DEF InitWith, EachConn
<1>2. StoreBar \in [Tables -> Map]
  BY InitH, BarTypes DEF HInv, StateInv
<1>3. ActiveBar = [c \in Conns |-> FALSE]
  BY <1>1 DEF ActiveBar, Live
<1>4. WritesBar = [c \in Conns |-> [t \in Tables |-> EmptyMap]]
  BY <1>1 DEF WritesBar, Live
<1> QED
  BY <1>1, <1>2, <1>3, <1>4, SameTable DEF A!AInit, ActiveBar

\* Serializability of the server: with its locks, pending maps and
\* table-by-table commit it implements the store in which transactions commit
\* in one step, on what they have read, or leave no trace.
THEOREM Serializability == HSpec => Serializable
<1>1. HInit => HInv /\ A!AInit
  <2>1. EachTable([k \in Keys |-> OldValue]) \in [Tables -> Map]
    BY SerialAssumption DEF EachTable, Map
  <2> QED
    BY <2>1, InitH, InitRefines DEF HInit
<1>2. HInv /\ [HNext]_hvars => HInv'
  BY NextH
<1>3. HInv /\ [HNext]_hvars => [A!ANext]_(A!avars)
  BY NextRefines
<1> QED
  BY <1>1, <1>2, <1>3, PTL DEF HSpec, Serializable, A!ASpec

\* The same of a server that starts as main starts it, without tables: what
\* CREATE does meanwhile changes nothing for the transactions.
THEOREM SerializableFromStart ==
  Init /\ told = EachConn({}) /\ got = {} /\ [][HNext]_hvars => Serializable
<1>1. Init /\ told = EachConn({}) /\ got = {} => HInv /\ A!AInit
  <2>1. EachTable(EmptyMap) \in [Tables -> Map]
    BY DEF EachTable, EmptyMap, Map
  <2> QED
    BY <2>1, InitH, InitRefines DEF Init
<1>2. HInv /\ [HNext]_hvars => HInv'
  BY NextH
<1>3. HInv /\ [HNext]_hvars => [A!ANext]_(A!avars)
  BY NextRefines
<1> QED
  BY <1>1, <1>2, <1>3, PTL DEF Serializable, A!ASpec
=============================================================================
