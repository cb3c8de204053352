# TLA+ model of the key/value server

A verification project for the multi-threaded key/value server with
transactions: TLA+ modules of the server, TLC configurations that check them on
small instances, and TLAPS proofs for all instances. `PROJECT.json` lists, in
machine-readable form, the components, the runs, the source lines each definition
stands for, the hazards and the theorems.

## 1. Inventory of the system

| Component | State | Operations | Interacts with |
|---|---|---|---|
| `Server` (server.cpp) | `set_of_table`, mutex `table_lock` | `server_loop` (accept, one thread per client), `create_table`, `find_table` | called by every session thread |
| `ClientConnection` (client_connection.cpp) | `m_logged_in`, `m_in_transaction`, `locked_tables`, `m_stack`, socket | `chat_with_client` (read, decode, check login, dispatch, catch), 13 handlers, destructor | `Server`, `Table`, `ValueStack`, socket |
| `Table` (table.cpp) | committed map `key_value`, pending map `key_value_temp`, mutex | `set`, `get`, `commit_changes`, `rollback_changes`, `trylock`, `unlock` | shared by all sessions; callers must hold the mutex |
| `ValueStack` (value_stack.cpp) | a vector of strings | `push`, `pop`, `get_top`, `is_empty` | private to a session |
| `Guard` (guard.h), exceptions (exceptions.h) | – | scoped lock; `OperationException`, `FailedTransaction`, `InvalidMessage` | decide which catch clause answers |
| `Message`, `MessageSerialization` | – | request types and arguments, `encode`, `decode`, `is_valid` | between socket and session |
| csapp.c | read buffer | `rio_writen`, `rio_read`, `rio_readlineb`, `open_listenfd`, `open_clientfd`, `Accept`, `unix_error` | third party; below all of the programs |
| Clients `get_value`, `set_value`, `incr_value` | line buffer, socket | fixed request sequences; `incr_value -t` uses a transaction | the server |
| `server_main`, `Server::listen` | `listen_fd` | start-up | csapp.c |

What is hard here: one thread per connection over shared tables; two ways of
locking them (autocommit requests block on a `Guard`, transactions use `trylock`
and keep the mutex until they end); pending changes that live in the table and
not in the transaction; commits and rollbacks that go table by table; sessions
that end anywhere (end of file, BYE, a malformed line) with tables locked;
exceptions out of every handler; signals and `exit` that end the whole process;
clients that are killed at any point and do not look at the results of their
reads; lines that TCP cuts into pieces and that may be longer than a buffer.

What makes each part correct: the tables and the registry are used only under
their mutexes; no mutex and no pending change outlives its owner; nobody waits
in a circle; transactions are serializable and single requests atomic; a request
in a transaction never waits; sessions are torn down when clients go; the
arithmetic is that of `int`; an increment is never lost, and clients end and
leave the server alive; lines arrive whole or not at all; a message means the
same on both sides; start-up leaves exactly the socket that worked.

## 2. Modules

| Module | What it is |
|---|---|
| `Values` | values, the operand stack, `int` arithmetic. `Stoi` and `ToStr` are parameters: `Stoi` is partial (where it is undefined `std::stoi` throws) and several strings may parse to one int. `IntMax` is a parameter; `Wrap` is two's complement. |
| `Table` | the two maps of one table and the member functions on them. A `std::map` is a total function into values and `NoValue`. |
| `KVServer` | the process: registry, mutexes, tables, and one thread per connection. The core. |
| `AtomicStore` | the promise: serializable transactions beside atomic single operations, with no locks or threads. |
| `KVServerSerial` | `KVServer` with history variables, and the refinement mapping to `AtomicStore`. |
| `KVServerLive` | `KVServer` with fairness and a bound on the requests: what must eventually happen. |
| `KVClients` | the three client programs, composed with `KVServer` by a queue of lines in each direction. |
| `Frames` | one direction of a connection: `rio_writen` on one side, `rio_read`, `rio_readlineb` and the loop above them on the other. |
| `Codec` | `Message` and `MessageSerialization`: `is_valid`, `encode`, `decode`. |
| `Startup` | `open_listenfd`, `Server::listen`, `main` and the first `Accept`; `open_clientfd` and its callers. |
| `MC…` | constants for TLC. |
| `Values_proofs` | lemmas on `int` arithmetic and the stack. |
| `KVServer_proofs` | types, lock discipline, isolation, login, arithmetic. |
| `KVServerSerial_proofs` | the refinement of `AtomicStore`. |
| `KVClients_proofs`, `KVUpdates_proofs` | the clients beside the server; `incr_value -t` beside `get_value`. |
| `Frames_proofs`, `Startup_proofs` | framing; the socket start-up leaves. |
| `Codec_proofs` | what `encode` and `decode` do to all messages and lines. |

### How KVServer corresponds to the code

Variables keep the names of the members they stand for. `pc[c]` is the place in
`chat_with_client` or below that the thread of connection `c` has reached;
`req`, `value`, `resp` and `rest` are the handler's locals (the request, the value
to store, the response to write, the tables its loop has still to visit).
`process` says whether the server runs or how it ended.

A step is the code between two points where another thread can interfere. A
handler that uses only its session is one action up to the response
(`HandlePush`, `HandleArith`, …), with an action of its own for each way it fails
(`EmptyStack`, `TooFewOperands`, `BadOperands`, `NotLoggedIn`, …). GET and SET are
`HandleGet`/`HandleSet`, `LockRegistry`, `FindTable`, then `TryLock` or
`TryLockFails` in a transaction and `LockTable` outside one, `GetAccess`/`SetAccess`,
and `UnlockTable` for the `Guard`'s end. COMMIT is `HandleCommit`, one
`CommitTable` per table in any order (`locked_tables` is a set of pointers), and
`CommitDone`. A failed transaction is `FailTransaction`, `RollbackTable`s and
`RollbackDone`; the destructor is `Destroy`, `RollbackTable`s and `DtorDone`. The
response is written by `SendReply` in all cases. `AcceptClient` is an iteration of
`server_loop`; a connection slot is reused when its connection is gone.

The client is any client: it sends any request of `Requests` and closes at any
time. With `Impatient = FALSE` it does either only when no response is due.
The server looks at the socket only when it reads and writes, so this leaves out
nothing but clients that send on without reading; with `Impatient = TRUE` those
are in, and with them the reset and the SIGPIPE that a second write to a dead peer
brings.

Four things end the process, and with it the tables, which are only in memory:
a failing `accept` (csapp's wrapper exits), SIGPIPE, SIGFPE from `INT_MIN / -1`,
and an exception out of a catch clause when the FAILED text does not fit a
message (`LongNames` are the table names for which it does not).

Data that no property tells apart is abstracted: the user name, the wording of
responses, the syntax of identifiers (`GARBAGE` is any line that `decode` rejects,
`OTHER` a well-formed response type). `pthread_mutex_init` and memory allocation
succeed. When `pthread_create` fails the connection is deleted at once, which
changes no state of the model.

### How the other modules correspond to the code

`KVClients`. A program is the sequence of its requests, each with the type of
response it insists on; `at` and `step` say where a client is. `SendRequest` is
`encode` and `rio_writen`, `ReadResponse` is `rio_readlineb`, `decode` and the test of
the type, `Ends` the catch clause (or the end of `main`) and what the kernel does
with the socket: with unread data in it the server gets a reset. The clients
ignore the result of `rio_readlineb`, so at end of file (`ReadNothing`) they judge
`buf`, the line before; `buf` is uninitialised at first, and no code has put a
valid response there. `flaw` stands for a command line argument that `decode`
refuses or that makes a line too long to encode. `Killed` is a signal from outside.
The server's side is `KVServer` itself: `ReadRequest` takes the first line of the
queue, `ServerWorks` appends what `SendReply` writes to an open socket. The initial
state is that of a server on which an earlier session has created the table and
set the key.

`Frames`. The bytes themselves do not matter, only where the newlines stand: the
state is the set of their positions and one counter for each place a byte passes
(handed to `rio_writen`, written, fetched into `rio_buf`, copied out). `Refill` and
`WriteSome` move any number of bytes, `CopyByte` and `TakeLine` are iterations of
`rio_readlineb`'s loop. `accepted` holds the lines returned with their newline; a
line without one is refused by `decode`, and the loops above end then (`Refuse`).

`Codec`. A line is a sequence of symbols, words and white space, and lengths are
counted in symbols. A program puts a `Message` together with `set_message_type` and
`push_arg`, or a line comes in symbol by symbol; the properties compare `encode` and
`decode` in every state.

`Startup`. Both sides walk over a list of addresses; `side` says which. A
descriptor is named by the address it was made for. Every call may fail.

A few definitions are marked as mutants of the one after them: plausible mistakes
with which a property must fail. Nothing else uses them.

## 3. Properties and runs

| Run | Instance | Checks |
|---|---|---|
| `txn` | 2 connections, 2 tables that exist, 1 key with an old value, requests LOGIN, BEGIN, COMMIT, GET, SET, PUSH of a new value | `RaceFree`, `NoLeakedLock`, `PendingIsOwned`, `NoCircularWait`, `NoInterference`, `Serializable` |
| `abrupt` | 2 impatient connections from the start of the server, 1 table with a long name, the same requests and CREATE | `TypeOK`, `RaceFree`, `NoLeakedLock`, `PendingIsOwned`, `LoginFirst` |
| `calc` | 1 impatient connection, no tables, all stack and arithmetic requests, malformed lines, 3-bit ints, stack depth 3 | `ArithmeticRight` |
| `live` | 2 connections, 1 table, 7 requests in all | `TransactionNeverWaits`, `Drained` |
| `clients` | 7 pairs of programs: `incr_value -t` beside each of the others, sound and flawed arguments, kills, the server's `exit` | `NoLostUpdate`, `FreshRead`, `ServerUnharmed`, `ClientsTerminate` |
| `frames` | line buffer of 4 bytes, read buffer of 3, lines of 1 to 6, 8 bytes in all | `TypeOK`, `WholeLines`, `Delivered` |
| `codec` | all messages of up to 3 arguments out of 7, all lines of up to 7 symbols out of 10, limit 6 | `RoundTrip`, `Normalised`, `ArgumentsPresent` |
| `startup` | both sides, 1 to 6 addresses | `OneSocket`, `StartupEnds` |

- `RaceFree`: a thread about to use a table's maps owns the table's mutex, and one
  in `create_table` or `find_table` owns `table_lock` (table.h's note).
- `NoLeakedLock`: whoever owns a mutex is going to release it: the table is in its
  `locked_tables`, or its `Guard` is still in scope.
- `PendingIsOwned`: a table with pending changes is locked by a transaction that
  has it in `locked_tables`.
- `NoCircularWait`: in no set of threads does everyone wait for a member.
- `LoginFirst`: before LOGIN a session has no effect.
- `NoInterference`: no step of another thread changes a table while a transaction
  has it (README: "no other thread can interfere until the transaction is
  complete").
- `Serializable`: every behaviour is one of `AtomicStore`. A transaction takes effect
  when the loop of `handle_commit` starts: all its tables are locked then, and
  those the loop has still to visit already count as committed. `AtomicStore` lets
  it commit only if everything it has read is still so. The registry of tables is
  not part of `AtomicStore`: see the first finding.
- `ArithmeticRight`: results are exact modulo the width of `int`, DIV truncates, the
  operand pushed first is the left one, deeper operands are untouched.
- `TransactionNeverWaits`: a request in a transaction is answered whatever the
  others do. `Drained`: if clients close at some time, every connection is torn down.
- `NoLostUpdate`: while the server runs, the counter has grown by one for each
  `incr_value -t` that ended with status 0, and beyond them only for some that
  were at their COMMIT; one that failed has changed nothing.
- `FreshRead`: what `get_value` prints was committed and is not older than its
  connection, whoever was killed inside a transaction.
- `ServerUnharmed`: these clients, however they end, make the server write at
  most once to a socket that is gone. (Clients that send on without reading can do
  more: `BrokenPipe` in `abrupt`.)
- `ClientsTerminate`: every client ends, also behind one that was killed with the
  table locked, and when the server has exited.
- `WholeLines`: what the reader takes for lines are the lines written, whole and in
  order; no part of a line that was too long or cut off is taken for a request.
  `TypeOK` of `Frames` holds the bounds of the two buffers, the terminating 0
  included.
- `Delivered`: a line shorter than the buffer, after none but such lines, arrives.
- `RoundTrip`: a valid message is decoded as it was encoded; one that is not valid,
  which `encode` does not look at, is refused or loses only white space.
- `Normalised`: what `decode` makes of any line encodes again, to no longer a line,
  and decodes to the same.
- `ArgumentsPresent`: the arguments that the handlers index without a test are there.
- `OneSocket`: a program that goes on has exactly the socket that worked, one that
  gives up has none; `StartupEnds`: the walk ends.

Bounds. Two connections are enough for every conflict over one mutex, two tables
for opposite lock orders and for a commit that is half done; the theorems cover
more of both. In `txn` the tables hold an old value from the beginning, so that
one new value is enough to tell what was read and written when (creation and unset
keys are in `abrupt`); that nobody changes a table a transaction has read is proved for all
values (`Isolation`). `MaxDepth` bounds the operand stacks in the guards of PUSH and GET
(1 where only SET needs operands, 3 for the arithmetic). `MaxRequests = 7` lets one
client log in, open a transaction, create and lock a table, and another log in,
begin and ask for it. Three-bit ints have all the cases: both signs, overflow, the
trap, truncation in both directions. Connections and tables are symmetric where
symmetry is used; the liveness runs use none. Two clients are enough for one to
interfere with the other's increment and for one to wait for the other; the pairs
of `clients` name each combination once. In `frames` lines are shorter than both
buffers, between the two, as long as the line buffer and longer, and several fit
into one read. `MaxAddrs = 6` is more than a walk can tell apart.

Fairness. `Threads`: a thread that can go on does, and a read returns once the peer
has closed. That is what a preemptive scheduler and TCP give. A blocked
`pthread_mutex_lock` gets only weak fairness, since pthread mutexes are not queues:
starvation under endless contention is possible in the code and in the model, and
the liveness properties are stated for finitely many requests. `Clients` (each
client closes at some time) is a hypothesis of `Drained` alone: without it an
autocommit request waits as long as an idle client keeps its transaction open,
which the code has no timeout against. In `FairCSpec` a client goes on whenever it
can (its programs have no loops and wait only in `rio_readlineb`), the accept loop
takes whoever has connected, and threads go on; nobody has to be killed and `accept`
need not fail. In `Frames` reads and writes go on when they can, and the writer
closes at some time after its last line. In `Startup` calls return. Deadlock
checking is on in all runs.

### Findings

Each is a run that TLC must refute, with the trace as the demonstration.

1. `create_in_txn`: CREATE inside a transaction is visible before COMMIT and is not
   undone by a rollback, although transactions are called atomic.
2. `long_name`: a failed `trylock` on a table with a long name ends the process:
   `encode` throws inside the catch clause of the exception that is called
   recoverable.
3. `out_of_range`: overflowing ADD, SUB and MUL are answered OK; the clause that
   should refuse them is dead, because `std::to_string` does not throw. The same
   property forbids what `DivisionTrap` models: `INT_MIN / -1` ends the process.
4. `stale_reply`: the clients ignore what `rio_readlineb` returns. When the server
   ends after it has answered LOGIN, `set_value` takes that OK for the answers to
   PUSH and SET and ends with status 0, although nothing was stored.

Two more disagreements are part of the models, without a run of their own.
`Room` in `Frames`: `rio_readlineb` with a buffer of `MAX_ENCODED_LEN` returns at most
one byte less, so a line of the "maximum encoded message length (including
terminator newline character)" (message.h) can be encoded but not read; `Delivered`
is stated for shorter lines. `ServerMain` in `Startup`: `listen` tests the result of
`open_listenfd` for -1 only; with -2 (a port that `getaddrinfo` rejects) the server
goes on to `Accept`, whose wrapper exits with status 0, not to the "Fatal error
starting server" and status 1 of `server_main`.

## 4. Proofs

For all finite or infinite sets of connections, tables, keys and values, every
`IntMax`, every `Stoi` and `ToStr` with `Stoi[ToStr[i]] = i`, every set of well-typed
requests and both kinds of clients (the named assumptions in `Values` and
`KVServer`, which TLC evaluates on every run):

- `TypeCorrect`: `Spec => []TypeOK`. `TypeOK` is not inductive: CREATE, GET and SET
  use the fields of a request several steps after it was read. `TypeInv` adds
  `RequestInv`, which ties the type of the request to the thread's position. The
  arithmetic needs `Values_proofs`: `WrapInt` and `TruncDivInt` (a quotient is an
  int unless the division traps), together `ResultInt`.
- `RaceFreedom`, `LocksAccountedFor`, `DeadlockFreedom`: from `TypeInv /\ LockInv`
  (lemma `Discipline`). `LockInv` says that the mutexes a thread owns are exactly
  `Held(c)`, the set its own state accounts for: what its loop has still to visit,
  the table of its `Guard`, or its `locked_tables`. Ownership alone is not
  inductive, because a commit or rollback releases mutexes while the tables are
  still in `locked_tables`; the equivalence with `Held` is. No circular wait follows
  since a thread blocked on a table is in autocommit mode and owns none, and the
  owner of `table_lock` does not block.
- `PendingOwnership`: `PendingInv`, inductive relative to the two.
- `Isolation`: the action property `NoInterference`, from the same invariants: a
  step touches at most one table, which its thread owns or which is free.

- `LoginRequired`: `LoginFirst`, by `LoginInv` relative to `TypeInv`. It says of a slot
  without connection that it is not logged in, which a new connection relies on,
  and of a session without login that it has no transaction and no operands and
  is at a position no handler has led it to; that it owns no mutex is `LockInv`.
- `BuffersFit` and `Framing` (`Frames_proofs`): `TypeOK` and `WholeLines` of `Frames` for
  every size of the two buffers, every sequence of line lengths and all pieces.
  `FramesInv` adds `PositionInv` to the two: the current line starts at 0 or after a
  newline, and none of the bytes copied since is one. Without it a line that is taken might have begun inside
  another or span two. A line handed to `rio_writen` extends the stream beyond all
  that was read, so the lines already accepted stay what they are.

- `ArithmeticCorrect`: the action property `ArithmeticRight`, for every width of `int`.
  Beyond `TypeInv` it needs arithmetic only: `WrapExact` (wrapping changes a number by
  a multiple of the width), `TruncDivExact` (the remainder is smaller than the
  divisor and has the sign of the dividend) and `StackTwo` (what two pops and a push
  leave of a stack).
- `Serializability` and `SerializableFromStart` (`KVServerSerial_proofs`): the server
  implements `AtomicStore` under the refinement mapping. `HInv` adds to the server's
  invariants `ToldInv`: whatever a transaction has been told is in a table of its
  `locked_tables` and is still the committed value. `ValueInv` and `EndedInv` say what
  a thread's local value is when it is stored, and that an ended process has
  no sessions. Then each action is a step of the store or a stutter
  (`NextRefines`): `HandleCommit`, and `SetAccess` outside a
  transaction, change the abstract store; a `CommitTable` does not, because the
  mapping has counted its table as committed since the loop began, and no one
  else can see the table before it is unlocked (`Settled`).
- `DisciplineBesideClients` and `ClientsHarmless` (`KVClients_proofs`), for any number of
  clients. The first restates the lock discipline, because a client may close or
  reset a connection that is not accepted yet, which the client of `KVServer` alone
  does not. The second is `ServerUnharmed`. Its invariants are `ClientTypeInv` (what
  the programs send, and where they can be) and `QueueInv`: a connection has at most
  one request or response under way, so a client that is gone makes the server
  write at most once. It assumes that `T` is not in `LongNames`: with a name that
  is, the second finding ends the server.
- `UpdatesCounted` and `ReadsAreFresh` (`KVUpdates_proofs`): `NoLostUpdate` and `FreshRead`,
  for any finite number of clients. `PlaceInv` relates a client's place in its program
  to what is under way on its connection, `UpdateInv` follows each transaction
  from request to request: what is on its stack, in its pending map and in its
  thread's locals, relative to the committed counter, which nobody else can change
  while it has the table. It counts with a set `S` of the clients whose COMMIT has been
  carried out: the counter is its start value plus the size of `S`. `S` is
  existentially quantified, since the state does not determine it (a client killed
  at its COMMIT whose session is gone looks the same either way). `SeesInv` and
  `SawInv` bound what the session, the lines and the client's buffer hold of values
  between the counter at the client's start and now; `SawInv` survives the end of
  the server, `SeesInv` need not. Both theorems assume that the start value plus
  the number of clients is at most `IntMax`: `handle_add` wraps, and beyond it the
  counter would not be counting.
- `SocketLeftBehind` (`Startup_proofs`): `OneSocket` for every number of addresses.
  `SocketInv` says at which calls the socket of the current address is open and what
  the results -1, -2 and a descriptor tell.

- `RoundTripCorrect`, `NormalisedLines` and `HandlersFindArguments` (`Codec_proofs`):
  `RoundTrip`, `Normalised` and `ArgumentsPresent` for any number of arguments, of any
  length, for all lines and every `MaxLen`. Of the state they need only `CodecInv`: messages
  and lines consist of words and white space, and two words in a line have white
  space between them (`Apart`). What is proved is about the operators. `decode` finds
  in the line `encode` wrote the command and the rest (`BodyOf`,
  `DecodeEncoded`); the rest has the words of the arguments (`RestOfLine`), and those
  of a valid message are its arguments (`ReadBack`). In the other direction what
  `decode` accepts has a command of one symbol and arguments for which `encode` has
  room (`AcceptedLine`): there are at most as many words as separators and one more
  (`WordsShorter`, which is false without `Apart`).

  The words of a text and the concatenation of the arguments are recursive
  functions, and what they return is proved by induction over sequences. The
  induction principle is a lemma about sets, not about predicates: a set of
  sequences that contains the empty one, and with each also those longer by one,
  contains them all (`Growing`). It rests on `Least` (a set of numbers that is not empty
  has a least one), from the library's well-founded induction. `Recursion` gives the
  function such a definition chooses, `Agree` that it is the only one.

All inductive invariants were checked with TLC on the instances of `txn`, `frames`,
`clients`, `startup` and `codec` before they were proved.

Only model-checked: the liveness properties `TransactionNeverWaits`, `Drained`,
`ClientsTerminate`, `Delivered` and `StartupEnds`, which need fairness and `ENABLED`. All
invariants and action properties of the passing runs, and the refinement, are
proved. Proved under a hypothesis on the constants beyond the named
assumptions: `ClientsHarmless` (the table's name fits), `UpdatesCounted` and
`ReadsAreFresh` (finitely many clients and room to count).

## 5. Not modelled, and the plan

Done, the most important behaviour first: the server process with its locks and
transactions, serializability, liveness, the lock discipline proved; then the
clients, the lines, the codec and start-up, the login rule and the framing proved;
then the refinement of `AtomicStore`, the arithmetic, the clients, start-up and the
codec proved.

Not modelled:

- the unit tests and their framework, the build, the prebuilt reference programs
  (binaries), and the parts of csapp.c and csapp.h that no program calls;
- in `KVClients`: table names too long for a FAILED response (`long_name` shows what
  they do), a response of which only a part arrives when the server ends, wrong
  numbers of command line arguments (the program prints its usage and ends);
- in `Frames`: read errors, which end the reader as the end of the file does
  (`KVServer` and `KVClients` have the resets);
- in `Codec`: arguments or lines with a newline or a 0 byte inside, and single
  characters: two words never touch, and an argument is words and white space;
- failures of `pthread_mutex_init` and of memory allocation.
