# A verification project for zl_tools

zl_tools is a small C++ library: a Redis client over hiredis (`redis/`), a MySQL
client over libmysqlclient (`mysql/`), and helpers that pin threads and processes
to CPUs (`cpu_affinity/`).  This directory holds TLA+ models of that code, the
configurations that check them with TLC, and proofs checked by TLAPS.  File
paths are relative to the repository.

## 1. The system

| Part | State it keeps | Operations | Interacts with |
|------|----------------|------------|----------------|
| `RedisClient`: replies and errors (`RedisClient.cpp` 9-123, 209-274) | `errorCode_`, `errorMsg_` | `SET_ERROR`, `JUST_RETUAN_IF_ERROR`, `getError`, the decoders `execCmdBool`, `execCmdInteger`, `execCmdString` | every method |
| `RedisClient`: connection (40-207) | `rdsContext_`, `connected_`, `host_`, `port_`, `password_` | constructors, destructor, `connect`, `reconnect`, `disConnect`, `auth`, `ping`, `redisCmd` | hiredis: contexts allocated and freed, sockets, one blocking call at a time |
| `RedisClient`: keys and strings (276-588) | none of its own | 32 methods, each a format string for one `execCmd*`, and `type`, `mget`, `incrbyfloat`, which read replies themselves | the server's keys |
| `RedisClient`: lists (590-1009) | none of its own | pushes, pops, blocking pops, `brpoplpush`, `lrem`; by position `llen`, `lindex`, `lset`, `ltrim`, `lrange`, `linsert*` | lists shared with other clients |
| `RedisClient`: hashes (1013-1399) | none of its own | `hset` ... `hmget`; several fill a caller's vector or map | hashes shared with other clients |
| `CppMysqlClient` | `mysql_`, `errorCode_`, `errorMsg_` | `connect`, `close`, `execSQL`, `querySQL`, transactions, administration | libmysqlclient with automatic reconnection; fills a `CppMysqlResultSet` |
| `CppMysqlResultSet` | `mysqlRes_`, `mysqlRow_`, `rows_`, `fields_` | cursor, column access | freed by its own destructor, filled by the client |
| `CpuAffinity` | none (the kernel's masks) | two setters, two getters | threads of the process |

No class starts a thread or takes a lock.  An object is used by one thread, and
what moves beside it is outside the process: the server, the network, and other
clients of the same server.  All calls are synchronous, so the hard behaviours
are these.

- *A connection that ends inside a call.*  The command may have been read or
  not, carried out or not, and its reply may be lost.  The method returns
  failure in all these cases, and the caller sees one verdict.
- *Members that outlive what they describe.*  `connected_` stays true on a dead
  socket, `errorCode_` after a call that does not set it, `rows_`, `fields_` and
  `mysqlRow_` after `freeRes()`, and `mysql_` after a failed `connect()`.
- *Several clients of one list.*  Pushes, pops and blocked pops interleave at
  the server; an element leaves the list before its consumer has it.
- *Commands that outlive their connection.*  The server may carry out a command
  after its client has been told that the call failed, and after later calls.
- *Verdicts and outputs that each method decodes for itself.*  An integer, a nil,
  an empty array and an error all become `false` somewhere, and what the method
  does to its caller's variables on each of these paths differs from method to method.
- *A count and a mask read one after the other*, with CPUs that come and go between.
- *A library that reconnects by itself* (`MYSQL_OPT_RECONNECT`).  It may open a
  session in the middle of what the caller takes for a transaction.
- *Raw pointers.*  Contexts, handles and results have to be freed once, by the
  right method, on the path that failed too.
- *Boundaries.*  Unsigned offsets and timeouts that are printed as signed, and
  `rows_ - 1` of an empty result.

What makes each part correct:

| Part | Properties |
|------|-----------|
| Redis connection | a context is owned once and never used after it is freed; the flag and the pointer agree; the verdict and the error code agree; success means that the server did the work for an authenticated session; a broken context stays broken until it is replaced; every call returns |
| Redis lists | an element reaches at most one consumer, once, in order; a confirmed push is stored; nothing is lost without a failed pop; nothing is stored twice without an ended connection; blocked consumers are woken or time out |
| MySQL client | confirmed statements of a transaction are stored together or not at all; `commit()`, `rollback()` and `execSQL()` mean what they return; an error code tells refused from lost; handles leak only through a second `connect()` |
| MySQL result set | a getter reads a cell of the current result; the library's cursor and the members are one cursor over the rows; a lookup does not depend on the lookups before it; results leak only when overwritten |
| MySQL getters | a getter looks at the cell of the current row in the column it was asked for, whatever was looked up before, and gives it as it is for a text, cut to an integer for a number, and the default for SQL NULL; where the code gives less than the header promises (a fraction, a missing cell, an SQL NULL as an integer) `mysql_getters` shows it (section 4) |
| Key, string, list position and hash methods | success means that the command was carried out (for `mset()`, which always returns true, only together with the error code); a denial means that nothing was changed and nothing will be; a read shows one moment of the server; only what a caller asked for is written; a failure leaves the caller's variables as they were |
| CpuAffinity | a getter of a pinned thread never names another CPU than its own, whatever CPUs come and go, and fails only when the number of that CPU is not below the count of CPUs it has read first |

## 2. Modules

| Module | Models | Uses |
|--------|--------|------|
| `RedisReply` | error codes, `redisReply`, `getError`, the verdicts of `execCmd*` | |
| `RedisClient` | one client object, its contexts, the servers | `RedisReply` |
| `RedisClientProofs` | theorems about `RedisClient` | `RedisClient` |
| `DeliveryQueue` | abstract: what a queue promises its users | |
| `RedisQueue` | many clients, the pushing and popping list methods, the server's lists | `RedisReply`, instance of `DeliveryQueue` |
| `RedisQueueProofs`, `RedisQueueCountProofs`, `RedisQueueOrderProofs` | theorems about `RedisQueue`, each module resting on the one before | `RedisQueue` |
| `RedisCommands` | external: what the server does with the other commands | `RedisReply` |
| `RedisStore` | many clients, the key, string, hash and list position methods | `RedisCommands` |
| `RedisStoreProofs` | theorems about `RedisStore` | `RedisStore` |
| `MysqlClient` | one `CppMysqlClient`, its handles, its session | |
| `MysqlClientProofs` | theorems about `MysqlClient` | `MysqlClient` |
| `RowCursor` | abstract: a cursor over the rows of a result | |
| `MysqlResultSet` | one `CppMysqlResultSet` and the `MYSQL_RES` it is given | instance of `RowCursor` |
| `MysqlResultSetProofs` | theorems about `MysqlResultSet` | `MysqlResultSet` |
| `CpuAffinity` | the threads of a process and the kernel's masks | |
| `CpuAffinityProofs` | theorems about `CpuAffinity` | `CpuAffinity` |
| `MC*` | values of the constants and symmetry for TLC | the module they are named after |

`PROJECT.json` maps each definition to its lines.  Definitions whose name ends
in an underscore and a word (`Released_Overwritten`) are mutants: each is the
definition of that name with a plausible mistake.  They stand before the
definition, no specification uses them, and each is there because putting it in
the place of the original makes one property fail.

### RedisClient

The variables `rdsContext`, `connected`, `error` (`errorCode_` and `errorMsg_`),
`host` (`host_` and `port_`) and `password` are the members.  `call` is the
method in progress: `Send` writes the command, `Answer` is the server's reply,
and `Receive` or `ReceiveNothing` is the rest of the method, from
`redisCommand()` returning to the verdict.  Everything the code does there
(`getError`, `freeReplyObject`, the verdict, the password that `auth()` stores)
is one action, because nobody else can see the object in between.
`LinkDrop`, `ServerDown` and `ServerUp` may occur between any two steps.
`Refuse` is the guard macro, `FailFast` a call on a context whose `err` is set,
and `NullContext` one of the methods without a guard on an object without a
context.  `connect()` is one action, with its `disConnect()`, because it blocks
and no other call of the object can run.

The key, string, list and hash methods reach the server through `execCmdBool`,
`execCmdInteger`, `execCmdString` or a copy of their text; `Method` has one entry
for each form of that path, not one for each Redis command.

`FreeNullCrashes` is a constant because hiredis changed: older versions of
`freeReplyObject()` dereference a null reply, newer ones ignore it, and this
client calls it on null everywhere but in `auth()` and `ping()`.  The proofs hold for both.

### RedisQueue

Each client is an object of its own.  `RedisClient` is not instantiated for each
of them: what its model shows (success is genuine, a broken context stays broken)
is used here as the three states of `link` and the verdicts of `RedisReply`.
`Send`, `Apply`, `Block`, `Serve`, `Expire`, `Receive` and `ReceiveNothing` are the
life of a call.  `Effects` is what the server may do with a command; it serves
blocked clients before it reads another command (`Settled`).  `orphans` are
commands read from connections that have ended: they may still be carried out
or be dropped.  `KeyName` and `Printed` are the two conversions that matter:
several keys joined into one argument, and a `uint32_t` timeout printed with `%d`.
A consumer of a processing list takes what it has received off it with `lrem()` of
count 1, one copy at a time (`Without`).

### RedisStore and RedisCommands

Methods that differ in the name of their command or in a unit stand together
(`pttl` as `ttl`, `decrby` as `incr` with a negative increment).  Each client has an
object and a connection of its own, and `link` is what of `RedisClient` matters
here: no context, a good one, one whose end nobody has noticed, a broken one, and
a process that has died.

A call is a request `q`: a method, its key, its names (fields, keys, a pivot), its
values and its number.  `Sent` is how the arguments become the words the server
reads: a `%s` stays in one piece, and the methods that print all arguments into
the format (`mset`, `msetnx`, `mget`, `hmset`, `hmget`) have them split at blanks;
`Words` says into what each text falls.  `Printed` is the `%d` of arguments that are
wider or unsigned.  `Verdict` is the returned `bool`; of the methods that return a
number it is whether `reasonCode()` is `REDIS_NO_ERROR`, for they have no other way
to fail.  `Told` is what a caller learns who reads the error code too, and `Decoded`
what the method leaves in its caller's variables `out`, path by path.  `mset()`
returns true whatever `execCmdBool()` has returned, so its `Verdict` is `TRUE`; `Told`
is "confirmed" when the code agrees and "swallowed" when it does not.

A process that dies in a call is of two kinds.  `Dies` are the calls that dereference
a bad pointer before they write their command; `DiesStoring` is `setbit()` with a null
`oldvalue`, which dereferences it after the reply, when the bit may have been set.

`tale` is a history: for each call what its caller was told and what the server
did.  `orphans` are the commands read from connections that have ended; they may be
carried out at any later time, or never.  `snap` is the database at the moment of a
read, which the property `ReadIsSnapshot` compares with what the caller is shown.

`RedisCommands` gives for a database and a command the databases and replies that
may follow.  The server is not in the repository; its part is as large as the
methods need, and no larger: `Edited` is the text of any partial write, `Width` the
length of a text, and the end of a range is its last element.

### MysqlClient

`mysql` is `mysql_` with what the library keeps in the handle: whether it has a
socket, whether it may reconnect, whether the last good answer said that a
transaction was open, and its character set.  `session`, `work` and `table` are
the server's side.  `late` holds commits that the server has read from sessions
that have ended.  `tx` and `fate` are what a program that checks every
return value may conclude, and the properties are about them.  `Reopen` is the
library's silent reconnection.

What the model assumes of libmysqlclient and the server, which are not in the
repository: the library does not reconnect while the last answer said a
transaction was open; an error answer does not carry that bit;
`START TRANSACTION` and `CREATE DATABASE` commit what is open; an error may roll
the whole transaction back; a session that ends rolls back what it has not
committed; a command that was read may be carried out after its session ended.

### MysqlResultSet

The four members, and `store`, the results the library has allocated, each with
the row and the column it would fetch next.  A row is the pair of its result and
its number, so a stale pointer is one whose first component is not the current
result.  `ret` is what the last method returned, if that was a number.
`unsigned long` is `ULongRange` wide: `Pred` is `rows_ - 1` with wrap-around.
`Content` gives the cells of each row: texts, and `NULL` for an SQL NULL.  `Tenths` is the
number a text denotes, in tenths, and `Atoi` the integer that `atoi` and `atol` make of
it.  The getters are actions, by number and by name, and `ret` holds what they gave.
The properties do not use `Atoi`: they compare what a getter gave with `Tenths`.  An
integer getter by number on an SQL NULL passes null to `atoi` and the process dies with
the call unanswered.  A column number out of range is a precondition of the class
and never given.

### CpuAffinity

`mask` is the kernel's; the setters are one system call each, which fails with `EINVAL`
for a thread and with -1 for the process, and the getters are two
steps, `ReadCores` (`get_nprocs`) and `ReadMask`, because `Hotplug` and the setters of
other threads may come between.  `setCurProccessCpuAffinity` passes `getpid()`,
which to the kernel is the main thread alone; `getCpuIdOfCurProccess` passes 0, its own
thread.  `pin` is a history of who was pinned where.

## 3. Runs

| Run | Question | Bounds |
|-----|----------|--------|
| `client_safety` | Do the pointer, flag, error code and verdict of one client stay true while links and servers fail at every step? Does every call end? | 2 servers (one with a password), 2 contexts, 2 passwords (one wrong), `freeReplyObject(NULL)` may crash |
| `queue_safety` | At most once, in order, confirmed pushes stored, losses announced | 1 producer, 2 consumers, 3 elements, 2 ended connections, room for 3 elements, timeouts 1 and 4 of a range of 8 |
| `queue_live` | Does the whole implement `DeliveryQueue`? Are blocked consumers woken, do blocking calls end? | 1 producer, 2 blocked consumers, 2 elements, 1 ended connection, timeouts 1 and 4 of a range of 8 |
| `queue_reliable` | With `brpoplpush()` and `lrem()`, and a producer that pushes again what it was denied: is anything lost, or duplicated unannounced? | 1 producer, 2 consumers, 2 elements, 2 ended connections, room for 3 |
| `queue_several_keys` (violation) | Does a consumer of two lists wake when one has an element? | 1 producer, 1 consumer, 2 lists, no failures |
| `redis_store` | Are verdicts, outputs and written keys right, call by call, with another client writing and connections that end? | 2 clients (one with every method, one that writes), 2 keys, 2 fields, 7 databases, 2 calls, 1 ended connection, integers -1, 0, 1, 4 of a range of 8 |
| `redis_mset` (violation) | Has everything been carried out that a method returned true for, `mset()` included? | the same |
| `mysql_client` | Are transactions atomic and verdicts true although the library reconnects? Do handles leak? | 2 statements, 2 handles, 1 ended link |
| `mysql_charset` (violation) | Does a connection that `connect()` calls good use its character set? | 1 statement, no failures of the link |
| `mysql_result_set` | Do the members describe one live result? Do they implement `RowCursor`? Does a getter convert its cell and no other? | 2 addresses, up to 3 rows, headings of 1 column, 2 columns, and 2 columns of one name; cells with "7", "2.5", "" and SQL NULL |
| `mysql_getters` (violation) | Do the getters do what the header says: the number in the cell, `nullValue` without one? | the same |
| `cpu_affinity` | Do getters name the CPU a thread is pinned to? | 3 threads, 3 CPUs of which any may be offline, CPU numbers 0 to 3 |

Why the bounds are enough.  One client has one context, so a second address shows
every reuse and every leak, and two servers show a password that belongs to
another server.  Two consumers are the least that can compete; three elements
show order between elements of which one is lost; two ended connections let a
producer and a consumer, or one client twice, fail in one behaviour.  In
`queue_live` the state space with fairness allows one ended connection.  A
range of 8 makes 4 the first timeout that is printed as a negative number.  Two
statements are the least that a transaction can tear apart; one ended link may
fall before, inside or after it, and the commit it cuts off may be carried out
at any later time.  A result set needs a second address to have a stale row,
three rows to have a first, middle and last one, and two equal names to have a
lookup that must stop at the first.  In `redis_store` the methods keep no state
between calls, so two calls are what is needed: one whose command may outlive its
connection and one that could meet what it does; the seven databases put every
type, a key with a time to live and a second key before the first call.  One text
holds blanks and would be a key and a field if it were split at them.  Three CPUs
can have a hole between two that are online; the third thread is one that is
neither the main thread nor the caller.

Histories that only count (`replaced`, `overwritten`, `unanswered`, `drops`) are
bounded by `MaxHandles`, `Result`, `MaxDrops`; `accepted` by `MaxAccepted`, which
is also the memory of the server.  Symmetry (consumers, producers, elements;
statements; threads but the main one) is used in safety runs only; none of those
checks liveness.

`CHECK_DEADLOCK FALSE` stands in three configurations: in `queue_several_keys` a consumer
that sleeps for ever is what the run shows, and in `redis_store` and `redis_mset` the
calls are counted, and past the last one nothing is left to do.

**Fairness.**  `RedisClient` assumes that a server answers a command it has read
and that a thread inside `redisCommand()` goes on when the reply or the end of
the connection is there.  The library sets no read timeout (the timeout given to
`connect()` is for connecting only), so a server that reads and never answers
blocks a call for ever: `CallReturns` rests on `WF(Answer)`, that is, on the
server.  `RedisQueue` assumes in
addition that the server serves blocked clients and that its timeouts expire.
Nothing forces a caller to call, `connect()` to succeed, or a failure to happen.

## 4. What the runs found

The four violation runs show code that does not do what its header says.

1. `blpop(keys)` and `brpop(keys)` send several keys as one argument (761), so the
   server waits on one list of a name with blanks; `RedisClient.h:315` promises a
   return as soon as any list has an element.
2. `mset()` returns true whatever happened (`RedisClient.cpp:408`); `RedisClient.h:162`
   excepts a connection that fails.  In the run the connection ends, the command is
   never carried out, and `mset()` returns true.
3. `CppMysqlClient::connect()` takes the failure of its second
   `mysql_set_character_set()` for success and its success for failure
   (`CppMysql.cpp:201`).
4. The getters of numbers break `CppMysql.h:57-75` in three ways, which
   `GettersKeepContract` joins.  `MissingGivesDefault`: `getIntField()` by name (106) and
   both `getFloatField()` (112, 118) take the default of `getStringField()`, the empty text,
   for a cell when there is none, and give 0 for `nullValue`; this is the shortest
   counterexample and the one TLC prints.  `FloatFieldTellsNumber`: `getFloatField()`
   converts with `atol` and gives 2 for "2.5".  `GettersReturn`: `getIntField()` by number
   calls `atoi(NULL)` for an SQL NULL (97).  With one of the last two names in its
   place, the configuration shows these.

Others were met while reading.  They are certain once their call is made, so a run
would only repeat the line.

- `incrbyfloat()` (`RedisClient.cpp:553`) and `redisCmd()` (200-207) do not test the
  connection and pass a null context to hiredis (`NullContext`); `RedisClient.h:263` and
  70 promise `false` and `NULL`.
- `fieldName()` returns `NULL` whenever there is a result (`CppMysql.cpp:80`) and
  dereferences null when there is none; `CppMysql.h:54` promises the name.
- `connect(ip, port)` never stores `host_` and `port_`, so `reconnect()` goes where
  the constructor pointed; it does not authenticate again, and `auth()` stores
  `password_` before it knows that it is right (168-183).
- `execCmdBool` returns false with `REDIS_NO_ERROR` for an integer other than 1;
  so do `lpushx`, `rpushx` with 0 and `bpop` with an array that is not a pair.
- A guard that fails stores the code `REDIS_ERROR` with the text of
  `REDIS_NO_CONNECT`.  `redisCmd()` never touches the error.
- A blocking timeout of 2^31 or more is sent as a negative number and refused.
  `blpop` and `brpop` of an empty vector index it at `size() - 1` (765).
- `push` and `insert` return false when the reply is lost although the element
  was stored: `queue_reliable` shows that a retry then duplicates it.
- `expireat` and `pexpireat` leave the key out of their arguments, so that the time
  is taken for a pointer (318-322, 337-341; `Dies`).  `getset()` does not test its
  value and `hstrlen()` not its field.
- `getset()` of a new key stores the value and returns false with `REDIS_NIL` (521).
  This is why `DenialChangesNothing` leaves that code out.
- `mset`, `msetnx`, `mget`, `hmset` and `hmget` print their arguments into the format
  of the command, where blanks split them and `%` begins a conversion: a value with
  blanks shifts every pair behind it.  `ReadIsSnapshot` and `ChangesAsAsked` speak of
  requests whose texts are single words (`Plain`).
- `setbit` tests `value` for `oldvalue` (431), so clearing a bit never gives the old one,
  and setting one with a null `oldvalue` dereferences it (432; `DiesStoring`).
  `type()` leaves its result unset for `none` (357-379), `hdel()` its count for 0.
- `setex`, `setrange`, `getrange`, `getbit`, `setbit` and `lrange` print unsigned or 64-bit
  numbers with `%d`.
- `hgetall()` leaves old entries of its caller's map as they are and every method
  that fills a vector appends to it.  A value "nil" and a missing key look alike in
  what `mget()` gives, an empty value and a missing field in what `hmget()` gives.
- Every method of `CppMysqlClient` but `selectDB()` dereferences `mysql_` without a
  test; `querySQL()` dereferences the null result of a statement that has none.
- `querySQL()` that succeeds and `selectDB()` without a handle leave `errorCode_` as it was,
  so `errorCode()` tells of an older failure; `VerdictMatchesCode` exempts both.
- After a failure inside a transaction the library reconnects, and the statements
  that follow are committed one by one while `commit()` returns true.  The
  properties are therefore about statements confirmed *before the first failure*.
- `eof()` is never true after `freeRes()` in the middle of a result; `seekRow()` of
  an empty result returns `ULONG_MAX`.
- CPU numbers may have holes, and `CpuAffinity` takes the number of CPUs that are
  online for a bound on them: a getter of a thread on a higher CPU fails.  So does one
  that has read the count before a CPU came online to which its thread was then pinned.
- `setCurProccessCpuAffinity()` moves the main thread alone, and
  `getCpuIdOfCurProccess()` reads the thread that calls it.

## 5. Proofs

The theorems hold for every value of the constants that meets the assumptions of
their modules (`ConstantsAssumption`, `CommandsAssumption`, `StoreAssumption`,
`DatabaseAssumption`, `MysqlAssumption`, `ResultSetAssumption`, `ContentAssumption`,
`AffinityAssumption`, `QueueAssumption`); TLC evaluates these on the runs' values.

**RedisClientProofs.**  The inductive invariant `IInv` is `TypeOK`,
`ConnectedIffContext`, `ContextOwnership` and `GoneInv` (an object that is not live
has no context and no call).  None of them is inductive alone: `connect()` releases
a context only `IF connected`, so that nothing leaks needs the flag to match the
pointer; that they match after a crash or the destructor needs `GoneInv`; that a
call ends on an allocated context needs ownership.  `GInv` adds `AnswerGenuine` (a
call in progress is on a context that has seen no error, and a reply on its way
is not null and, unless it is an error, belongs to a session that has shown the
password its server requires) and gives `SuccessIsGenuine`.

| Theorem | States |
|---------|--------|
| `TypeCorrect` | `TypeOK` |
| `FlagMatchesPointer` | `ConnectedIffContext` |
| `NoLeakNoDangling` | `ContextOwnership` |
| `GenuineSuccess` | `SuccessIsGenuine` |
| `OnlyConnectRepairs` | `BrokenStaysBroken`, an action property |
| `CodeExplainsVerdict` | `VerdictMatchesError` |

**RedisStoreProofs.**  The first two theorems are about a call, the commands it may have
left at the server and what was told of it, so `IInv` says how these meet.  Of a call in
progress nothing has been told; if it has been answered it has been carried out, and
if that changed something, the answer is none its method takes for a denial
(`CallsOpen`).  No two calls share a tale (`CallsApart`).  Of an orphan's call nothing
has been told, or "unknown", or of `mset()` "swallowed", and nothing else ever will (`OrphansOpen`): no late
command falsifies a verdict.  `EffectsAdmitted` is the heart: whatever a command does,
it does not change a key and answer with a denial.  It is proved method by method
over `RedisCommands`.

The other two rest on `TInv`, the types of what a text passes through: the words a method
sends (`RequestsWellSent`: joined arguments fall into words that are texts and the first
of them a key), what the command makes of the database and answers (`EffectsTyped`, again
method by method), and what the decoder makes of that (`DecodedTyped`).  None of
them is inductive without the others: what is stored comes back as a reply, and from there goes
into the variables.  An answered call carries a reply *that its method's command gives*
(`Given`), and for a reply of that type `FailureKept` says that a decoder that does not
report success stores nothing but a 0 or -1: only arrays carry elements, `mget()` and
`hmget()` fail on everything else, `hkeys()` and its like on empty ones alone.
`TypeOK` bounds numbers by what a
reply can carry; their narrowing to 32 bits (606) is not in it.

| Theorem | States |
|---------|--------|
| `SuccessIsTrue` | `SuccessIsDone`; of `mset()` it needs `reasonCode()` to be `REDIS_NO_ERROR` as well |
| `DenialIsFinal` | `DenialChangesNothing` |
| `TypeCorrect` | `TypeOK` |
| `FailureIsQuiet` | `FailureKeepsOutputs`, an action property |

**RedisQueueProofs, RedisQueueCountProofs, RedisQueueOrderProofs.**  A list, a reply on
its way and a consumer may each hold an element, and a command may act after its
caller has left.  The inductive invariant `Base` says what calls in progress and
orphans can be (`Calls`, `Orphans`: an answered call carries a reply its command
gives, an orphan's connection is among the `drops`), that no two failed withdrawals
share an ended connection (`DropsCounted`), and `ConfirmedIsStored`.  The other
properties each need their own strengthening, and all of them speak of orphans, for an orphan
is a step that has not been taken yet:

- `LossCounted`: elements lost *and withdrawals that may still be carried out for
  nobody* are no more than withdrawals that have ended or will end without a reply.
- `DupCounted`: copies *and pushes that may still be carried out for nobody, and stored
  elements whose producer may push again* (`AtRisk`) are no more than `drops`.  It rests on
  `OnePush`: an element is in one push at a time.
- `Kept`: with `brpoplpush()` alone, what is not on a list has been received, because
  an `lrem()` is of an element its consumer has.
- `InOrder`: the queue is the tail of `accepted`, and what a consumer holds, its reply on the
  way included, are increasing places in the part before it (`Located`).
- `PushedOnce` and `OnePlace`: without retries an element is accepted once, has no push
  on its way when it has been, and is on the queue or with one consumer.

`QueueImplementsDelivery` follows from the last two: a push that is carried out is the
abstract `Accept`, a pop `Withdraw`, `Receive` is `Deliver`, and the rest are stutters.

| Theorem | States | For |
|---------|--------|-----|
| `TypeCorrect` | `TypeOK` | all |
| `ConfirmedPushIsStored` | `ConfirmedIsStored` | all |
| `EveryLossIsReported` | `LossIsReported` | all |
| `EveryDuplicateIsReported` | `DuplicatesAreReported` | all |
| `ProcessingListLosesNothing` | `NothingLost` | consumers that use `brpoplpush()` only (`OnlyMoves`) |
| `ElementsArriveInOrder` | `OrderKept` | pushes at one end, pops at the other (`FirstInFirstOut`) |
| `ElementsArriveOnce` | `AtMostOnce` | no producer retries, consumers pop (`OnlyPops`) |
| `QueueImplementsDelivery` | `DeliverySpec`, a refinement | no producer retries, `FirstInFirstOut` |

The hypotheses in the third column are on constants, and choose how a program uses
the class.  They are what the properties need and no more: a producer that retries does
store elements twice, and pops at the end of the pushes do change the order.  The runs
`queue_safety`, `queue_reliable` and `queue_live` meet them.  `DeliverySpec` has no
fairness in it; that elements arrive is what `WokenByPush` and `BlockingEnds` are for.

**MysqlClientProofs.**  `AllOrNothing` speaks of the table alone, while the statements
of a transaction may be in the session's open work, in the table, or in a commit
that the server has read from a session that has ended.  `IInv` therefore says of
all three that they hold the confirmed statements whole or not at all (`Together`),
and of a transaction in which nothing has failed that the library knows it is open,
so that it will not reconnect, and that the server has it whole or has lost the
session (`Clean`).  `Unstored` says that a statement not yet asked for, refused, or
not yet carried out is in none of the three, and rests on each statement being
inserted once; `Autocommit`, that a transaction is open for the program whenever it
is for the server; `Living` and `Calling`, what the members and the call in
progress hold at all.  TLC has checked each of them before they were proved.

| Theorem | States |
|---------|--------|
| `TypeCorrect` | `TypeOK` |
| `TransactionsAreAtomic` | `AllOrNothing` |
| `CommitMeansStored` | `TransactionVerdict` |
| `SuccessIsDurable` | `AutocommitIsDurable` |
| `RefusedStaysOut` | `RefusalIsFinal` |
| `OnlyReplacedLeak` | `LeaksAreReplaced` |
| `CodeExplainsVerdict` | `VerdictMatchesCode` |

**MysqlResultSetProofs.**  `IInv` is `TypeOK` and `PointsToResult`: if there is a
result, `rows_` and `fields_` are its size and width, and `mysqlRow_` is the row
behind which the library's cursor stands, or null with the cursor at the end.
Types alone say nothing of this: `freeRes()` leaves three members behind, and that
they never meet another result is what is to be shown.  `FetchStep` and `SeekStep`
say what the library does with the cursor, `MovedStep` that any move of it
preserves `IInv`, and then each action has one lemma.  `StepRefines` maps each
step to one of `RowCursor` or to a stutter.  `LeaksCounted` adds to
`LeaksAreOverwritten` that the allocated results are finitely many, without which their
number says nothing; `mysqlRes_` is either null or one of them, so that what is freed
is always allocated.  `GettersAreExact` rests on `StringOfFinds` and `StringAtFinds` (the
text of a column is the cell of the first column asked for, wherever the column cursor
stood), and on `AtoiIsNear` (the integer is less than one off the number); it says of
each getter what the code does give, and finding 4 of section 4 is what it does not.

| Theorem | States |
|---------|--------|
| `TypeCorrect` | `TypeOK` |
| `GettersReadLiveCells` | `ReadsLiveCell` |
| `SeekIsExact` | `SeekReturnsPosition`, an action property |
| `LookupIsExact` | `LookupFinds`, an action property |
| `ImplementsRowCursor` | `CursorSpec`, a refinement |
| `GettersAreExact` | `GettersTellTheCell`, an action property |
| `OnlyOverwrittenLeak` | `LeaksAreOverwritten` |

**CpuAffinityProofs.**  `IInv` adds to `TypeOK` that a thread with a pin has the mask of
that one CPU (`PinIsMask`).  What other threads do to its mask during a getter moves its
pin as well, and only a CPU that goes offline undoes it, mask and pin together.

| Theorem | States |
|---------|--------|
| `TypeCorrect` | `TypeOK` |
| `PinIsNamed` | `GetterNamesPin`, an action property |

Checked by TLC only: liveness (`CallReturns`, `WokenByPush`, `BlockingEnds`), since
the prover handles neither fairness nor `ENABLED`; and of `RedisStore` the properties
`ReadIsSnapshot` and `ChangesAsAsked`, which compare what folds over the words of a command
and a `CHOOSE` over the fields of a hash give.

## 6. Not modelled

- What a value looks like inside: bits, the digits of floats, the text of `DUMP`, the
  `%` conversions in a joined command other than that it falls apart at blanks.
- The end of a range of positions: it is the last element in every call.
- Lists and hashes of more than 2^31 elements, whose lengths are narrowed to `int32_t`
  (606).
- Pushes and pops in `RedisStore`, other methods on lists in `RedisQueue`: the two
  divide the methods of `RedisClient` between them.
- `getBlobField` and `fieldIsNull`, which are declared and not defined.
- The length of a name given to `createDB()` and `dropDB()`, which print their statement
  into an array of 1024 bytes (`CppMysql.cpp:249`, 258).
- Column numbers out of range, and empty vectors given to `blpop` and `brpop`: the
  code is undefined for them.
- Logging, the texts of MySQL errors, makefiles and test programs.

## 7. Plan

Done, in the order of importance: the Redis connection, the queue, the MySQL
client, the result set with its getters, the key, string, hash and position
methods, the CPU affinity; and proofs about all of these.

What is left are proofs of two properties of `RedisStore`, one method at a time:
`ReadIsSnapshot`, for which `Given` already says from which database a reply is, and
`ChangesAsAsked`.
