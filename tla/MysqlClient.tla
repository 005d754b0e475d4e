------------------------------ MODULE MysqlClient ------------------------------
(***************************************************************************)
(* One CppMysqlClient, the MYSQL handles it makes, and its session at the  *)
(* server.  A call is in progress from the moment a command is written     *)
(* until the method returns; the link may end in between, and the library, *)
(* told so by MYSQL_OPT_RECONNECT, opens a new session behind the caller's *)
(* back when the next command finds the old one gone.                      *)
(***************************************************************************)
EXTENDS Naturals

CONSTANTS
  NULL,         \* the null MYSQL pointer
  Statement,    \* the INSERTs a program runs with execSQL(), each at most once
  Charset,      \* the character sets given to connect() and setCharset()
  NoCharset,    \* charset = NULL, and the library's default
  MaxHandles,   \* bound: handles allocated at a time
  MaxDrops      \* bound: links that end

VARIABLES
  obj,        \* "none", "live", or "crashed" with the whole process
  mysql,      \* mysql_: NULL, or what its handle holds
  errorCode,  \* errorCode_: "0", an error of the server, or a lost connection
  call,       \* the method in progress, Idle when there is none
  result,     \* what the last method returned
  handles,    \* handles from mysql_init() that nobody has closed
  replaced,   \* history: handles connect() has overwritten
  session,    \* the handle's session: "none", "auto" (commits each statement), "began"
  work,       \* the statements of the session's open transaction
  late,       \* commits the server has read from sessions that have ended
  table,      \* the statements committed
  fate,       \* what the program knows of each statement
  tx,         \* the transaction as the program sees it
  drops       \* links that have ended

memberVars == <<obj, mysql, errorCode>>
serverVars == <<session, work, late, table>>
callerVars == <<call, result, fate, tx>>
vars == <<memberVars, callerVars, handles, replaced, serverVars, drops>>

Handle == [vio : BOOLEAN, reconnect : BOOLEAN, inTrans : BOOLEAN,
           charset : Charset \cup {NoCharset}]

Initialised == [vio |-> FALSE, reconnect |-> FALSE, inTrans |-> FALSE,
                charset |-> NoCharset]

ASSUME MysqlAssumption ==
  /\ NULL \notin Handle /\ NoCharset \notin Charset
  /\ MaxHandles \in Nat /\ MaxDrops \in Nat

-----------------------------------------------------------------------------
(* The methods.  execSQL() is given a statement, setCharset() a character  *)
(* set; dropDB() sends as createDB() does, and getCharset() and            *)
(* getHostInfo() only read the handle.                                     *)

Method == {"startTransaction", "commit", "rollback", "execSQL", "querySQL",
           "createDB", "selectDB", "setCharset", "ping", "shutdown"}

NoArg == "none"

Arguments(op) ==
  CASE op = "execSQL"    -> { s \in Statement : fate[s] = "fresh" }
    [] op = "setCharset" -> Charset
    [] OTHER             -> {NoArg}

\* Mutant: startTransaction() is a copy of commit() with its text unchanged.
Sql_CommitOnStart(op) ==
  CASE op \in {"startTransaction", "commit"} -> "COMMIT"
    [] op = "rollback"         -> "ROLLBACK"
    [] op = "createDB"         -> "CREATE DATABASE"
    [] op = "execSQL"          -> "INSERT"
    [] OTHER                   -> "READ"

\* Mutant: rollback() is a copy of commit() with its text unchanged.
Sql_CommitOnRollback(op) ==
  CASE op = "startTransaction" -> "START TRANSACTION"
    [] op \in {"commit", "rollback"} -> "COMMIT"
    [] op = "createDB"         -> "CREATE DATABASE"
    [] op = "execSQL"          -> "INSERT"
    [] OTHER                   -> "READ"

\* What a method asks of the server's data.
Sql(op) ==
  CASE op = "startTransaction" -> "START TRANSACTION"
    [] op = "commit"           -> "COMMIT"
    [] op = "rollback"         -> "ROLLBACK"
    [] op = "createDB"         -> "CREATE DATABASE"
    [] op = "execSQL"          -> "INSERT"
    [] OTHER                   -> "READ"

Idle == [op |-> "idle", arg |-> NoArg, phase |-> "idle", reply |-> "none", inTrans |-> FALSE]

NoTx == [open |-> FALSE, clean |-> FALSE, done |-> {}]
NoResult == [op |-> "none", ret |-> FALSE, charset |-> NoCharset]

-----------------------------------------------------------------------------
(* The end of a method.                                                    *)

\* What a caller that checks every return value makes of it: done are the
\* statements confirmed since startTransaction() before anything failed.
Noted(op, arg, ret) ==
  CASE op = "startTransaction" -> [open |-> TRUE, clean |-> ret, done |-> {}]
    [] op \in {"commit", "rollback"} /\ ret ->
         [tx EXCEPT !.open = FALSE, !.clean = tx.open /\ tx.clean]
    [] op = "execSQL" /\ ret /\ tx.open /\ tx.clean -> [tx EXCEPT !.done = @ \cup {arg}]
    [] op \in {"createDB", "shutdown"} \/ (op # "startTransaction" /\ ~ret) ->
         [tx EXCEPT !.clean = FALSE]
    [] OTHER -> tx

\* A confirmed statement is stored, unless it waits for a commit().
FateAfter(ret, code) ==
  IF ret THEN IF tx.open THEN "pending" ELSE "stored" ELSE code

Return(op, arg, ret, code) ==
  /\ result' = [op |-> op, ret |-> ret, charset |-> NoCharset]
  /\ call' = Idle
  /\ tx' = Noted(op, arg, ret)
  /\ fate' = IF op = "execSQL" THEN [fate EXCEPT ![arg] = FateAfter(ret, code)] ELSE fate

\* Mutant: the macro does not test what the call returned.
Failed_Never(reply) == FALSE

\* if(!expr) of the macros, expr being ret == 0.
Failed(reply) == reply # "ok"

\* Mutant: the macro keeps the code of an earlier failure.
Judged_NoElse(op, code) == IF code = "0" THEN errorCode ELSE code

\* SET_ERROR_INFO_AND_RETURN; querySQL() leaves the macro out when it succeeds.
Judged(op, code) == IF op = "querySQL" /\ code = "0" THEN errorCode ELSE code

\* Mutant: the macro stores the 1 its call returned and not mysql_errno().
Errno_One(code) == "refused"

\* mysql_errno(mysql_) after a call that failed.
Errno(code) == code

Succeed(op, arg) ==
  /\ errorCode' = Judged(op, "0")
  /\ Return(op, arg, TRUE, "0")

Fail(op, arg, code) ==
  /\ errorCode' = Judged(op, Errno(code))
  /\ Return(op, arg, FALSE, Errno(code))

-----------------------------------------------------------------------------
(* The life of the object.                                                 *)

\* The session ends: its open transaction is rolled back.
EndSession == session' = "none" /\ work' = {}

Crash ==
  /\ obj' = "crashed" /\ mysql' = NULL /\ errorCode' = "0"
  /\ call' = Idle /\ result' = NoResult /\ handles' = 0 /\ replaced' = 0
  /\ EndSession
  /\ tx' = [tx EXCEPT !.open = FALSE]
  /\ fate' = IF call.op = "execSQL" THEN [fate EXCEPT ![call.arg] = "lost"] ELSE fate
  /\ UNCHANGED <<late, table, drops>>

Construct ==
  /\ obj \in {"none", "crashed"}
  /\ obj' = "live" /\ mysql' = NULL /\ errorCode' = "0"
  /\ UNCHANGED <<callerVars, handles, replaced, serverVars, drops>>

Ready == obj = "live" /\ call = Idle

\* Mutant: close() does not test mysql_ and closes what is gone.
Closed_Always == 1

\* Mutant: close() forgets the handle without mysql_close().
Closed_Forgotten == 0

\* The handle close() gives back.
Closed == IF mysql = NULL THEN 0 ELSE 1

Close ==
  /\ Ready
  /\ mysql' = NULL /\ handles' = handles - Closed
  /\ EndSession
  /\ result' = [NoResult EXCEPT !.op = "close"]
  /\ tx' = [tx EXCEPT !.open = FALSE]
  /\ UNCHANGED <<obj, errorCode, call, fate, replaced, late, table, drops>>

Destroy ==
  /\ Ready
  /\ obj' = "none"
  /\ mysql' = NULL /\ handles' = handles - Closed
  /\ EndSession
  /\ tx' = [tx EXCEPT !.open = FALSE]
  /\ errorCode' = "0" /\ result' = NoResult
  /\ UNCHANGED <<call, fate, replaced, late, table, drops>>

\* mysql_init() overwrites mysql_ whatever it held; the session of the handle
\* that is overwritten goes on at the server, out of reach.
Connects(cs, ret) ==
  /\ Ready
  /\ handles < MaxHandles
  /\ replaced' = replaced + (IF mysql = NULL THEN 0 ELSE 1)
  /\ work' = {}
  /\ tx' = [tx EXCEPT !.open = FALSE]
  /\ result' = [op |-> "connect", ret |-> ret, charset |-> cs]
  /\ UNCHANGED <<obj, call, fate, late, table, drops>>

\* mysql_init() has no memory, or mysql_real_connect() fails and leaves an
\* initialised handle behind.
ConnectFails(cs) ==
  /\ Connects(cs, FALSE)
  /\ session' = "none"
  /\ \/ mysql' = NULL /\ handles' = handles /\ errorCode' = "refused"
     \/ mysql' = Initialised /\ handles' = handles + 1 /\ errorCode' = "lost"

\* connect() sets the character set once more when the first attempt failed,
\* and takes the second success for a failure and the second failure for a
\* success.  In either case errorCode_ is 0.
CharsetVerdict(cs, first, again) == cs = NoCharset \/ first \/ ~again

\* The server accepts the connection; the attempts fail when the link ends.
ConnectReaches(cs) ==
  \E alive, first, again \in BOOLEAN :
    /\ ~alive => cs # NoCharset /\ ~first /\ ~again
    /\ Connects(cs, CharsetVerdict(cs, first, again))
    /\ errorCode' = "0"
    /\ handles' = handles + 1
    /\ session' = IF alive THEN "auto" ELSE "none"
    /\ mysql' = [vio |-> alive, inTrans |-> FALSE,
                 reconnect |-> CharsetVerdict(cs, first, again),
                 charset |-> IF first \/ again THEN cs ELSE NoCharset]

-----------------------------------------------------------------------------
(* A command on its way.                                                   *)

Sent(op, arg) ==
  /\ call' = [Idle EXCEPT !.op = op, !.arg = arg, !.phase = "sent"]
  /\ fate' = IF op = "execSQL" THEN [fate EXCEPT ![arg] = "sent"] ELSE fate
  /\ UNCHANGED <<obj, errorCode, result, tx, handles, replaced, late, table, drops>>

Send(op, arg) ==
  /\ Ready /\ mysql # NULL
  /\ mysql.vio
  /\ Sent(op, arg)
  /\ UNCHANGED <<mysql, session, work>>

\* The library finds the session gone and opens another one, unless the last
\* answer of the server said that a transaction was open.
Reopen(op, arg) ==
  /\ Ready /\ mysql # NULL
  /\ session = "none" /\ mysql.reconnect /\ ~mysql.inTrans
  /\ mysql' = [mysql EXCEPT !.vio = TRUE]
  /\ session' = "auto" /\ work' = {}
  /\ Sent(op, arg)

\* A handle without a connection is refused by the library, which then forgets
\* the transaction.
Unusable(h) == { [h EXCEPT !.vio = FALSE], [h EXCEPT !.vio = FALSE, !.inTrans = FALSE] }

FailFast(op, arg) ==
  /\ Ready /\ mysql # NULL
  /\ session = "none"
  /\ mysql' \in Unusable(mysql)
  /\ Fail(op, arg, "lost")
  /\ UNCHANGED <<obj, handles, replaced, serverVars, drops>>

\* selectDB() alone tests mysql_; the library dereferences what the others pass.
NullHandle(op, arg) ==
  /\ Ready /\ mysql = NULL
  /\ IF op = "selectDB"
     THEN /\ Return(op, arg, FALSE, "0")
          /\ UNCHANGED <<memberVars, handles, replaced, serverVars, drops>>
     ELSE Crash

-----------------------------------------------------------------------------
(* The server.                                                             *)

Began == session = "began"

\* START TRANSACTION and CREATE DATABASE commit what is open before they begin.
Commits == {"START TRANSACTION", "COMMIT", "CREATE DATABASE"}

\* What the command in progress commits, now or late.
Committed ==
  IF Sql(call.op) \in Commits THEN work
  ELSE IF Sql(call.op) = "INSERT" /\ ~Began THEN {call.arg} ELSE {}

SessionAfter ==
  CASE call.op = "shutdown" -> "none"
    [] Sql(call.op) = "START TRANSACTION" -> "began"
    [] Sql(call.op) \in {"COMMIT", "CREATE DATABASE", "ROLLBACK"} -> "auto"
    [] OTHER -> session

\* An answer that is not an error says whether a transaction is open.
Answer(reply, inTrans) ==
  /\ call.phase = "sent" /\ session # "none"
  /\ call' = [call EXCEPT !.phase = "answered", !.reply = reply, !.inTrans = inTrans]
  /\ UNCHANGED <<memberVars, result, fate, tx, handles, replaced, late, drops>>

Execute ==
  /\ \E reply \in IF call.op = "querySQL" THEN {"ok", "no rows"} ELSE {"ok"} :
       Answer(reply, SessionAfter = "began")
  /\ session' = SessionAfter
  /\ table' = table \cup Committed
  /\ work' = IF SessionAfter # "began" \/ Sql(call.op) \in Commits THEN {}
             ELSE IF Sql(call.op) = "INSERT" THEN work \cup {call.arg} ELSE work

\* An error concerns the statement, or rolls the whole transaction back, or
\* comes after the commit that START TRANSACTION and CREATE DATABASE imply.
ServerRefuses ==
  /\ Answer("refused", mysql.inTrans)
  /\ \/ UNCHANGED <<session, work, table>>
     \/ session' = "auto" /\ work' = {} /\ table' = table
     \/ /\ Sql(call.op) \in Commits \ {"COMMIT"}
        /\ session' = "auto" /\ work' = {} /\ table' = table \cup work

\* The server may have read the command in progress when the link ends.
LinkDrop ==
  /\ session # "none" /\ drops < MaxDrops
  /\ drops' = drops + 1
  /\ EndSession
  /\ \/ late' = late
     \/ /\ call.phase = "sent" /\ Committed # {}
        /\ late' = late \cup {Committed}
  /\ UNCHANGED <<memberVars, callerVars, handles, replaced, table>>

CommitLate(g) ==
  /\ late' = late \ {g}
  /\ table' = table \cup g
  /\ UNCHANGED <<memberVars, callerVars, handles, replaced, session, work, drops>>

-----------------------------------------------------------------------------
(* The method returns.                                                     *)

Receive ==
  /\ call.phase = "answered" /\ call.reply \in {"ok", "refused"}
  /\ mysql' = [mysql EXCEPT !.inTrans = call.inTrans]
  /\ IF Failed(call.reply) THEN Fail(call.op, call.arg, "refused")
                           ELSE Succeed(call.op, call.arg)
  /\ UNCHANGED <<obj, handles, replaced, serverVars, drops>>

\* The read fails.  querySQL() may have come as far as mysql_store_result().
ReceiveNothing ==
  /\ call # Idle /\ session = "none"
  /\ mysql' \in Unusable(mysql)
  /\ Fail(call.op, call.arg, "lost")
  /\ UNCHANGED <<obj, handles, replaced, serverVars, drops>>

\* querySQL() hands a null MYSQL_RES to mysql_fetch_row(): the statement has no
\* result, or the link ended while the rows were on their way.
NullResult ==
  /\ call.op = "querySQL" /\ call.phase = "answered" /\ call.reply # "refused"
  /\ call.reply = "no rows" \/ session = "none"
  /\ Crash

-----------------------------------------------------------------------------

Init ==
  /\ obj = "none" /\ mysql = NULL /\ errorCode = "0"
  /\ call = Idle /\ result = NoResult
  /\ handles = 0 /\ replaced = 0 /\ drops = 0
  /\ session = "none" /\ work = {} /\ late = {} /\ table = {}
  /\ fate = [s \in Statement |-> "fresh"]
  /\ tx = NoTx

Lifecycle ==
  \/ Construct \/ Close \/ Destroy
  \/ \E cs \in Charset \cup {NoCharset} : ConnectFails(cs) \/ ConnectReaches(cs)

Issue ==
  \E op \in Method : \E arg \in Arguments(op) :
    Send(op, arg) \/ Reopen(op, arg) \/ FailFast(op, arg) \/ NullHandle(op, arg)

Server == Execute \/ ServerRefuses \/ LinkDrop \/ \E g \in late : CommitLate(g)

Next == Lifecycle \/ Issue \/ Server \/ Receive \/ ReceiveNothing \/ NullResult

Spec == Init /\ [][Next]_vars

-----------------------------------------------------------------------------
(* What the class promises.                                                *)

Call ==
  [op : Method \cup {"idle"}, arg : Statement \cup Charset \cup {NoArg},
   phase : {"idle", "sent", "answered"}, reply : {"none", "ok", "no rows", "refused"},
   inTrans : BOOLEAN]

\* Type invariant: no handle is closed twice, and members, session and call
\* have the values their declarations allow.
TypeOK ==
  /\ obj \in {"none", "live", "crashed"}
  /\ mysql = NULL \/ mysql \in Handle
  /\ errorCode \in {"0", "refused", "lost"}
  /\ call \in Call
  /\ result \in [op : Method \cup {"none", "connect", "close"}, ret : BOOLEAN,
                 charset : Charset \cup {NoCharset}]
  /\ handles \in 0 .. MaxHandles /\ replaced \in 0 .. MaxHandles
  /\ session \in {"none", "auto", "began"}
  /\ work \subseteq Statement /\ late \subseteq SUBSET Statement
  /\ table \subseteq Statement
  /\ fate \in [Statement -> {"fresh", "sent", "pending", "stored", "refused", "lost"}]
  /\ tx \in [open : BOOLEAN, clean : BOOLEAN, done : SUBSET Statement]
  /\ drops \in 0 .. MaxDrops

\* The statements confirmed between startTransaction() and the first failure
\* are committed together or not at all, and not before commit() is called,
\* although links end, commits are carried out late, and the library reconnects
\* without a word.
AllOrNothing ==
  /\ tx.done \subseteq table \/ tx.done \cap table = {}
  /\ tx.open /\ tx.clean /\ Sql(call.op) \notin Commits => tx.done \cap table = {}

\* A caller none of whose calls has failed since startTransaction() can rely on
\* commit() and rollback() that return true.
TransactionVerdict ==
  call = Idle /\ result.ret /\ tx.clean =>
    /\ result.op = "commit" => tx.done \subseteq table
    /\ result.op = "rollback" => tx.done \cap table = {}

\* execSQL() that succeeds outside a transaction has stored its statement, on
\* whatever session it was carried out.
AutocommitIsDurable == \A s \in Statement : fate[s] = "stored" => s \in table

\* errorCode() tells a refusal from a lost connection: a statement that was
\* refused is not stored and never will be; one that was lost may be.
RefusalIsFinal ==
  \A s \in Statement : fate[s] = "refused" => s \notin table \cup work \cup UNION late

\* Handles leak only where connect() is called on an object that has one; a
\* failed connect(), close() and the destructor leak none and close none twice.
LeaksAreReplaced == handles = replaced + IF mysql = NULL THEN 0 ELSE 1

\* errorCode() is 0 exactly after a success.  querySQL() leaves an old code
\* behind when it succeeds, selectDB() when there is no handle.
VerdictMatchesCode ==
  call = Idle /\ result.op \in Method =>
    /\ result.ret /\ result.op # "querySQL" => errorCode = "0"
    /\ ~result.ret /\ result.op # "selectDB" => errorCode # "0"

-----------------------------------------------------------------------------
(* What the header says and the code does not do.                          *)

\* connect() returns true for ok: the connection then uses the character set
\* it was given.
CharsetIsUsed == result.op = "connect" /\ result.ret => mysql.charset = result.charset
=============================================================================
