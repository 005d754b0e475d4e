----------------------------- MODULE RedisClient ------------------------------
(***************************************************************************)
(* One RedisClient object, the hiredis contexts it allocates, and the      *)
(* servers they lead to.  The object is used by one thread: a call is in   *)
(* progress from the moment the command is written to the socket until the *)
(* method returns, and the network and the servers move in between.        *)
(***************************************************************************)
EXTENDS RedisReply

CONSTANTS
  Endpoint,        \* (host, port) pairs where a server may listen
  NoEndpoint,      \* host_ = "" and port_ = 0 of the default constructor
  Context,         \* the addresses a redisContext may have
  NULL,            \* the null redisContext pointer
  Password,        \* the passwords a caller may give to auth()
  NoPassword,      \* password_ = "", and a server without requirepass
  RequirePass,     \* the password each server requires
  FreeNullCrashes  \* whether freeReplyObject(NULL) may crash in this hiredis

ASSUME ConstantsAssumption ==
  /\ NoEndpoint \notin Endpoint
  /\ NULL \notin Context
  /\ NoPassword \notin Password
  /\ RequirePass \in [Endpoint -> Password \cup {NoPassword}]
  /\ FreeNullCrashes \in BOOLEAN

VARIABLES
  obj,         \* "none", "live", or "crashed" with the whole process
  rdsContext, connected, error, host, password,   \* the members of the object
  call,        \* the method in progress, Idle when there is none
  result,      \* what the last method returned
  allocated,   \* contexts allocated and not yet freed
  peer,        \* the endpoint each allocated context was connected to
  broken,      \* contexts whose err field is set
  up,          \* endpoints whose server accepts connections
  session,     \* contexts whose TCP connection still exists
  authed       \* contexts whose session the server has authenticated

clientVars == <<obj, rdsContext, connected, error, host, password>>
callVars   == <<call, result>>
heapVars   == <<allocated, peer, broken>>
serverVars == <<up, session, authed>>
vars == <<clientVars, callVars, heapVars, serverVars>>

-----------------------------------------------------------------------------
(* The methods that send a command.                                        *)

\* mset() sends through execCmdBool and drops its verdict.
Method == {"auth", "ping", "execCmdBool", "execCmdInteger", "execCmdString",
           "mset", "incrbyfloat", "redisCmd"}

Idle == [op |-> "idle", arg |-> NoPassword, phase |-> "idle", reply |-> NullReply]

\* The condition under which a method goes on to use rdsContext_.
PassesGuard(op) ==
  CASE op = "auth"                      -> connected
    [] op \in {"incrbyfloat", "redisCmd"} -> TRUE
    [] OTHER                            -> connected /\ rdsContext # NULL

\* What the method returns for a reply; redisCmd() returns the pointer.
Verdict(op, r) ==
  CASE op = "execCmdBool" -> BoolResult(r)
    [] op = "mset"        -> TRUE
    [] op = "redisCmd"    -> r.type # "NULL"
    [] OTHER              -> PlainResult(r)

\* auth() and ping() test the reply before they free it, redisCmd() leaves it
\* to the caller, and the others free whatever they got.
FreesNull(op, r) == r.type = "NULL" /\ op \notin {"auth", "ping", "redisCmd"}

\* The texts a server may send, and those errorMsg_ may hold.
ServerText == {"OK", "PONG", "str", "server error", "no password is set",
               "invalid password", "NOAUTH"}
Text == ServerText \cup DescText \cup {NoStr, "", "connect error"}

\* The replies a server may give.  The text and the integers of a data reply
\* do not matter here, only whether execCmdBool takes them for success.
DataReply == {StatusReply("OK"), StringReply("str"), NilReply, ArrayReply(<<>>),
              IntegerReply(0), IntegerReply(1), ErrorReply("server error")}

OwnReplies(op) ==
  CASE op = "ping"        -> {StatusReply("PONG")}
    [] op = "mset"        -> {StatusReply("OK"), ErrorReply("server error")}
    [] op = "incrbyfloat" -> {StringReply("str"), ErrorReply("server error")}
    [] OTHER              -> DataReply

AuthReply(arg, required) ==
  IF required = NoPassword THEN ErrorReply("no password is set")
  ELSE IF arg = required THEN StatusReply("OK") ELSE ErrorReply("invalid password")

ReplyTo(op, arg, x) ==
  LET required == RequirePass[peer[x]] IN
  IF op = "auth" THEN {AuthReply(arg, required)}
  ELSE IF required # NoPassword /\ x \notin authed THEN {ErrorReply("NOAUTH")}
  ELSE OwnReplies(op)

-----------------------------------------------------------------------------

\* What a method returned, and whether the server had carried its command out.
Result == [op : Method \cup {"none", "connect", "disConnect"},
           ret : BOOLEAN, applied : BOOLEAN]

NoResult == [op |-> "none", ret |-> FALSE, applied |-> FALSE]

Return(op, ret, applied) ==
  result' = [op |-> op, ret |-> ret, applied |-> applied]

Call == [op : Method, arg : Password \cup {NoPassword},
         phase : {"sent", "answered"}, reply : Reply(Text)]

\* Type invariant: the object's members, the call in progress and the
\* contexts keep the values their C++ declarations allow.
TypeOK ==
  /\ obj \in {"none", "live", "crashed"}
  /\ rdsContext \in Context \cup {NULL}
  /\ connected \in BOOLEAN
  /\ error \in Error(Text)
  /\ host \in Endpoint \cup {NoEndpoint}
  /\ password \in Password \cup {NoPassword}
  /\ call \in Call \cup {Idle}
  /\ result \in Result
  /\ allocated \subseteq Context
  /\ peer \in [Context -> Endpoint \cup {NoEndpoint}]
  /\ broken \subseteq allocated
  /\ up \subseteq Endpoint
  /\ session \subseteq allocated
  /\ authed \subseteq allocated

NoError == [code |-> "REDIS_NO_ERROR", msg |-> ""]

Init ==
  /\ obj = "none"
  /\ rdsContext = NULL /\ connected = FALSE
  /\ error = NoError
  /\ host = NoEndpoint /\ password = NoPassword
  /\ call = Idle /\ result = NoResult
  /\ allocated = {} /\ broken = {} /\ session = {} /\ authed = {}
  /\ peer = [x \in Context |-> NoEndpoint]
  /\ up \in SUBSET Endpoint

\* The members are gone: the values the next constructor starts from.
Gone ==
  /\ rdsContext' = NULL /\ connected' = FALSE
  /\ error' = NoError
  /\ host' = NoEndpoint /\ password' = NoPassword
  /\ call' = Idle /\ result' = NoResult

-----------------------------------------------------------------------------
(* Connecting and disconnecting.                                           *)

\* Mutant: the freed context's err survives in what is allocated next.
KeepOnly_StaleErr(xs) ==
  /\ allocated' = allocated \cap xs
  /\ broken' = broken
  /\ session' = session \cap xs
  /\ authed' = authed \cap xs
  /\ peer' = [x \in Context |-> IF x \in xs THEN peer[x] ELSE NoEndpoint]

\* redisFree() of the contexts outside xs: memory and socket go together.
KeepOnly(xs) ==
  /\ allocated' = allocated \cap xs
  /\ broken' = broken \cap xs
  /\ session' = session \cap xs
  /\ authed' = authed \cap xs
  /\ peer' = [x \in Context |-> IF x \in xs THEN peer[x] ELSE NoEndpoint]

\* redisConnectWithTimeout() reached the server at ep: a new context x beside
\* those in kept.
Allocate(x, kept, ep) ==
  /\ allocated' = kept \cup {x}
  /\ peer' = [y \in Context |-> IF y = x THEN ep
                               ELSE IF y \in kept THEN peer[y] ELSE NoEndpoint]
  /\ broken' = broken \cap kept
  /\ session' = (session \cap kept) \cup {x}
  /\ authed' = authed \cap kept

\* Mutant: connect() on a connected object only overwrites rdsContext_.
Released_Overwritten == {}

\* What connect() releases first: it calls disConnect() if connected_.
Released == IF connected THEN {rdsContext} ELSE {}

\* connect(ip, port, timeoutMs), with (ip, port) = ep, on the members as they
\* are.  A usable context is stored; on failure, which is no memory or a
\* context with err set that is freed again, the object stays unconnected.
ConnectTo(ep) ==
  LET kept == allocated \ Released IN
  \/ \E x \in Context \ kept :
       /\ ep \in up
       /\ rdsContext' = x /\ connected' = TRUE
       /\ error' = SetError("REDIS_NO_ERROR")
       /\ Allocate(x, kept, ep)
       /\ Return("connect", TRUE, FALSE)
  \/ /\ rdsContext' = IF connected THEN NULL ELSE rdsContext
     /\ connected' = FALSE
     /\ error' \in {SetError("REDIS_REPLY_NULL"), Refusal("connect error")}
     /\ KeepOnly(kept)
     /\ Return("connect", FALSE, FALSE)

DefaultConstruct ==
  /\ obj = "none"
  /\ obj' = "live"
  /\ UNCHANGED <<rdsContext, connected, error, host, password,
                 callVars, heapVars, serverVars>>

\* The other constructor stores the address in host_ and port_ and connects.
Construct(ep) ==
  /\ obj = "none"
  /\ obj' = "live"
  /\ host' = ep
  /\ ConnectTo(ep)
  /\ UNCHANGED <<password, call, up>>

\* The object is there and its thread is outside its methods.
Ready == obj = "live" /\ call = Idle

Connect(ep) ==
  /\ Ready
  /\ ConnectTo(ep)
  /\ UNCHANGED <<obj, host, password, call, up>>

Reconnect == Connect(host)

\* Mutant: disConnect() frees the context and leaves the pointer dangling.
DisConnect_Dangling ==
  /\ Ready
  /\ connected' = FALSE /\ rdsContext' = rdsContext
  /\ KeepOnly(allocated \ {rdsContext})
  /\ Return("disConnect", TRUE, FALSE)
  /\ UNCHANGED <<obj, error, host, password, call, up>>

DisConnect ==
  /\ Ready
  /\ connected' = FALSE /\ rdsContext' = NULL
  /\ KeepOnly(allocated \ {rdsContext})
  /\ Return("disConnect", TRUE, FALSE)
  /\ UNCHANGED <<obj, error, host, password, call, up>>

\* The destructor calls disConnect(), and the members are gone.
Destroy ==
  /\ Ready
  /\ obj' = "none"
  /\ Gone
  /\ KeepOnly(allocated \ {rdsContext})
  /\ up' = up

-----------------------------------------------------------------------------
(* Sending a command and returning its verdict.                            *)

\* The process dies on a null dereference; the kernel closes its sockets.
Crash ==
  /\ obj' = "crashed"
  /\ Gone
  /\ KeepOnly({})
  /\ up' = up

\* The end of a method once redisCommand() has returned r: getError(),
\* freeReplyObject() and the verdict.
Finish(op, r, applied) ==
  /\ Return(op, Verdict(op, r), applied)
  /\ error' = IF op = "redisCmd" THEN error ELSE ReplyError(r)
  /\ call' = Idle
  /\ UNCHANGED <<obj, rdsContext, connected, host, allocated, peer, serverVars>>

CrashOnFree(op, r) == FreeNullCrashes /\ FreesNull(op, r) /\ Crash

\* auth() stores the password before it knows whether the server takes it.
StorePassword(op, pw) == password' = IF op = "auth" THEN pw ELSE password

\* Mutant: the macro returns before it sets errorCode_.
Refuse_NoCode(op) ==
  /\ Ready /\ ~PassesGuard(op)
  /\ error' = SetError("REDIS_NO_ERROR")
  /\ Return(op, op = "mset", FALSE)
  /\ UNCHANGED <<obj, rdsContext, connected, host, password, call,
                 heapVars, serverVars>>

\* JUST_RETUAN_IF_ERROR(!connected_ || !rdsContext_, ...).
Refuse(op) ==
  /\ Ready /\ ~PassesGuard(op)
  /\ error' = Refusal(kErrorDesc["REDIS_NO_CONNECT"])
  /\ Return(op, op = "mset", FALSE)
  /\ UNCHANGED <<obj, rdsContext, connected, host, password, call,
                 heapVars, serverVars>>

\* The command goes out on a context that has seen no error yet.
Send(op, pw) ==
  /\ Ready /\ PassesGuard(op)
  /\ rdsContext \in allocated \ broken
  /\ call' = [op |-> op, arg |-> pw, phase |-> "sent", reply |-> NullReply]
  /\ error' = IF op = "redisCmd" THEN error ELSE SetError("REDIS_NO_ERROR")
  /\ StorePassword(op, pw)
  /\ UNCHANGED <<obj, rdsContext, connected, host, result, heapVars, serverVars>>

\* hiredis refuses a context whose err is set: redisCommand() returns NULL.
FailFast(op, pw) ==
  /\ Ready /\ PassesGuard(op)
  /\ rdsContext \in broken
  /\ \/ Finish(op, NullReply, FALSE) /\ StorePassword(op, pw) /\ broken' = broken
     \/ CrashOnFree(op, NullReply)

\* incrbyfloat() and redisCmd() hand a null context to hiredis.
NullContext(op) ==
  /\ Ready /\ PassesGuard(op)
  /\ rdsContext = NULL
  /\ Crash

\* redisCommand() reads the reply, which may sit in the socket buffer even
\* when the connection is gone by now.
Receive ==
  /\ call.phase = "answered"
  /\ Finish(call.op, call.reply, call.reply.type # "ERROR")
  /\ UNCHANGED <<password, broken>>

\* Mutant: the end of the connection wakes the reader only behind a reply.
ReceiveNothing_Unwoken ==
  /\ call.phase = "answered"
  /\ rdsContext \notin session
  /\ Finish(call.op, NullReply, call.reply.type # "ERROR")
  /\ broken' = broken \cup {rdsContext}
  /\ password' = password

\* redisCommand() meets the end of the connection: err is set, NULL comes back,
\* whether or not the server has carried the command out.
ReceiveNothing ==
  /\ call # Idle
  /\ rdsContext \notin session
  /\ \/ /\ Finish(call.op, NullReply,
                call.phase = "answered" /\ call.reply.type # "ERROR")
        /\ broken' = broken \cup {rdsContext}
        /\ password' = password
     \/ CrashOnFree(call.op, NullReply)

-----------------------------------------------------------------------------
(* The servers and the network.                                            *)

\* Some server versions forget an authenticated session when a later AUTH is
\* wrong, others keep it.
AuthedAfter(r) ==
  CASE call.op # "auth"    -> {authed}
    [] call.op = "auth" /\ r.type = "STATUS" -> {authed \cup {rdsContext}}
    [] OTHER               -> {authed, authed \ {rdsContext}}

\* The server carries the command out and writes the reply.
Answer ==
  /\ call.phase = "sent"
  /\ rdsContext \in session
  /\ \E r \in ReplyTo(call.op, call.arg, rdsContext) :
       /\ call' = [call EXCEPT !.phase = "answered", !.reply = r]
       /\ authed' \in AuthedAfter(r)
  /\ UNCHANGED <<clientVars, result, heapVars, up, session>>

LinkDrop(x) ==
  /\ x \in session
  /\ session' = session \ {x}
  /\ UNCHANGED <<clientVars, callVars, heapVars, up, authed>>

ServerDown(ep) ==
  /\ ep \in up
  /\ up' = up \ {ep}
  /\ session' = {x \in session : peer[x] # ep}
  /\ UNCHANGED <<clientVars, callVars, heapVars, authed>>

ServerUp(ep) ==
  /\ ep \in Endpoint \ up
  /\ up' = up \cup {ep}
  /\ UNCHANGED <<clientVars, callVars, heapVars, session, authed>>

Restart ==
  /\ obj = "crashed"
  /\ obj' = "none"
  /\ UNCHANGED <<rdsContext, connected, error, host, password,
                 callVars, heapVars, serverVars>>

-----------------------------------------------------------------------------

Arguments(op) == IF op = "auth" THEN Password ELSE {NoPassword}

Lifecycle ==
  \/ DefaultConstruct \/ Reconnect \/ DisConnect \/ Destroy \/ Restart
  \/ \E ep \in Endpoint : Construct(ep) \/ Connect(ep)

Issue == \E op \in Method :
  \/ Refuse(op) \/ NullContext(op)
  \/ \E pw \in Arguments(op) : Send(op, pw) \/ FailFast(op, pw)

Network ==
  \/ \E x \in Context : LinkDrop(x)
  \/ \E ep \in Endpoint : ServerDown(ep) \/ ServerUp(ep)

Next == Lifecycle \/ Issue \/ Answer \/ Receive \/ ReceiveNothing \/ Network

Spec == Init /\ [][Next]_vars

\* A server answers the command it has read, and the thread inside
\* redisCommand() runs; callers and failures are never forced.
FairSpec == Spec /\ WF_vars(Answer) /\ WF_vars(Receive) /\ WF_vars(ReceiveNothing)

-----------------------------------------------------------------------------
(* What the class promises, and what it does not.                          *)

\* disConnect(), connect() and the destructor keep connected_ and rdsContext_
\* in step, so a guard that tests only one of them tests both.
ConnectedIffContext == connected <=> rdsContext # NULL

\* No context leaks and none is used after redisFree(): the object's own is
\* the only one allocated, and it outlives the call that uses it.
ContextOwnership ==
  /\ allocated = {rdsContext} \ {NULL}
  /\ call # Idle => rdsContext \in allocated

\* Methods whose verdict is the verdict of getError().
Judged == {"auth", "ping", "execCmdInteger", "execCmdString", "incrbyfloat", "connect"}

\* getErrorCode() explains the last verdict: success leaves REDIS_NO_ERROR and
\* failure another code.  execCmdBool has only the first half.
VerdictMatchesError ==
  call = Idle =>
    /\ result.op \in Judged => (result.ret <=> ~Failed(error))
    /\ result.op = "execCmdBool" /\ result.ret => ~Failed(error)

\* A command that returns true was carried out by the server of the current
\* context, on a session that had shown the password the server requires: no
\* lost reply, dead socket or refused session is ever reported as success.
SuccessIsGenuine ==
  call = Idle /\ result.ret /\ result.op \in Method \ {"mset", "redisCmd"} =>
    /\ result.applied
    /\ rdsContext \in allocated \ broken
    /\ RequirePass[peer[rdsContext]] # NoPassword => rdsContext \in authed

\* A context whose err is set stays unusable, whatever is called on it, until
\* connect(), disConnect() or the end of the object frees it: no command is
\* sent on it again and none succeeds.
StaysBroken ==
  \A x \in broken :
    /\ x \in broken' \/ result'.op \in {"connect", "disConnect", "none"}
    /\ call' = Idle
    /\ result' # result =>
         ~result'.ret \/ result'.op \in {"mset", "connect", "disConnect"}

BrokenStaysBroken == [][StaysBroken]_vars

\* Every method returns, or takes the process down, as long as servers answer:
\* a reply or the end of the connection ends redisCommand().
CallReturns == call # Idle ~> call = Idle
=============================================================================
