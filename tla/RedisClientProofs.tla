--------------------------- MODULE RedisClientProofs ---------------------------
(***************************************************************************)
(* Proofs about RedisClient, for every set of servers, contexts and        *)
(* passwords and for both behaviours of freeReplyObject(NULL).             *)
(***************************************************************************)
EXTENDS RedisClient, TLAPS

\* SET_ERROR stores a code of the enumeration and its text.
LEMMA SetErrorType ==
  ASSUME NEW c \in ErrorCode
  PROVE  SetError(c) \in Error(Text)
BY DEF SetError, Error, Text, DescText

\* JUST_RETUAN_IF_ERROR stores REDIS_ERROR and the text it is given.
LEMMA RefusalType ==
  ASSUME NEW m \in Text
  PROVE  Refusal(m) \in Error(Text)
BY DEF Refusal, Error, ErrorCode

LEMMA ReplyErrorType ==
  ASSUME NEW r \in Reply(Text)
  PROVE  ReplyError(r) \in Error(Text)
BY SetErrorType DEF ReplyError, Reply, Error, ErrorCode

LEMMA TextReplyType ==
  ASSUME NEW t \in ReplyType, NEW s \in Text
  PROVE  TextReply(t, s) \in Reply(Text)
BY DEF TextReply, Reply

LEMMA NullReplyType == NullReply \in Reply(Text)
BY TextReplyType DEF NullReply, ReplyType, Text

\* Whatever a server answers is a reply.
LEMMA ReplyToType ==
  ASSUME NEW op, NEW arg, NEW x
  PROVE  ReplyTo(op, arg, x) \subseteq Reply(Text)
<1>1. \A s \in ServerText : StatusReply(s) \in Reply(Text)
                            /\ ErrorReply(s) \in Reply(Text)
                            /\ StringReply(s) \in Reply(Text)
  BY TextReplyType DEF StatusReply, ErrorReply, StringReply, ReplyType, Text
<1>2. NilReply \in Reply(Text)
  BY TextReplyType DEF NilReply, ReplyType, Text
<1>3. \A n \in Int : IntegerReply(n) \in Reply(Text)
  BY TextReplyType DEF IntegerReply, TextReply, Reply, ReplyType, Text
<1>4. ArrayReply(<<>>) \in Reply(Text)
  BY TextReplyType DEF ArrayReply, TextReply, Reply, ReplyType, Text
<1>5. DataReply \subseteq Reply(Text)
  <2>1. IntegerReply(0) \in Reply(Text) /\ IntegerReply(1) \in Reply(Text)
    BY <1>3
  <2>2. {"OK", "str", "server error"} \subseteq ServerText
    BY DEF ServerText
  <2> QED
    BY <1>1, <1>2, <1>4, <2>1, <2>2 DEF DataReply
<1> QED
  BY <1>1, <1>5 DEF ReplyTo, AuthReply, OwnReplies, ServerText

-----------------------------------------------------------------------------
(* The inductive invariant: types, the pointer and the flag in step, the   *)
(* one context owned, and nothing left behind by an object that is gone.   *)

GoneInv == obj # "live" => rdsContext = NULL /\ call = Idle

IInv == TypeOK /\ ConnectedIffContext /\ ContextOwnership /\ GoneInv

LEMMA ConstantTypes ==
  /\ NoError \in Error(Text)
  /\ NoResult \in Result
  /\ Idle.op # "auth"
BY DEF NoError, Error, Text, ErrorCode, NoResult, Result, Idle

LEMMA InitIInv == Init => IInv
<1> SUFFICES ASSUME Init PROVE IInv
  OBVIOUS
<1>1. TypeOK
  BY ConstantTypes DEF Init, TypeOK
<1>2. ConnectedIffContext
  BY Zenon DEF Init, ConnectedIffContext
<1>3. ContextOwnership /\ GoneInv
  BY DEF Init, ContextOwnership, GoneInv
<1> QED
  BY <1>1, <1>2, <1>3 DEF IInv

-----------------------------------------------------------------------------
(* What the parts of an action do to the types.                            *)

LEMMA VerdictType ==
  ASSUME NEW op, NEW r
  PROVE  Verdict(op, r) \in BOOLEAN
BY DEF Verdict, BoolResult, PlainResult, Failed

LEMMA ReturnType ==
  ASSUME NEW op \in Method \cup {"none", "connect", "disConnect"},
         NEW ret \in BOOLEAN, NEW applied \in BOOLEAN, Return(op, ret, applied)
  PROVE  result' \in Result
BY DEF Return, Result

\* Without a context in use connect() leaves nothing allocated beside the new one.
LEMMA NothingKept ==
  ASSUME IInv
  PROVE  allocated \ Released = {}
<1>1. CASE connected
  BY <1>1 DEF IInv, ContextOwnership, Released
<1>2. CASE ~connected
  BY <1>2 DEF IInv, ConnectedIffContext, ContextOwnership, Released
<1> QED
  BY <1>1, <1>2

LEMMA KeepNothing ==
  ASSUME TypeOK, NEW xs, allocated \cap xs = {}, KeepOnly(xs)
  PROVE  /\ allocated' = {} /\ broken' = {} /\ session' = {} /\ authed' = {}
         /\ peer' \in [Context -> Endpoint \cup {NoEndpoint}]
BY DEF TypeOK, KeepOnly

LEMMA FinishTypes ==
  ASSUME IInv, NEW op \in Method, NEW r \in Reply(Text), NEW applied \in BOOLEAN,
         Finish(op, r, applied)
  PROVE  error' \in Error(Text) /\ result' \in Result
<1>1. Verdict(op, r) \in BOOLEAN
  BY VerdictType
<1>2. result' \in Result
  BY <1>1, ReturnType DEF Finish
<1>3. error' \in Error(Text)
  BY ReplyErrorType DEF Finish, IInv, TypeOK
<1> QED
  BY <1>2, <1>3

LEMMA CrashStep ==
  ASSUME IInv, Crash
  PROVE  IInv'
<1>1. /\ allocated' = {} /\ broken' = {} /\ session' = {} /\ authed' = {}
      /\ peer' \in [Context -> Endpoint \cup {NoEndpoint}]
  BY KeepNothing DEF Crash, IInv
<1>2. TypeOK'
  BY <1>1, ConstantTypes DEF Crash, Gone, IInv, TypeOK
<1>3. ConnectedIffContext'
  BY Zenon DEF Crash, Gone, ConnectedIffContext
<1>4. ContextOwnership' /\ GoneInv'
  BY <1>1 DEF Crash, Gone, ContextOwnership, GoneInv
<1> QED
  BY <1>2, <1>3, <1>4 DEF IInv

\* connect() and the constructor that calls it.
LEMMA ConnectToStep ==
  ASSUME IInv, call = Idle, NEW ep \in Endpoint \cup {NoEndpoint}, ConnectTo(ep),
         obj' = "live", host' \in Endpoint \cup {NoEndpoint},
         UNCHANGED <<password, call, up>>
  PROVE  IInv'
<1> DEFINE kept == allocated \ Released
<1>0. kept = {}
  BY NothingKept
<1> HIDE DEF kept
<1>1. ASSUME NEW x \in Context \ kept,
             ep \in up, rdsContext' = x, connected' = TRUE,
             error' = SetError("REDIS_NO_ERROR"), Allocate(x, kept, ep),
             Return("connect", TRUE, FALSE)
      PROVE  IInv'
  <2>1. /\ allocated' = {x} /\ broken' = {} /\ session' = {x} /\ authed' = {}
        /\ peer' \in [Context -> Endpoint \cup {NoEndpoint}]
    BY <1>0, <1>1 DEF Allocate, IInv, TypeOK
  <2>2. result' \in Result
    BY <1>1, ReturnType
  <2>3. error' \in Error(Text)
    BY <1>1, SetErrorType DEF ErrorCode
  <2>4. TypeOK'
    BY <1>1, <2>1, <2>2, <2>3 DEF IInv, TypeOK
  <2>5. x # NULL
    BY ConstantsAssumption
  <2>6. ConnectedIffContext'
    BY <1>1, <2>5, Zenon DEF ConnectedIffContext
  <2>7. ContextOwnership' /\ GoneInv'
    BY <1>1, <2>1, <2>5 DEF ContextOwnership, GoneInv
  <2> QED
    BY <2>4, <2>6, <2>7 DEF IInv
<1>2. ASSUME rdsContext' = IF connected THEN NULL ELSE rdsContext,
             connected' = FALSE,
             error' \in {SetError("REDIS_REPLY_NULL"), Refusal("connect error")},
             KeepOnly(kept), Return("connect", FALSE, FALSE)
      PROVE  IInv'
  <2>1. /\ allocated' = {} /\ broken' = {} /\ session' = {} /\ authed' = {}
        /\ peer' \in [Context -> Endpoint \cup {NoEndpoint}]
    BY <1>0, <1>2, KeepNothing DEF IInv
  <2>2. result' \in Result
    BY <1>2, ReturnType
  <2>3. error' \in Error(Text)
    BY <1>2, SetErrorType, RefusalType DEF ErrorCode, Text
  <2>4. rdsContext' = NULL
    BY <1>2 DEF IInv, ConnectedIffContext
  <2>5. TypeOK'
    BY <1>2, <2>1, <2>2, <2>3, <2>4 DEF IInv, TypeOK
  <2>6. ConnectedIffContext'
    BY <1>2, <2>4, Zenon DEF ConnectedIffContext
  <2>7. ContextOwnership' /\ GoneInv'
    BY <2>1, <2>4 DEF ContextOwnership, GoneInv
  <2> QED
    BY <2>5, <2>6, <2>7 DEF IInv
<1> QED
  BY <1>1, <1>2 DEF ConnectTo, kept

\* disConnect() and the destructor free the object's context.
LEMMA FreeOwn ==
  ASSUME IInv, KeepOnly(allocated \ {rdsContext})
  PROVE  /\ allocated' = {} /\ broken' = {} /\ session' = {} /\ authed' = {}
         /\ peer' \in [Context -> Endpoint \cup {NoEndpoint}]
<1>1. allocated \cap (allocated \ {rdsContext}) = {}
  BY DEF IInv, ContextOwnership
<1> QED
  BY <1>1, KeepNothing DEF IInv

LEMMA DisConnectStep ==
  ASSUME IInv, DisConnect
  PROVE  IInv'
<1>1. /\ allocated' = {} /\ broken' = {} /\ session' = {} /\ authed' = {}
      /\ peer' \in [Context -> Endpoint \cup {NoEndpoint}]
  BY FreeOwn DEF DisConnect
<1>2. result' \in Result
  BY ReturnType DEF DisConnect
<1>3. TypeOK'
  BY <1>1, <1>2 DEF DisConnect, IInv, TypeOK
<1>4. ConnectedIffContext'
  BY Zenon DEF DisConnect, ConnectedIffContext
<1>5. ContextOwnership' /\ GoneInv'
  BY <1>1 DEF DisConnect, Ready, ContextOwnership, GoneInv
<1> QED
  BY <1>3, <1>4, <1>5 DEF IInv

LEMMA DestroyStep ==
  ASSUME IInv, Destroy
  PROVE  IInv'
<1>1. /\ allocated' = {} /\ broken' = {} /\ session' = {} /\ authed' = {}
      /\ peer' \in [Context -> Endpoint \cup {NoEndpoint}]
  BY FreeOwn DEF Destroy
<1>2. TypeOK'
  BY <1>1, ConstantTypes DEF Destroy, Gone, IInv, TypeOK
<1>3. ConnectedIffContext'
  BY Zenon DEF Destroy, Gone, ConnectedIffContext
<1>4. ContextOwnership' /\ GoneInv'
  BY <1>1 DEF Destroy, Gone, ContextOwnership, GoneInv
<1> QED
  BY <1>2, <1>3, <1>4 DEF IInv

LEMMA LifecycleStep ==
  ASSUME IInv, Lifecycle
  PROVE  IInv'
<1>1. CASE DefaultConstruct
  BY <1>1 DEF DefaultConstruct, IInv, TypeOK, ConnectedIffContext, ContextOwnership,
     GoneInv, callVars, heapVars, serverVars
<1>2. CASE Restart
  BY <1>2 DEF Restart, IInv, TypeOK, ConnectedIffContext, ContextOwnership,
     GoneInv, callVars, heapVars, serverVars
<1>3. CASE Reconnect
  <2>1. host \in Endpoint \cup {NoEndpoint} /\ host' = host
    BY <1>3 DEF Reconnect, Connect, IInv, TypeOK
  <2> QED
    BY <1>3, <2>1, ConnectToStep DEF Reconnect, Connect, Ready
<1>4. CASE DisConnect
  BY <1>4, DisConnectStep
<1>5. CASE Destroy
  BY <1>5, DestroyStep
<1>6. ASSUME NEW ep \in Endpoint, Construct(ep)
      PROVE  IInv'
  BY <1>6, ConnectToStep DEF Construct, IInv, GoneInv
<1>7. ASSUME NEW ep \in Endpoint, Connect(ep)
      PROVE  IInv'
  <2>1. host' \in Endpoint \cup {NoEndpoint}
    BY <1>7 DEF Connect, IInv, TypeOK
  <2> QED
    BY <1>7, <2>1, ConnectToStep DEF Connect, Ready
<1> QED
  BY <1>1, <1>2, <1>3, <1>4, <1>5, <1>6, <1>7 DEF Lifecycle

\* A method that returns: the contexts may only gain an err.
LEMMA FinishStep ==
  ASSUME IInv, NEW op \in Method, NEW r \in Reply(Text), NEW applied \in BOOLEAN,
         Finish(op, r, applied), obj = "live",
         password' \in Password \cup {NoPassword}, broken' \subseteq allocated
  PROVE  IInv'
<1>1. error' \in Error(Text) /\ result' \in Result
  BY FinishTypes
<1>2. TypeOK'
  BY <1>1 DEF Finish, serverVars, IInv, TypeOK
<1>3. ConnectedIffContext'
  BY Zenon DEF Finish, IInv, ConnectedIffContext
<1>4. ContextOwnership' /\ GoneInv'
  BY DEF Finish, IInv, ContextOwnership, GoneInv
<1> QED
  BY <1>2, <1>3, <1>4 DEF IInv

LEMMA RefuseStep ==
  ASSUME IInv, NEW op \in Method, Refuse(op)
  PROVE  IInv'
<1>1. error' \in Error(Text)
  BY RefusalType DEF Refuse, Text, DescText, ErrorCode
<1>2. result' \in Result
  BY ReturnType DEF Refuse
<1>3. TypeOK'
  BY <1>1, <1>2 DEF Refuse, heapVars, serverVars, IInv, TypeOK
<1>4. ConnectedIffContext'
  BY Zenon DEF Refuse, IInv, ConnectedIffContext
<1>5. ContextOwnership' /\ GoneInv'
  BY DEF Refuse, Ready, heapVars, IInv, ContextOwnership, GoneInv
<1> QED
  BY <1>3, <1>4, <1>5 DEF IInv

LEMMA SendStep ==
  ASSUME IInv, NEW op \in Method, NEW pw \in Password \cup {NoPassword}, Send(op, pw)
  PROVE  IInv'
<1>1. call' \in Call
  BY NullReplyType DEF Send, Call
<1>2. error' \in Error(Text)
  BY SetErrorType DEF Send, ErrorCode, IInv, TypeOK
<1>3. password' \in Password \cup {NoPassword}
  BY DEF Send, StorePassword, IInv, TypeOK
<1>4. TypeOK'
  BY <1>1, <1>2, <1>3 DEF Send, heapVars, serverVars, IInv, TypeOK
<1>5. ConnectedIffContext'
  BY Zenon DEF Send, IInv, ConnectedIffContext
<1>6. ContextOwnership' /\ GoneInv'
  BY DEF Send, Ready, heapVars, IInv, ContextOwnership, GoneInv
<1> QED
  BY <1>4, <1>5, <1>6 DEF IInv

LEMMA FailFastStep ==
  ASSUME IInv, NEW op \in Method, NEW pw \in Password \cup {NoPassword}, FailFast(op, pw)
  PROVE  IInv'
<1>1. CASE Finish(op, NullReply, FALSE) /\ StorePassword(op, pw) /\ broken' = broken
  <2>1. password' \in Password \cup {NoPassword}
    BY <1>1 DEF StorePassword, IInv, TypeOK
  <2>2. broken' \subseteq allocated
    BY <1>1 DEF IInv, TypeOK
  <2> QED
    BY <1>1, <2>1, <2>2, NullReplyType, FinishStep DEF FailFast, Ready
<1>2. CASE CrashOnFree(op, NullReply)
  BY <1>2, CrashStep DEF CrashOnFree
<1> QED
  BY <1>1, <1>2 DEF FailFast

LEMMA IssueStep ==
  ASSUME IInv, Issue
  PROVE  IInv'
<1>1. PICK op \in Method : \/ Refuse(op) \/ NullContext(op)
                           \/ \E pw \in Arguments(op) : Send(op, pw) \/ FailFast(op, pw)
  BY DEF Issue
<1>2. Arguments(op) \subseteq Password \cup {NoPassword}
  BY DEF Arguments
<1>3. CASE Refuse(op)
  BY <1>3, RefuseStep
<1>4. CASE NullContext(op)
  BY <1>4, CrashStep DEF NullContext
<1>5. ASSUME NEW pw \in Arguments(op), Send(op, pw) \/ FailFast(op, pw)
      PROVE  IInv'
  BY <1>2, <1>5, SendStep, FailFastStep
<1> QED
  BY <1>1, <1>3, <1>4, <1>5

-----------------------------------------------------------------------------
(* The ends of a call, and the steps of the servers and the network.       *)

\* A call in progress has a method, and its object is alive.
LEMMA InProgress ==
  ASSUME IInv, call # Idle
  PROVE  /\ call \in Call /\ call.op \in Method /\ call.reply \in Reply(Text)
         /\ obj = "live" /\ rdsContext \in allocated
BY DEF IInv, TypeOK, GoneInv, ContextOwnership, Call

LEMMA ReceiveStep ==
  ASSUME IInv, Receive
  PROVE  IInv'
<1>1. call # Idle
  BY DEF Receive, Idle
<1>2. password' \in Password \cup {NoPassword} /\ broken' \subseteq allocated
  BY DEF Receive, IInv, TypeOK
<1>3. (call.reply.type # "ERROR") \in BOOLEAN
  OBVIOUS
<1> QED
  BY <1>1, <1>2, <1>3, InProgress, FinishStep DEF Receive

LEMMA ReceiveNothingStep ==
  ASSUME IInv, ReceiveNothing
  PROVE  IInv'
<1> DEFINE applied == call.phase = "answered" /\ call.reply.type # "ERROR"
<1>1. call # Idle
  BY DEF ReceiveNothing
<1>2. CASE /\ Finish(call.op, NullReply, applied)
           /\ broken' = broken \cup {rdsContext}
           /\ password' = password
  <2>1. password' \in Password \cup {NoPassword} /\ broken' \subseteq allocated
    BY <1>1, <1>2, InProgress DEF IInv, TypeOK
  <2>2. applied \in BOOLEAN
    OBVIOUS
  <2> QED
    BY <1>1, <1>2, <2>1, <2>2, InProgress, NullReplyType, FinishStep
<1>3. CASE CrashOnFree(call.op, NullReply)
  BY <1>3, CrashStep DEF CrashOnFree
<1> QED
  BY <1>2, <1>3 DEF ReceiveNothing

LEMMA AnswerStep ==
  ASSUME IInv, Answer
  PROVE  IInv'
<1>1. call # Idle
  BY DEF Answer, Idle
<1>2. PICK r \in ReplyTo(call.op, call.arg, rdsContext) :
        /\ call' = [call EXCEPT !.phase = "answered", !.reply = r]
        /\ authed' \in AuthedAfter(r)
  BY DEF Answer
<1>3. r \in Reply(Text)
  BY <1>2, ReplyToType
<1>4. call' \in Call
  BY <1>1, <1>2, <1>3, InProgress DEF Call
<1>5. authed' \subseteq allocated
  BY <1>1, <1>2, InProgress DEF AuthedAfter, IInv, TypeOK
<1>6. TypeOK'
  BY <1>4, <1>5 DEF Answer, clientVars, heapVars, IInv, TypeOK
<1>7. ConnectedIffContext'
  BY Zenon DEF Answer, clientVars, IInv, ConnectedIffContext
<1>8. ContextOwnership' /\ GoneInv'
  BY <1>1, InProgress DEF Answer, clientVars, heapVars, IInv, ContextOwnership, GoneInv
<1> QED
  BY <1>6, <1>7, <1>8 DEF IInv

LEMMA NetworkStep ==
  ASSUME IInv, Network
  PROVE  IInv'
<1>1. /\ UNCHANGED <<clientVars, callVars, heapVars, authed>>
      /\ session' \subseteq session
      /\ up' \subseteq Endpoint
  BY DEF Network, LinkDrop, ServerDown, ServerUp, IInv, TypeOK
<1>2. TypeOK'
  BY <1>1 DEF clientVars, callVars, heapVars, IInv, TypeOK
<1>3. ConnectedIffContext'
  BY <1>1, Zenon DEF clientVars, IInv, ConnectedIffContext
<1>4. ContextOwnership' /\ GoneInv'
  BY <1>1 DEF clientVars, callVars, heapVars, IInv, ContextOwnership, GoneInv
<1> QED
  BY <1>2, <1>3, <1>4 DEF IInv

LEMMA StutterStep ==
  ASSUME IInv, UNCHANGED vars
  PROVE  IInv'
<1>1. TypeOK'
  BY DEF vars, clientVars, callVars, heapVars, serverVars, IInv, TypeOK
<1>2. ConnectedIffContext'
  BY Zenon DEF vars, clientVars, IInv, ConnectedIffContext
<1>3. ContextOwnership' /\ GoneInv'
  BY DEF vars, clientVars, callVars, heapVars, IInv, ContextOwnership, GoneInv
<1> QED
  BY <1>1, <1>2, <1>3 DEF IInv

LEMMA NextIInv == IInv /\ [Next]_vars => IInv'
<1> SUFFICES ASSUME IInv, [Next]_vars
             PROVE  IInv'
  OBVIOUS
<1>1. CASE Lifecycle
  BY <1>1, LifecycleStep
<1>2. CASE Issue
  BY <1>2, IssueStep
<1>3. CASE Answer
  BY <1>3, AnswerStep
<1>4. CASE Receive
  BY <1>4, ReceiveStep
<1>5. CASE ReceiveNothing
  BY <1>5, ReceiveNothingStep
<1>6. CASE Network
  BY <1>6, NetworkStep
<1>7. CASE UNCHANGED vars
  BY <1>7, StutterStep
<1> QED
  BY <1>1, <1>2, <1>3, <1>4, <1>5, <1>6, <1>7 DEF Next

LEMMA Inductive == Spec => []IInv
BY InitIInv, NextIInv, PTL DEF Spec

-----------------------------------------------------------------------------

\* The members, the call and the contexts of every client keep their types.
THEOREM TypeCorrect == Spec => []TypeOK
BY Inductive, PTL DEF IInv

\* connected_ and rdsContext_ never disagree between two calls or during one.
THEOREM FlagMatchesPointer == Spec => []ConnectedIffContext
BY Inductive, PTL DEF IInv

\* No client leaks a context, frees one twice, or uses one it has freed.
THEOREM NoLeakNoDangling == Spec => []ContextOwnership
BY Inductive, PTL DEF IInv

-----------------------------------------------------------------------------
(* Success is genuine.  The reply on its way already tells whether the     *)
(* session is authenticated, and a context in use has seen no error.       *)

AnswerGenuine ==
  call # Idle =>
    /\ rdsContext \notin broken
    /\ call.phase = "answered" =>
         /\ call.reply.type # "NULL"
         /\ call.reply.type # "ERROR" /\ RequirePass[peer[rdsContext]] # NoPassword
              => rdsContext \in authed

GInv == IInv /\ AnswerGenuine /\ SuccessIsGenuine

\* A reply that is null or an error is never a success.
LEMMA VerdictOfFailure ==
  ASSUME NEW op \in Method \ {"mset", "redisCmd"}, NEW r, r.type \in {"NULL", "ERROR"}
  PROVE  ~Verdict(op, r)
BY DEF Verdict, BoolResult, PlainResult, ReplyError, Failed, SetError

\* A call that ends without a reply ends without success.
LEMMA FinishWithout ==
  ASSUME NEW op \in Method, NEW applied, Finish(op, NullReply, applied)
  PROVE  AnswerGenuine' /\ SuccessIsGenuine'
<1>1. call' = Idle /\ result' = [op |-> op, ret |-> Verdict(op, NullReply), applied |-> applied]
  BY DEF Finish, Return
<1>2. op \notin {"mset", "redisCmd"} => ~Verdict(op, NullReply)
  BY VerdictOfFailure DEF NullReply, TextReply
<1> QED
  BY <1>1, <1>2 DEF AnswerGenuine, SuccessIsGenuine

\* After a step that leaves no call and no command result, nothing is claimed.
LEMMA NothingClaimed ==
  ASSUME call' = Idle, result'.op \notin Method \ {"mset", "redisCmd"} \/ ~result'.ret
  PROVE  AnswerGenuine' /\ SuccessIsGenuine'
BY DEF AnswerGenuine, SuccessIsGenuine

LEMMA LifecycleGenuine ==
  ASSUME GInv, Lifecycle
  PROVE  AnswerGenuine' /\ SuccessIsGenuine'
<1>1. ASSUME NEW ep, ConnectTo(ep) PROVE result'.op = "connect"
  <2>1. Return("connect", TRUE, FALSE) \/ Return("connect", FALSE, FALSE)
    BY <1>1, Zenon DEF ConnectTo
  <2> QED
    BY <2>1 DEF Return
<1>2. NoResult.op = "none" /\ {"none", "connect", "disConnect"} \cap Method = {}
  BY DEF NoResult, Method
<1>3. CASE DefaultConstruct \/ Restart
  BY <1>3 DEF DefaultConstruct, Restart, callVars, heapVars, serverVars, GInv,
     AnswerGenuine, SuccessIsGenuine
<1>4. CASE Reconnect
  BY <1>1, <1>2, <1>4, NothingClaimed DEF Reconnect, Connect, Ready
<1>5. CASE DisConnect
  BY <1>2, <1>5, NothingClaimed DEF DisConnect, Ready, Return
<1>6. CASE Destroy
  BY <1>2, <1>6, NothingClaimed DEF Destroy, Gone
<1>7. ASSUME NEW ep \in Endpoint, Construct(ep) \/ Connect(ep)
      PROVE  AnswerGenuine' /\ SuccessIsGenuine'
  BY <1>1, <1>2, <1>7, NothingClaimed DEF Construct, Connect, Ready, GInv, IInv, GoneInv
<1> QED
  BY <1>3, <1>4, <1>5, <1>6, <1>7 DEF Lifecycle

LEMMA CrashGenuine ==
  ASSUME Crash
  PROVE  AnswerGenuine' /\ SuccessIsGenuine'
BY NothingClaimed DEF Crash, Gone, NoResult

LEMMA IssueGenuine ==
  ASSUME GInv, Issue
  PROVE  AnswerGenuine' /\ SuccessIsGenuine'
<1>1. PICK op \in Method : \/ Refuse(op) \/ NullContext(op)
                           \/ \E pw \in Arguments(op) : Send(op, pw) \/ FailFast(op, pw)
  BY DEF Issue
<1>2. CASE Refuse(op)
  BY <1>2, NothingClaimed DEF Refuse, Ready, Return
<1>3. CASE NullContext(op)
  BY <1>3, CrashGenuine DEF NullContext
<1>4. ASSUME NEW pw \in Arguments(op), Send(op, pw)
      PROVE  AnswerGenuine' /\ SuccessIsGenuine'
  BY <1>4 DEF Send, heapVars, Idle, AnswerGenuine, SuccessIsGenuine
<1>5. ASSUME NEW pw \in Arguments(op), FailFast(op, pw)
      PROVE  AnswerGenuine' /\ SuccessIsGenuine'
  BY <1>5, FinishWithout, CrashGenuine DEF FailFast, CrashOnFree
<1> QED
  BY <1>1, <1>2, <1>3, <1>4, <1>5

LEMMA TypesOfReplies ==
  /\ \A s : StatusReply(s).type = "STATUS" /\ ErrorReply(s).type = "ERROR"
            /\ StringReply(s).type = "STRING"
  /\ NilReply.type = "NIL"
  /\ \A n : IntegerReply(n).type = "INTEGER"
  /\ \A es : ArrayReply(es).type = "ARRAY"
BY DEF StatusReply, StringReply, NilReply, ArrayReply, IntegerReply, ErrorReply, TextReply

\* A server answers something, and nothing but an error to whom it has not
\* authenticated.
LEMMA RepliesByType ==
  ASSUME NEW op, NEW arg, NEW x, NEW r \in ReplyTo(op, arg, x)
  PROVE  /\ r.type # "NULL"
         /\ RequirePass[peer[x]] # NoPassword /\ x \notin authed /\ r.type # "ERROR"
              => op = "auth" /\ r.type = "STATUS"
<1>1. \A d \in DataReply : d.type # "NULL"
  BY TypesOfReplies DEF DataReply
<1>2. r.type # "NULL"
  BY <1>1, TypesOfReplies DEF ReplyTo, AuthReply, OwnReplies
<1>3. ASSUME RequirePass[peer[x]] # NoPassword, x \notin authed, r.type # "ERROR"
      PROVE  op = "auth" /\ r.type = "STATUS"
  BY <1>3, TypesOfReplies DEF ReplyTo, AuthReply
<1> QED
  BY <1>2, <1>3

LEMMA AnswerKeepsGenuine ==
  ASSUME GInv, Answer
  PROVE  AnswerGenuine' /\ SuccessIsGenuine'
<1>1. call # Idle
  BY DEF Answer, Idle
<1>2. PICK r \in ReplyTo(call.op, call.arg, rdsContext) :
        /\ call' = [call EXCEPT !.phase = "answered", !.reply = r]
        /\ authed' \in AuthedAfter(r)
  BY DEF Answer
<1>3. call'.phase = "answered" /\ call'.reply = r /\ call' # Idle
  BY <1>1, <1>2, InProgress DEF GInv, Call, Idle
<1>4. UNCHANGED <<rdsContext, peer, broken>> /\ rdsContext \notin broken
  BY <1>1 DEF Answer, clientVars, heapVars, GInv, AnswerGenuine
<1>5. r.type # "NULL"
  BY <1>2, RepliesByType
<1>6. ASSUME r.type # "ERROR", RequirePass[peer[rdsContext]] # NoPassword
      PROVE  rdsContext \in authed'
  <2>1. CASE call.op = "auth"
    <3>1. r.type = "STATUS"
      BY <1>2, <1>6, <2>1, TypesOfReplies DEF ReplyTo, AuthReply
    <3> QED
      BY <1>2, <2>1, <3>1 DEF AuthedAfter
  <2>2. CASE call.op # "auth"
    BY <1>2, <1>6, <2>2, RepliesByType DEF AuthedAfter
  <2> QED
    BY <2>1, <2>2
<1> QED
  BY <1>3, <1>4, <1>5, <1>6 DEF AnswerGenuine, SuccessIsGenuine

LEMMA ReceiveGenuine ==
  ASSUME GInv, Receive
  PROVE  AnswerGenuine' /\ SuccessIsGenuine'
<1>1. call # Idle /\ call.op \in Method
  BY InProgress DEF GInv, Receive, Idle
<1>2. call' = Idle /\ UNCHANGED <<rdsContext, allocated, peer, broken, authed>>
  BY DEF Receive, Finish, serverVars
<1>3. rdsContext \in allocated \ broken
  BY <1>1, InProgress DEF GInv, AnswerGenuine
<1>4. result' = [op |-> call.op, ret |-> Verdict(call.op, call.reply),
                 applied |-> call.reply.type # "ERROR"]
  BY DEF Receive, Finish, Return
<1>5. CASE call.reply.type = "ERROR"
  <2>1. CASE call.op \in {"mset", "redisCmd"}
    BY <1>2, <1>4, <2>1, NothingClaimed
  <2>2. CASE call.op \notin {"mset", "redisCmd"}
    <3>1. ~Verdict(call.op, call.reply)
      BY <1>1, <1>5, <2>2, VerdictOfFailure
    <3>2. ~result'.ret
      BY <1>4, <3>1, Zenon
    <3> QED
      BY <1>2, <3>2, NothingClaimed
  <2> QED
    BY <2>1, <2>2
<1>6. CASE call.reply.type # "ERROR"
  <2>1. result'.applied
    BY <1>4, <1>6, Zenon
  <2>2. RequirePass[peer[rdsContext]] # NoPassword => rdsContext \in authed
    BY <1>1, <1>6 DEF Receive, GInv, AnswerGenuine
  <2>3. AnswerGenuine'
    BY <1>2, Zenon DEF AnswerGenuine
  <2>4. SuccessIsGenuine'
    BY <1>2, <1>3, <2>1, <2>2, Zenon DEF SuccessIsGenuine
  <2> QED
    BY <2>3, <2>4
<1> QED
  BY <1>5, <1>6

LEMMA NextGenuine == GInv /\ [Next]_vars => GInv'
<1> SUFFICES ASSUME GInv, [Next]_vars
             PROVE  AnswerGenuine' /\ SuccessIsGenuine'
  BY NextIInv DEF GInv
<1>1. CASE Lifecycle
  BY <1>1, LifecycleGenuine
<1>2. CASE Issue
  BY <1>2, IssueGenuine
<1>3. CASE Answer
  BY <1>3, AnswerKeepsGenuine
<1>4. CASE Receive
  BY <1>4, ReceiveGenuine
<1>5. CASE ReceiveNothing
  <2>1. call.op \in Method
    BY <1>5, InProgress DEF ReceiveNothing, GInv
  <2> QED
    BY <1>5, <2>1, FinishWithout, CrashGenuine DEF ReceiveNothing, CrashOnFree
<1>6. CASE Network \/ UNCHANGED vars
  <2>1. UNCHANGED <<rdsContext, call, result, allocated, peer, broken, authed>>
    BY <1>6 DEF Network, LinkDrop, ServerDown, ServerUp, vars, clientVars, callVars,
       heapVars, serverVars
  <2> QED
    BY <2>1 DEF GInv, AnswerGenuine, SuccessIsGenuine
<1> QED
  BY <1>1, <1>2, <1>3, <1>4, <1>5, <1>6 DEF Next

LEMMA InitGenuine == Init => GInv
BY InitIInv DEF Init, GInv, AnswerGenuine, SuccessIsGenuine, NoResult

LEMMA InductiveGenuine == Spec => []GInv
BY InitGenuine, NextGenuine, PTL DEF Spec

\* Whatever the network does, true means that the server of this connection
\* carried the command out for an authenticated session.
THEOREM GenuineSuccess == Spec => []SuccessIsGenuine
BY InductiveGenuine, PTL DEF GInv

-----------------------------------------------------------------------------
(* A broken context belongs to an object outside its methods, so only      *)
(* FailFast and the freeing actions can follow.                            *)

LEMMA BrokenStep == GInv /\ [Next]_vars => [StaysBroken]_vars
<1> SUFFICES ASSUME GInv, Next, NEW x \in broken
             PROVE  /\ x \in broken' \/ result'.op \in {"connect", "disConnect", "none"}
                    /\ call' = Idle
                    /\ result' # result =>
                         ~result'.ret \/ result'.op \in {"mset", "connect", "disConnect"}
  BY DEF StaysBroken
<1>1. rdsContext = x /\ x \in allocated /\ connected /\ rdsContext # NULL
  BY DEF GInv, IInv, TypeOK, ContextOwnership, ConnectedIffContext
<1>2. call = Idle /\ obj = "live"
  BY <1>1 DEF GInv, AnswerGenuine, IInv, GoneInv
<1>3. CASE Lifecycle
  <2>1. ASSUME NEW ep, ConnectTo(ep)
        PROVE  result'.op = "connect"
    <3>1. Return("connect", TRUE, FALSE) \/ Return("connect", FALSE, FALSE)
      BY <2>1, Zenon DEF ConnectTo
    <3> QED
      BY <3>1 DEF Return
  <2>2. ASSUME NEW ep, Connect(ep)
        PROVE  result'.op = "connect" /\ call' = Idle
    BY <1>2, <2>1, <2>2 DEF Connect
  <2>3. DisConnect => result'.op = "disConnect" /\ call' = Idle
    BY <1>2 DEF DisConnect, Return
  <2>4. Destroy => result'.op = "none" /\ call' = Idle /\ ~result'.ret
    BY DEF Destroy, Gone, NoResult
  <2>5. ~DefaultConstruct /\ ~Restart /\ \A ep : ~Construct(ep)
    BY <1>2 DEF DefaultConstruct, Restart, Construct
  <2> QED
    BY <1>3, <2>2, <2>3, <2>4, <2>5 DEF Lifecycle, Reconnect
<1>4. CASE Issue
  <2>1. PICK op \in Method : \/ Refuse(op) \/ NullContext(op)
                             \/ \E pw \in Arguments(op) : Send(op, pw) \/ FailFast(op, pw)
    BY <1>4 DEF Issue
  <2>2. ~Refuse(op)
    BY <1>1 DEF Refuse, PassesGuard
  <2>3. ~NullContext(op) /\ \A pw : ~Send(op, pw)
    BY <1>1 DEF NullContext, Send
  <2>4. ASSUME NEW pw, FailFast(op, pw)
        PROVE  \/ Finish(op, NullReply, FALSE) /\ broken' = broken
               \/ Crash
    BY <2>4 DEF FailFast, CrashOnFree
  <2>5. CASE Crash
    BY <2>5 DEF Crash, Gone, NoResult
  <2>6. CASE Finish(op, NullReply, FALSE) /\ broken' = broken
    <3>1. result' = [op |-> op, ret |-> Verdict(op, NullReply), applied |-> FALSE]
          /\ call' = Idle
      BY <2>6 DEF Finish, Return
    <3>2. CASE op = "mset"
      BY <2>6, <3>1, <3>2
    <3>3. CASE op = "redisCmd"
      BY <2>6, <3>1, <3>3 DEF Verdict, NullReply, TextReply
    <3>4. CASE op \notin {"mset", "redisCmd"}
      <4>1. ~Verdict(op, NullReply)
        BY <3>4, VerdictOfFailure DEF NullReply, TextReply
      <4>2. ~result'.ret
        BY <3>1, <4>1, Zenon
      <4> QED
        BY <2>6, <3>1, <4>2
    <3> QED
      BY <3>2, <3>3, <3>4
  <2> QED
    BY <2>1, <2>2, <2>3, <2>4, <2>5, <2>6
<1>5. ~Answer /\ ~Receive /\ ~ReceiveNothing
  BY <1>2 DEF Answer, Receive, ReceiveNothing, Idle
<1>6. CASE Network
  BY <1>2, <1>6 DEF Network, LinkDrop, ServerDown, ServerUp, callVars, heapVars
<1> QED
  BY <1>3, <1>4, <1>5, <1>6 DEF Next

\* Only a new connection repairs a client whose connection has failed.
THEOREM OnlyConnectRepairs == Spec => BrokenStaysBroken
BY InductiveGenuine, BrokenStep, PTL DEF Spec, BrokenStaysBroken
-----------------------------------------------------------------------------
(* The verdict of a method and the code it leaves come from the same       *)
(* reply, so that VerdictMatchesError is inductive as it stands.           *)

LEMMA FinishAgrees ==
  ASSUME NEW op \in Method, NEW r, NEW applied, Finish(op, r, applied)
  PROVE  VerdictMatchesError'
<1>1. result' = [op |-> op, ret |-> Verdict(op, r), applied |-> applied]
  BY DEF Finish, Return
<1>2. result'.op = op /\ result'.ret = Verdict(op, r)
  BY <1>1, Zenon
<1>3. op # "redisCmd" => error' = ReplyError(r)
  BY DEF Finish
<1>4. op \in Judged => op \notin {"execCmdBool", "mset", "redisCmd"}
  BY DEF Judged
<1>5. ASSUME op \in Judged
      PROVE  result'.ret <=> ~Failed(error')
  <2>1. Verdict(op, r) = PlainResult(r)
    BY <1>4, <1>5 DEF Verdict
  <2> QED
    BY <1>2, <1>3, <1>4, <1>5, <2>1, Zenon DEF PlainResult
<1>6. ASSUME op = "execCmdBool", result'.ret
      PROVE  ~Failed(error')
  <2>1. Verdict(op, r) = BoolResult(r)
    BY <1>6 DEF Verdict
  <2>2. BoolResult(r)
    BY <1>2, <1>6, <2>1, Zenon
  <2> QED
    BY <1>3, <1>6, <2>2 DEF BoolResult
<1> QED
  BY <1>2, <1>5, <1>6, Zenon DEF VerdictMatchesError

LEMMA SilentAgrees ==
  ASSUME result'.op \notin Judged \cup {"execCmdBool"}
  PROVE  VerdictMatchesError'
BY DEF VerdictMatchesError

LEMMA UnchangedAgrees ==
  ASSUME VerdictMatchesError, UNCHANGED <<call, result, error>>
  PROVE  VerdictMatchesError'
BY DEF VerdictMatchesError

LEMMA CrashAgrees ==
  ASSUME Crash
  PROVE  VerdictMatchesError'
BY SilentAgrees DEF Crash, Gone, NoResult, Judged

LEMMA ConnectToAgrees ==
  ASSUME NEW ep, ConnectTo(ep)
  PROVE  VerdictMatchesError'
<1>1. CASE Return("connect", TRUE, FALSE) /\ error' = SetError("REDIS_NO_ERROR")
  BY <1>1 DEF Return, VerdictMatchesError, Failed, SetError
<1>2. CASE /\ Return("connect", FALSE, FALSE)
           /\ error' \in {SetError("REDIS_REPLY_NULL"), Refusal("connect error")}
  <2>1. Failed(error')
    <3>1. Failed(SetError("REDIS_REPLY_NULL")) /\ Failed(Refusal("connect error"))
      BY DEF Failed, SetError, Refusal
    <3> QED
      BY <1>2, <3>1, Zenon
  <2>2. ~result'.ret /\ result'.op = "connect"
    BY <1>2 DEF Return
  <2> QED
    BY <2>1, <2>2 DEF VerdictMatchesError
<1> QED
  BY <1>1, <1>2, Zenon DEF ConnectTo

LEMMA RefuseAgrees ==
  ASSUME NEW op \in Method, Refuse(op)
  PROVE  VerdictMatchesError'
<1>1. result' = [op |-> op, ret |-> op = "mset", applied |-> FALSE]
      /\ error' = Refusal(kErrorDesc["REDIS_NO_CONNECT"])
  BY DEF Refuse, Return
<1>2. CASE op = "mset"
  BY <1>1, <1>2, SilentAgrees DEF Judged
<1>3. CASE op # "mset"
  <2>1. ~result'.ret
    BY <1>1, <1>3
  <2>2. Failed(error')
    BY <1>1 DEF Refusal, Failed
  <2> QED
    BY <2>1, <2>2 DEF VerdictMatchesError
<1> QED
  BY <1>2, <1>3

LEMMA NextAgrees == IInv /\ VerdictMatchesError /\ [Next]_vars => VerdictMatchesError'
<1> SUFFICES ASSUME IInv, VerdictMatchesError, [Next]_vars
             PROVE  VerdictMatchesError'
  OBVIOUS
<1>1. CASE Lifecycle
  <2>1. CASE DefaultConstruct \/ Restart
    BY <2>1, UnchangedAgrees DEF DefaultConstruct, Restart, callVars
  <2>2. CASE DisConnect \/ Destroy
    BY <2>2, SilentAgrees DEF DisConnect, Destroy, Gone, Return, NoResult, Judged
  <2>3. CASE Reconnect
    BY <2>3, ConnectToAgrees DEF Reconnect, Connect
  <2>4. ASSUME NEW ep \in Endpoint, Construct(ep) \/ Connect(ep)
        PROVE  VerdictMatchesError'
    BY <2>4, ConnectToAgrees DEF Construct, Connect
  <2> QED
    BY <1>1, <2>1, <2>2, <2>3, <2>4 DEF Lifecycle
<1>2. CASE Issue
  <2>1. PICK op \in Method : \/ Refuse(op) \/ NullContext(op)
                             \/ \E pw \in Arguments(op) : Send(op, pw) \/ FailFast(op, pw)
    BY <1>2 DEF Issue
  <2>2. CASE NullContext(op)
    BY <2>2, CrashAgrees DEF NullContext
  <2>3. ASSUME NEW pw, Send(op, pw)
        PROVE  VerdictMatchesError'
    BY <2>3 DEF Send, Idle, VerdictMatchesError
  <2>4. ASSUME NEW pw, FailFast(op, pw)
        PROVE  VerdictMatchesError'
    BY <2>4, FinishAgrees, CrashAgrees DEF FailFast, CrashOnFree
  <2> QED
    BY <2>1, <2>2, <2>3, <2>4, RefuseAgrees
<1>3. CASE Answer
  <2>1. call # Idle /\ call'.phase = "answered"
    BY <1>3, InProgress DEF Answer, Call, Idle
  <2> QED
    BY <2>1 DEF VerdictMatchesError, Idle
<1>4. CASE Receive \/ ReceiveNothing
  <2>1. call.op \in Method
    BY <1>4, InProgress DEF Receive, ReceiveNothing, Idle
  <2> QED
    BY <1>4, <2>1, FinishAgrees, CrashAgrees DEF Receive, ReceiveNothing, CrashOnFree
<1>5. CASE Network \/ UNCHANGED vars
  BY <1>5, UnchangedAgrees DEF Network, LinkDrop, ServerDown, ServerUp, vars, clientVars,
     callVars
<1> QED
  BY <1>1, <1>2, <1>3, <1>4, <1>5 DEF Next

\* getErrorCode() explains the verdict of every method that passes one on.
THEOREM CodeExplainsVerdict == Spec => []VerdictMatchesError
<1>1. Init => VerdictMatchesError
  BY DEF Init, NoResult, VerdictMatchesError, Judged
<1> QED
  BY <1>1, Inductive, NextAgrees, PTL DEF Spec
=============================================================================
