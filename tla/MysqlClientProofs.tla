-------------------------- MODULE MysqlClientProofs --------------------------
(***************************************************************************)
(* Proofs about MysqlClient, for any statements and character sets, any    *)
(* number of handles and any number of links that end.                     *)
(***************************************************************************)
EXTENDS MysqlClient, TLAPS

-----------------------------------------------------------------------------
(* The parts of TypeOK.                                                    *)

MemberType ==
  /\ obj \in {"none", "live", "crashed"}
  /\ mysql = NULL \/ mysql \in Handle
  /\ errorCode \in {"0", "refused", "lost"}

Result ==
  [op : Method \cup {"none", "connect", "close"}, ret : BOOLEAN, charset : Charset \cup {NoCharset}]

CountType == handles \in 0 .. MaxHandles /\ replaced \in 0 .. MaxHandles /\ drops \in 0 .. MaxDrops

ServerType ==
  /\ session \in {"none", "auto", "began"}
  /\ work \subseteq Statement /\ late \subseteq SUBSET Statement /\ table \subseteq Statement

FateType ==
  /\ fate \in [Statement -> {"fresh", "sent", "pending", "stored", "refused", "lost"}]

TxType == tx \in [open : BOOLEAN, clean : BOOLEAN, done : SUBSET Statement]

LEMMA TypeParts ==
  TypeOK <=> /\ MemberType /\ call \in Call /\ result \in Result
             /\ CountType /\ ServerType /\ FateType /\ TxType
BY DEF TypeOK, MemberType, Result, CountType, ServerType, FateType, TxType

-----------------------------------------------------------------------------
(* The inductive invariant.                                                *)

\* What is only there while the object lives, or has a handle.
Living ==
  /\ obj # "live" => mysql = NULL /\ call = Idle /\ result = NoResult
  /\ mysql = NULL => call = Idle /\ session = "none"
  /\ session = "none" => work = {}

\* A call in progress; its statement is one nobody has asked for before.
Calling ==
  /\ call.phase = "idle" <=> call = Idle
  /\ call.op = "idle" <=> call = Idle
  /\ call.op = "execSQL" => call.arg \in Statement /\ fate[call.arg] = "sent"

\* The statements that are stored, or may come to be.
Storing == table \cup work \cup UNION late

\* The statement in progress, unless the server has carried it out.
Unexecuted(s) ==
  /\ call.op = "execSQL" /\ s = call.arg
  /\ \/ call.phase = "sent" /\ session # "none"
     \/ call.phase = "answered" /\ call.reply = "refused"

\* What has not been asked for, was refused, or waits to be read.
Unstored == \A s \in Statement : fate[s] \in {"fresh", "refused"} \/ Unexecuted(s) => s \notin Storing

\* A transaction is open for the caller whenever it is for the server.
Autocommit ==
  /\ session = "began" => tx.open \/ (call.op = "startTransaction" /\ call.phase = "answered")
  /\ call.phase = "answered" /\ call.reply = "ok" =>
       /\ call.op \in {"commit", "rollback"} => session # "began"
       /\ call.op = "execSQL" => tx.open \/ call.arg \in table
  /\ AutocommitIsDurable

\* The confirmed statements of a transaction stay together, wherever they are.
Whole(X) == tx.done \subseteq X \/ tx.done \cap X = {}

Together ==
  /\ Whole(table) /\ Whole(work) /\ \A g \in late : Whole(g)
  /\ \A s \in tx.done : fate[s] = "pending"

Apart == tx.done \cap (table \cup UNION late) = {}

Kept == session # "auto" /\ (session = "began" => tx.done \subseteq work)

\* A transaction in which nothing has failed: the library knows of it, so that
\* it does not reconnect; the server has it whole, or its session is gone.
Clean ==
  /\ tx.open /\ tx.clean =>
       /\ Sql(call.op) \notin Commits => Apart
       /\ call.phase \in {"idle", "sent"} => mysql # NULL /\ mysql.inTrans /\ Kept
       /\ call.phase = "answered" /\ call.reply = "ok" =>
            /\ call.op = "commit" => tx.done \subseteq table
            /\ call.op \notin {"startTransaction", "commit", "rollback", "createDB", "shutdown"} =>
                 call.inTrans /\ Kept
            /\ call.op = "execSQL" => /\ session = "began" => call.arg \in work
                                      /\ call.arg \notin table \cup UNION late
  /\ call.phase = "answered" /\ call.reply = "ok" /\ call.op = "startTransaction" =>
       call.inTrans /\ session # "auto"

Verdicts ==
  /\ TransactionVerdict
  /\ call = Idle /\ result.ret /\ tx.clean /\ result.op = "rollback" => Apart

IInv ==
  /\ TypeOK /\ LeaksAreReplaced /\ VerdictMatchesCode
  /\ Living /\ Calling /\ Unstored /\ Autocommit /\ Together /\ Clean /\ Verdicts

LEMMA IdleFields == Idle.op = "idle" /\ Idle.phase = "idle" /\ Idle.reply = "none" /\ Idle.arg = NoArg
BY DEF Idle

LEMMA IdleIsCall == Idle \in Call
BY DEF Idle, Call, NoArg

LEMMA IdleSql == Sql("idle") = "READ" /\ Sql(Idle.op) = "READ"
BY IdleFields DEF Sql

LEMMA SqlOf ==
  /\ Sql("execSQL") = "INSERT" /\ Sql("commit") = "COMMIT" /\ Sql("rollback") = "ROLLBACK"
  /\ Sql("startTransaction") = "START TRANSACTION" /\ Sql("createDB") = "CREATE DATABASE"
  /\ \A op : op \notin {"execSQL", "commit", "rollback", "startTransaction", "createDB"}
               => Sql(op) = "READ"
BY DEF Sql

LEMMA SomeHandle ==
  /\ Initialised \in Handle /\ Initialised # NULL
  /\ \A h \in Handle : h # NULL
  /\ \A h \in Handle : \A u \in Unusable(h) : u \in Handle
<1>1. Initialised \in Handle
  BY DEF Initialised, Handle
<1>2. \A h \in Handle : h # NULL
  BY MysqlAssumption
<1>3. ASSUME NEW h \in Handle, NEW u \in Unusable(h)
      PROVE  u \in Handle
  BY <1>3 DEF Unusable, Handle
<1> QED
  BY <1>1, <1>2, <1>3

-----------------------------------------------------------------------------
(* What the steps of a call do to the program's variables.                 *)

LEMMA SentEffect ==
  ASSUME NEW op \in Method, NEW arg \in Arguments(op), Sent(op, arg), call = Idle, FateType
  PROVE  /\ call' \in Call /\ call' # Idle /\ FateType'
         /\ call'.op = op /\ call'.arg = arg /\ call'.phase = "sent" /\ call'.reply = "none"
         /\ op # "idle"
         /\ op = "execSQL" => arg \in Statement /\ fate[arg] = "fresh"
         /\ \A s \in Statement : fate'[s] = IF op = "execSQL" /\ s = arg THEN "sent" ELSE fate[s]
<1>1. op = "execSQL" => arg \in Statement /\ fate[arg] = "fresh"
  BY DEF Arguments
<1>2. arg \in Statement \cup Charset \cup {NoArg}
  BY DEF Arguments
<1>3. call' = [op |-> op, arg |-> arg, phase |-> "sent", reply |-> "none", inTrans |-> FALSE]
  BY DEF Sent, Idle
<1>4. call' \in Call /\ call' # Idle
  BY <1>2, <1>3 DEF Call, Idle
<1>5. FateType' /\ \A s \in Statement : fate'[s] = IF op = "execSQL" /\ s = arg THEN "sent" ELSE fate[s]
  BY <1>1 DEF Sent, FateType
<1> QED
  BY <1>1, <1>3, <1>4, <1>5 DEF Method

LEMMA FailEffect ==
  ASSUME NEW op \in Method, NEW arg, NEW code \in {"refused", "lost"}, Fail(op, arg, code),
         op = "execSQL" => arg \in Statement, FateType, TxType
  PROVE  /\ call' = Idle /\ errorCode' = code
         /\ result' \in Result /\ result'.op = op /\ ~result'.ret
         /\ TxType' /\ ~tx'.clean /\ tx'.done \in {tx.done, {}}
         /\ tx.open \/ op = "startTransaction" => tx'.open
         /\ FateType'
         /\ \A s \in Statement : fate'[s] = IF op = "execSQL" /\ s = arg THEN code ELSE fate[s]
<1>1. Return(op, arg, FALSE, code) /\ errorCode' = code
  BY DEF Fail, Errno, Judged
<1>2. result' = [op |-> op, ret |-> FALSE, charset |-> NoCharset] /\ call' = Idle
  BY <1>1 DEF Return
<1>3. result' \in Result /\ result'.op = op /\ ~result'.ret
  BY <1>2 DEF Result
<1>4. tx' = Noted(op, arg, FALSE)
  BY <1>1 DEF Return
<1>5. /\ TxType' /\ ~tx'.clean /\ tx'.done \in {tx.done, {}}
      /\ tx.open \/ op = "startTransaction" => tx'.open
  <2>1. CASE op = "startTransaction"
    <3>1. tx' = [open |-> TRUE, clean |-> FALSE, done |-> {}]
      BY <1>4, <2>1 DEF Noted
    <3> QED
      BY <3>1 DEF TxType
  <2>2. CASE op # "startTransaction"
    <3>1. tx' = [tx EXCEPT !.clean = FALSE]
      BY <1>4, <2>2 DEF Noted
    <3> QED
      BY <3>1, <2>2 DEF TxType
  <2> QED
    BY <2>1, <2>2
<1>6. /\ FateType'
      /\ \A s \in Statement : fate'[s] = IF op = "execSQL" /\ s = arg THEN code ELSE fate[s]
  BY <1>1 DEF Return, FateAfter, FateType
<1> QED
  BY <1>1, <1>2, <1>3, <1>5, <1>6

LEMMA SuccessEffect ==
  ASSUME NEW op \in Method, NEW arg, Succeed(op, arg),
         op = "execSQL" => arg \in Statement, FateType, TxType
  PROVE  /\ call' = Idle /\ (op # "querySQL" => errorCode' = "0") /\ errorCode' \in {"0", errorCode}
         /\ result' \in Result /\ result'.op = op /\ result'.ret
         /\ TxType'
         /\ tx'.done = IF op = "startTransaction" THEN {}
                       ELSE IF op = "execSQL" /\ tx.open /\ tx.clean THEN tx.done \cup {arg}
                       ELSE tx.done
         /\ tx'.open = (op = "startTransaction" \/ (tx.open /\ op \notin {"commit", "rollback"}))
         /\ tx'.clean => /\ op \notin {"createDB", "shutdown"}
                         /\ op = "startTransaction" \/ tx.clean
                         /\ op \in {"commit", "rollback"} => tx.open
         /\ FateType'
         /\ \A s \in Statement : fate'[s] = IF op = "execSQL" /\ s = arg
                                            THEN IF tx.open THEN "pending" ELSE "stored" ELSE fate[s]
<1>1. Return(op, arg, TRUE, "0") /\ errorCode' = Judged(op, "0")
  BY DEF Succeed
<1>2. result' = [op |-> op, ret |-> TRUE, charset |-> NoCharset] /\ call' = Idle
  BY <1>1 DEF Return
<1>3. result' \in Result /\ result'.op = op /\ result'.ret
  BY <1>2 DEF Result
<1>4. tx' = Noted(op, arg, TRUE)
  BY <1>1 DEF Return
<1>5. /\ TxType'
      /\ tx'.done = IF op = "startTransaction" THEN {}
                    ELSE IF op = "execSQL" /\ tx.open /\ tx.clean THEN tx.done \cup {arg}
                    ELSE tx.done
      /\ tx'.open = (op = "startTransaction" \/ (tx.open /\ op \notin {"commit", "rollback"}))
      /\ tx'.clean => /\ op \notin {"createDB", "shutdown"}
                      /\ op = "startTransaction" \/ tx.clean
                      /\ op \in {"commit", "rollback"} => tx.open
  <2>1. CASE op = "startTransaction"
    BY <1>4, <2>1 DEF Noted, TxType
  <2>2. CASE op \in {"commit", "rollback"}
    BY <1>4, <2>2 DEF Noted, TxType
  <2>3. CASE op = "execSQL"
    BY <1>4, <2>3 DEF Noted, TxType
  <2>4. CASE op \in {"createDB", "shutdown"}
    BY <1>4, <2>4 DEF Noted, TxType
  <2>5. CASE op \notin {"startTransaction", "commit", "rollback", "execSQL", "createDB", "shutdown"}
    <3>1. tx' = tx
      BY <1>4, <2>5 DEF Noted
    <3> QED
      BY <2>5, <3>1 DEF TxType
  <2> QED
    BY <2>1, <2>2, <2>3, <2>4, <2>5
<1>6. /\ FateType'
      /\ \A s \in Statement : fate'[s] = IF op = "execSQL" /\ s = arg
                                         THEN IF tx.open THEN "pending" ELSE "stored" ELSE fate[s]
  BY <1>1 DEF Return, FateAfter, FateType
<1>7. (op # "querySQL" => errorCode' = "0") /\ errorCode' \in {"0", errorCode}
  BY <1>1 DEF Judged
<1> QED
  BY <1>2, <1>3, <1>5, <1>6, <1>7

LEMMA AnswerEffect ==
  ASSUME NEW reply \in {"ok", "no rows", "refused"}, NEW inTrans \in BOOLEAN,
         Answer(reply, inTrans), call \in Call
  PROVE  /\ call' \in Call /\ call' # Idle /\ call'.op = call.op /\ call'.arg = call.arg
         /\ call'.phase = "answered" /\ call'.reply = reply /\ call'.inTrans = inTrans
BY DEF Answer, Call, Idle

LEMMA ConnectsEffect ==
  ASSUME IInv, NEW cs \in Charset \cup {NoCharset}, NEW ret \in BOOLEAN, Connects(cs, ret)
  PROVE  /\ obj' = "live" /\ call = Idle /\ call' = Idle
         /\ fate' = fate /\ late' = late /\ table' = table /\ drops' = drops /\ work' = {}
         /\ TxType' /\ ~tx'.open /\ tx'.clean = tx.clean /\ tx'.done = tx.done
         /\ result' \in Result /\ result'.op = "connect"
         /\ replaced' = handles /\ handles < MaxHandles
<1>0. MemberType /\ CountType /\ TxType
  BY TypeParts DEF IInv
<1>1. TxType' /\ ~tx'.open /\ tx'.clean = tx.clean /\ tx'.done = tx.done
  BY <1>0 DEF Connects, TxType
<1>2. result' \in Result /\ result'.op = "connect"
  BY DEF Connects, Result
<1>3. replaced' = handles /\ handles < MaxHandles
  BY <1>0 DEF IInv, Connects, CountType, LeaksAreReplaced
<1> QED
  BY <1>1, <1>2, <1>3 DEF Connects, Ready

-----------------------------------------------------------------------------
(* One lemma for each action.                                              *)

LEMMA ConstructStep ==
  ASSUME IInv, Construct
  PROVE  IInv'
<1>0. /\ MemberType /\ call \in Call /\ result \in Result
      /\ CountType /\ ServerType /\ FateType /\ TxType
  BY TypeParts DEF IInv
<1>1. TypeOK'
  <2>1. MemberType'
    BY DEF Construct, MemberType
  <2>2. call' \in Call
    BY <1>0 DEF Construct, callerVars
  <2>3. result' \in Result
    BY <1>0 DEF Construct, callerVars
  <2>4. CountType'
    BY <1>0 DEF Construct, CountType
  <2>5. ServerType'
    BY <1>0 DEF Construct, ServerType, serverVars
  <2>6. FateType'
    BY <1>0 DEF Construct, FateType, callerVars
  <2>7. TxType'
    BY <1>0 DEF Construct, TxType, callerVars
  <2> QED
    BY <2>1, <2>2, <2>3, <2>4, <2>5, <2>6, <2>7
    DEF TypeOK, MemberType, Result, CountType, ServerType, FateType, TxType
<1>2. LeaksAreReplaced'
  BY DEF IInv, Construct, Living, LeaksAreReplaced
<1>3. VerdictMatchesCode'
  BY DEF IInv, Construct, Living, NoResult, VerdictMatchesCode, Method, callerVars
<1>4. Living'
  BY DEF IInv, Construct, Living, Living, callerVars, serverVars
<1>5. Calling'
  BY DEF IInv, Construct, Calling, callerVars
<1>6. Unstored'
  BY DEF IInv, Construct, Unstored, Unexecuted, Storing, callerVars, serverVars
<1>7. Autocommit'
  BY DEF IInv, Construct, Autocommit, AutocommitIsDurable, callerVars, serverVars
<1>8. Together'
  BY DEF IInv, Construct, Together, Whole, callerVars, serverVars
<1>9. Clean'
  BY DEF IInv, Construct, Living, Clean, Apart, Kept, Living, callerVars, serverVars
<1>10. Verdicts'
  BY DEF IInv, Construct, Living, NoResult, Verdicts, TransactionVerdict, callerVars
<1> QED
  BY <1>1, <1>2, <1>3, <1>4, <1>5, <1>6, <1>7, <1>8, <1>9, <1>10 DEF IInv

LEMMA CloseStep ==
  ASSUME IInv, Close
  PROVE  IInv'
<1>0. /\ MemberType /\ call \in Call /\ result \in Result
      /\ CountType /\ ServerType /\ FateType /\ TxType
  BY TypeParts DEF IInv
<1>1. TypeOK'
  <2>1. MemberType'
    BY <1>0 DEF Close, MemberType
  <2>2. call' \in Call
    BY <1>0 DEF Close
  <2>3. result' \in Result
    BY DEF Close, NoResult, Result
  <2>4. CountType'
    BY <1>0 DEF IInv, Close, Closed, CountType, LeaksAreReplaced
  <2>5. ServerType'
    BY <1>0 DEF Close, EndSession, ServerType
  <2>6. FateType'
    BY <1>0 DEF Close, FateType
  <2>7. TxType'
    BY <1>0 DEF Close, TxType
  <2> QED
    BY <2>1, <2>2, <2>3, <2>4, <2>5, <2>6, <2>7
    DEF TypeOK, MemberType, Result, CountType, ServerType, FateType, TxType
<1>2. LeaksAreReplaced'
  BY <1>0 DEF IInv, Close, Closed, LeaksAreReplaced, CountType
<1>3. VerdictMatchesCode'
  BY DEF Close, Method, VerdictMatchesCode, Method
<1>4. Living'
  BY DEF Close, Ready, EndSession, Living
<1>5. Calling'
  BY DEF IInv, Close, Calling
<1>6. Unstored'
  BY DEF IInv, Close, EndSession, Unstored, Unexecuted, Storing
<1>7. Autocommit'
  BY DEF IInv, Close, Ready, EndSession, Autocommit, AutocommitIsDurable, Calling
<1>8. Together'
  BY DEF IInv, Close, EndSession, Together, Whole
<1>9. Clean'
  BY <1>0 DEF IInv, Close, EndSession, Clean, TxType
<1>10. Verdicts'
  BY DEF Close, Verdicts, TransactionVerdict
<1> QED
  BY <1>1, <1>2, <1>3, <1>4, <1>5, <1>6, <1>7, <1>8, <1>9, <1>10 DEF IInv

LEMMA DestroyStep ==
  ASSUME IInv, Destroy
  PROVE  IInv'
<1>0. /\ MemberType /\ call \in Call /\ result \in Result
      /\ CountType /\ ServerType /\ FateType /\ TxType
  BY TypeParts DEF IInv
<1>1. TypeOK'
  <2>1. MemberType'
    BY DEF Destroy, MemberType
  <2>2. call' \in Call
    BY <1>0 DEF Destroy
  <2>3. result' \in Result
    BY DEF Destroy, NoResult, Result
  <2>4. CountType'
    BY <1>0 DEF IInv, Destroy, Closed, CountType, LeaksAreReplaced
  <2>5. ServerType'
    BY <1>0 DEF Destroy, EndSession, ServerType
  <2>6. FateType'
    BY <1>0 DEF Destroy, FateType
  <2>7. TxType'
    BY <1>0 DEF Destroy, TxType
  <2> QED
    BY <2>1, <2>2, <2>3, <2>4, <2>5, <2>6, <2>7
    DEF TypeOK, MemberType, Result, CountType, ServerType, FateType, TxType
<1>2. LeaksAreReplaced'
  BY <1>0 DEF IInv, Destroy, Closed, LeaksAreReplaced, CountType
<1>3. VerdictMatchesCode'
  BY DEF Destroy, NoResult, Method, VerdictMatchesCode, Method
<1>4. Living'
  BY DEF Destroy, Ready, EndSession, Living
<1>5. Calling'
  BY DEF IInv, Destroy, Calling
<1>6. Unstored'
  BY DEF IInv, Destroy, EndSession, Unstored, Unexecuted, Storing
<1>7. Autocommit'
  BY DEF IInv, Destroy, Ready, EndSession, Autocommit, AutocommitIsDurable, Calling
<1>8. Together'
  BY DEF IInv, Destroy, EndSession, Together, Whole
<1>9. Clean'
  BY <1>0 DEF IInv, Destroy, EndSession, Clean, TxType
<1>10. Verdicts'
  BY DEF Destroy, NoResult, Verdicts, TransactionVerdict
<1> QED
  BY <1>1, <1>2, <1>3, <1>4, <1>5, <1>6, <1>7, <1>8, <1>9, <1>10 DEF IInv

LEMMA CrashStep ==
  ASSUME IInv, Crash
  PROVE  IInv'
<1>0. /\ MemberType /\ call \in Call /\ result \in Result
      /\ CountType /\ ServerType /\ FateType /\ TxType
  BY TypeParts DEF IInv
<1>1. TypeOK'
  <2>1. MemberType'
    BY DEF Crash, MemberType
  <2>2. call' \in Call
    BY IdleIsCall DEF Crash
  <2>3. result' \in Result
    BY DEF Crash, NoResult, Result
  <2>4. CountType'
    BY <1>0, MysqlAssumption DEF Crash, CountType
  <2>5. ServerType'
    BY <1>0 DEF Crash, EndSession, ServerType
  <2>6. FateType'
    BY <1>0 DEF Crash, FateType
  <2>7. TxType'
    BY <1>0 DEF Crash, TxType
  <2> QED
    BY <2>1, <2>2, <2>3, <2>4, <2>5, <2>6, <2>7
    DEF TypeOK, MemberType, Result, CountType, ServerType, FateType, TxType
<1>2. LeaksAreReplaced'
  BY DEF Crash, LeaksAreReplaced
<1>3. VerdictMatchesCode'
  BY DEF Crash, NoResult, Method, VerdictMatchesCode, Method
<1>4. Living'
  BY DEF Crash, EndSession, Living
<1>5. Calling'
  BY IdleFields DEF Crash, Calling, Calling
<1>6. Unstored'
  BY IdleFields DEF IInv, Crash, EndSession, Unstored, Unexecuted, Storing
<1>7. Autocommit'
  BY IdleFields DEF IInv, Crash, EndSession, Autocommit, AutocommitIsDurable
<1>8. Together'
  BY DEF IInv, Crash, EndSession, Calling, Together, Whole, Calling
<1>9. Clean'
  BY <1>0, IdleFields DEF Crash, Clean, TxType
<1>10. Verdicts'
  BY DEF Crash, NoResult, Verdicts, TransactionVerdict
<1> QED
  BY <1>1, <1>2, <1>3, <1>4, <1>5, <1>6, <1>7, <1>8, <1>9, <1>10 DEF IInv

LEMMA ConnectFailsStep ==
  ASSUME IInv, NEW cs \in Charset \cup {NoCharset}, ConnectFails(cs)
  PROVE  IInv'
<1>0. /\ MemberType /\ call \in Call /\ result \in Result
      /\ CountType /\ ServerType /\ FateType /\ TxType
  BY TypeParts DEF IInv
<1>a. Connects(cs, FALSE)
  BY DEF ConnectFails
<1>b. /\ obj' = "live" /\ call = Idle /\ call' = Idle
      /\ fate' = fate /\ late' = late /\ table' = table /\ drops' = drops /\ work' = {}
      /\ TxType' /\ ~tx'.open /\ tx'.clean = tx.clean /\ tx'.done = tx.done
      /\ result' \in Result /\ result'.op = "connect"
      /\ replaced' = handles /\ handles < MaxHandles
  BY <1>a, ConnectsEffect
<1>c. /\ session' = "none" /\ errorCode' \in {"refused", "lost"}
      /\ \/ mysql' = NULL /\ handles' = replaced'
         \/ mysql' \in Handle /\ mysql' # NULL /\ handles' = replaced' + 1
  BY <1>b, SomeHandle DEF ConnectFails
<1>1. TypeOK'
  <2>1. MemberType'
    BY <1>b, <1>c DEF MemberType
  <2>2. call' \in Call
    BY <1>0, <1>b
  <2>3. result' \in Result
    BY <1>b
  <2>4. CountType'
    BY <1>0, <1>b, <1>c, MysqlAssumption DEF CountType
  <2>5. ServerType'
    BY <1>0, <1>b, <1>c DEF ServerType
  <2>6. FateType'
    BY <1>0, <1>b DEF FateType
  <2>7. TxType'
    BY <1>b
  <2> QED
    BY <2>1, <2>2, <2>3, <2>4, <2>5, <2>6, <2>7
    DEF TypeOK, MemberType, Result, CountType, ServerType, FateType, TxType
<1>2. LeaksAreReplaced'
  BY <1>b, <1>c DEF IInv, LeaksAreReplaced
<1>3. VerdictMatchesCode'
  BY <1>b DEF VerdictMatchesCode, Method
<1>4. Living'
  BY <1>b, <1>c DEF Living
<1>5. Calling'
  BY <1>b DEF IInv, Calling
<1>6. Unstored'
  BY <1>b DEF IInv, Unstored, Unexecuted, Storing, Calling
<1>7. Autocommit'
  BY <1>b, <1>c DEF IInv, Autocommit, AutocommitIsDurable, Calling
<1>8. Together'
  BY <1>b DEF IInv, Together, Whole
<1>9. Clean'
  BY <1>b, <1>c DEF IInv, Clean
<1>10. Verdicts'
  BY <1>b DEF Verdicts, TransactionVerdict
<1> QED
  BY <1>1, <1>2, <1>3, <1>4, <1>5, <1>6, <1>7, <1>8, <1>9, <1>10 DEF IInv

LEMMA ConnectReachesStep ==
  ASSUME IInv, NEW cs \in Charset \cup {NoCharset}, ConnectReaches(cs)
  PROVE  IInv'
<1>0. /\ MemberType /\ call \in Call /\ result \in Result
      /\ CountType /\ ServerType /\ FateType /\ TxType
  BY TypeParts DEF IInv
<1>a. PICK alive \in BOOLEAN, first \in BOOLEAN, again \in BOOLEAN :
        /\ Connects(cs, CharsetVerdict(cs, first, again))
        /\ errorCode' = "0" /\ handles' = handles + 1
        /\ session' = IF alive THEN "auto" ELSE "none"
        /\ mysql' = [vio |-> alive, inTrans |-> FALSE,
                     reconnect |-> CharsetVerdict(cs, first, again),
                     charset |-> IF first \/ again THEN cs ELSE NoCharset]
  BY DEF ConnectReaches
<1>v. CharsetVerdict(cs, first, again) \in BOOLEAN
  BY DEF CharsetVerdict
<1>b. /\ obj' = "live" /\ call = Idle /\ call' = Idle
      /\ fate' = fate /\ late' = late /\ table' = table /\ drops' = drops /\ work' = {}
      /\ TxType' /\ ~tx'.open /\ tx'.clean = tx.clean /\ tx'.done = tx.done
      /\ result' \in Result /\ result'.op = "connect"
      /\ replaced' = handles /\ handles < MaxHandles
  BY <1>a, <1>v, ConnectsEffect
<1>d. mysql' \in Handle /\ mysql' # NULL
  <2>1. mysql' \in Handle
    BY <1>a, <1>v DEF Handle
  <2> QED
    BY <2>1, SomeHandle
<1>c. session' \in {"none", "auto"} /\ errorCode' = "0" /\ handles' = replaced' + 1
  BY <1>a, <1>b
<1>1. TypeOK'
  <2>1. MemberType'
    BY <1>b, <1>c, <1>d DEF MemberType
  <2>2. call' \in Call
    BY <1>0, <1>b
  <2>3. result' \in Result
    BY <1>b
  <2>4. CountType'
    BY <1>0, <1>b, <1>c, MysqlAssumption DEF CountType
  <2>5. ServerType'
    BY <1>0, <1>b, <1>c DEF ServerType
  <2>6. FateType'
    BY <1>0, <1>b DEF FateType
  <2>7. TxType'
    BY <1>b
  <2> QED
    BY <2>1, <2>2, <2>3, <2>4, <2>5, <2>6, <2>7
    DEF TypeOK, MemberType, Result, CountType, ServerType, FateType, TxType
<1>2. LeaksAreReplaced'
  BY <1>c, <1>d DEF LeaksAreReplaced
<1>3. VerdictMatchesCode'
  BY <1>b DEF VerdictMatchesCode, Method
<1>4. Living'
  BY <1>b, <1>d DEF Living
<1>5. Calling'
  BY <1>b DEF IInv, Calling
<1>6. Unstored'
  BY <1>b DEF IInv, Unstored, Unexecuted, Storing, Calling
<1>7. Autocommit'
  BY <1>b, <1>c DEF IInv, Autocommit, AutocommitIsDurable, Calling
<1>8. Together'
  BY <1>b DEF IInv, Together, Whole
<1>9. Clean'
  BY <1>b, IdleFields DEF Clean
<1>10. Verdicts'
  BY <1>b DEF Verdicts, TransactionVerdict
<1> QED
  BY <1>1, <1>2, <1>3, <1>4, <1>5, <1>6, <1>7, <1>8, <1>9, <1>10 DEF IInv

LEMMA SendStep ==
  ASSUME IInv, NEW op \in Method, NEW arg \in Arguments(op), Send(op, arg)
  PROVE  IInv'
<1>0. /\ MemberType /\ call \in Call /\ result \in Result
      /\ CountType /\ ServerType /\ FateType /\ TxType
  BY TypeParts DEF IInv
<1>a. obj = "live" /\ call = Idle /\ mysql # NULL /\ Sent(op, arg)
  BY DEF Send, Ready
<1>b. UNCHANGED <<memberVars, result, tx, handles, replaced, serverVars, drops>>
  BY DEF Send, Sent, memberVars, serverVars
<1>e. /\ call' \in Call /\ call' # Idle /\ FateType'
      /\ call'.op = op /\ call'.arg = arg /\ call'.phase = "sent" /\ call'.reply = "none"
      /\ op # "idle"
      /\ op = "execSQL" => arg \in Statement /\ fate[arg] = "fresh"
      /\ \A s \in Statement : fate'[s] = IF op = "execSQL" /\ s = arg THEN "sent" ELSE fate[s]
  BY <1>0, <1>a, SentEffect
<1>1. TypeOK'
  <2>1. MemberType'
    BY <1>0, <1>b DEF MemberType, memberVars
  <2>2. call' \in Call
    BY <1>e
  <2>3. result' \in Result
    BY <1>0, <1>b
  <2>4. CountType'
    BY <1>0, <1>b DEF CountType
  <2>5. ServerType'
    BY <1>0, <1>b DEF ServerType, serverVars
  <2>6. FateType'
    BY <1>e
  <2>7. TxType'
    BY <1>0, <1>b DEF TxType
  <2> QED
    BY <2>1, <2>2, <2>3, <2>4, <2>5, <2>6, <2>7
    DEF TypeOK, MemberType, Result, CountType, ServerType, FateType, TxType
<1>2. LeaksAreReplaced'
  BY <1>b DEF IInv, LeaksAreReplaced, memberVars
<1>3. VerdictMatchesCode'
  BY <1>e DEF VerdictMatchesCode
<1>4. Living'
  BY <1>a, <1>b DEF IInv, Living, memberVars, serverVars
<1>5. Calling'
  BY <1>e DEF Calling
<1>6. Unstored'
  BY <1>b, <1>e DEF IInv, Unstored, Unexecuted, Storing, serverVars
<1>7. Autocommit'
  BY <1>a, <1>b, <1>e DEF IInv, Autocommit, AutocommitIsDurable, Calling, serverVars
<1>8. Together'
  BY <1>0, <1>b, <1>e DEF IInv, Together, Whole, TxType, serverVars
<1>9. Clean'
  BY <1>a, <1>b, <1>e, IdleFields, IdleSql
     DEF IInv, Clean, Apart, Kept, Commits, memberVars, serverVars
<1>10. Verdicts'
  BY <1>e DEF Verdicts, TransactionVerdict
<1> QED
  BY <1>1, <1>2, <1>3, <1>4, <1>5, <1>6, <1>7, <1>8, <1>9, <1>10 DEF IInv

LEMMA ReopenStep ==
  ASSUME IInv, NEW op \in Method, NEW arg \in Arguments(op), Reopen(op, arg)
  PROVE  IInv'
<1>0. /\ MemberType /\ call \in Call /\ result \in Result
      /\ CountType /\ ServerType /\ FateType /\ TxType
  BY TypeParts DEF IInv
<1>a. obj = "live" /\ call = Idle /\ mysql # NULL /\ Sent(op, arg) /\ mysql \in Handle
  BY <1>0 DEF Reopen, Ready, MemberType
<1>b. /\ UNCHANGED <<obj, errorCode, result, tx, handles, replaced, late, table, drops>>
      /\ ~mysql.inTrans /\ session' = "auto" /\ work' = {} /\ session = "none"
  BY DEF Reopen, Sent
<1>c. mysql' \in Handle /\ mysql' # NULL
  <2>1. mysql' \in Handle
    BY <1>a DEF Reopen, Handle
  <2> QED
    BY <2>1, SomeHandle
<1>e. /\ call' \in Call /\ call' # Idle /\ FateType'
      /\ call'.op = op /\ call'.arg = arg /\ call'.phase = "sent" /\ call'.reply = "none"
      /\ op # "idle"
      /\ op = "execSQL" => arg \in Statement /\ fate[arg] = "fresh"
      /\ \A s \in Statement : fate'[s] = IF op = "execSQL" /\ s = arg THEN "sent" ELSE fate[s]
  BY <1>0, <1>a, SentEffect
<1>1. TypeOK'
  <2>1. MemberType'
    BY <1>0, <1>b, <1>c DEF MemberType
  <2>2. call' \in Call
    BY <1>e
  <2>3. result' \in Result
    BY <1>0, <1>b
  <2>4. CountType'
    BY <1>0, <1>b DEF CountType
  <2>5. ServerType'
    BY <1>0, <1>b DEF ServerType
  <2>6. FateType'
    BY <1>e
  <2>7. TxType'
    BY <1>0, <1>b DEF TxType
  <2> QED
    BY <2>1, <2>2, <2>3, <2>4, <2>5, <2>6, <2>7
    DEF TypeOK, MemberType, Result, CountType, ServerType, FateType, TxType
<1>2. LeaksAreReplaced'
  BY <1>a, <1>b, <1>c DEF IInv, LeaksAreReplaced
<1>3. VerdictMatchesCode'
  BY <1>a, <1>b DEF IInv, VerdictMatchesCode
<1>4. Living'
  BY <1>a, <1>b, <1>c DEF Living
<1>5. Calling'
  BY <1>e DEF Calling
<1>6. Unstored'
  BY <1>b, <1>e DEF IInv, Unstored, Unexecuted, Storing
<1>7. Autocommit'
  BY <1>b, <1>e DEF IInv, Autocommit, AutocommitIsDurable
<1>8. Together'
  BY <1>0, <1>b, <1>e DEF IInv, Together, Whole, TxType
<1>9. Clean'
  BY <1>a, <1>b, <1>e, IdleFields DEF IInv, Clean
<1>10. Verdicts'
  BY <1>a, <1>b DEF IInv, Verdicts, TransactionVerdict, Apart
<1> QED
  BY <1>1, <1>2, <1>3, <1>4, <1>5, <1>6, <1>7, <1>8, <1>9, <1>10 DEF IInv

LEMMA FailFastStep ==
  ASSUME IInv, NEW op \in Method, NEW arg \in Arguments(op), FailFast(op, arg)
  PROVE  IInv'
<1>0. /\ MemberType /\ call \in Call /\ result \in Result
      /\ CountType /\ ServerType /\ FateType /\ TxType
  BY TypeParts DEF IInv
<1>a. obj = "live" /\ call = Idle /\ mysql \in Handle /\ Fail(op, arg, "lost")
  BY <1>0 DEF FailFast, Ready, MemberType
<1>b. UNCHANGED <<obj, handles, replaced, serverVars, drops>> /\ session = "none"
  BY DEF FailFast
<1>c. mysql' \in Handle /\ mysql' # NULL
  BY <1>a, SomeHandle DEF FailFast
<1>d. op = "execSQL" => arg \in Statement /\ fate[arg] = "fresh"
  BY DEF Arguments
<1>e. /\ call' = Idle /\ errorCode' = "lost"
      /\ result' \in Result /\ result'.op = op /\ ~result'.ret
      /\ TxType' /\ ~tx'.clean /\ tx'.done \in {tx.done, {}}
      /\ tx.open \/ op = "startTransaction" => tx'.open
      /\ FateType'
      /\ \A s \in Statement : fate'[s] = IF op = "execSQL" /\ s = arg THEN "lost" ELSE fate[s]
  BY <1>0, <1>a, <1>d, FailEffect
<1>1. TypeOK'
  <2>1. MemberType'
    BY <1>0, <1>b, <1>c, <1>e DEF MemberType
  <2>2. call' \in Call
    BY <1>0, <1>a, <1>e
  <2>3. result' \in Result
    BY <1>e
  <2>4. CountType'
    BY <1>0, <1>b DEF CountType
  <2>5. ServerType'
    BY <1>0, <1>b DEF ServerType, serverVars
  <2>6. FateType'
    BY <1>e
  <2>7. TxType'
    BY <1>e
  <2> QED
    BY <2>1, <2>2, <2>3, <2>4, <2>5, <2>6, <2>7
    DEF TypeOK, MemberType, Result, CountType, ServerType, FateType, TxType
<1>2. LeaksAreReplaced'
  BY <1>a, <1>b, <1>c, SomeHandle DEF IInv, LeaksAreReplaced
<1>3. VerdictMatchesCode'
  BY <1>e DEF VerdictMatchesCode
<1>4. Living'
  BY <1>a, <1>b, <1>c DEF IInv, Living, serverVars
<1>5. Calling'
  BY <1>a, <1>e DEF IInv, Calling
<1>6. Unstored'
  BY <1>a, <1>b, <1>e DEF IInv, Unstored, Unexecuted, Storing, serverVars
<1>7. Autocommit'
  BY <1>a, <1>b, <1>e DEF IInv, Autocommit, AutocommitIsDurable, serverVars
<1>8. Together'
  BY <1>b, <1>d, <1>e DEF IInv, Together, Whole, TxType, serverVars
<1>9. Clean'
  BY <1>e, IdleFields DEF Clean
<1>10. Verdicts'
  BY <1>e DEF Verdicts, TransactionVerdict
<1> QED
  BY <1>1, <1>2, <1>3, <1>4, <1>5, <1>6, <1>7, <1>8, <1>9, <1>10 DEF IInv

LEMMA ReceiveNothingStep ==
  ASSUME IInv, ReceiveNothing
  PROVE  IInv'
<1>0. /\ MemberType /\ call \in Call /\ result \in Result
      /\ CountType /\ ServerType /\ FateType /\ TxType
  BY TypeParts DEF IInv
<1>a. call # Idle /\ obj = "live" /\ mysql \in Handle /\ Fail(call.op, call.arg, "lost")
  BY <1>0 DEF IInv, ReceiveNothing, Living, MemberType
<1>b. UNCHANGED <<obj, handles, replaced, serverVars, drops>> /\ session = "none"
  BY DEF ReceiveNothing
<1>c. mysql' \in Handle /\ mysql' # NULL
  BY <1>a, SomeHandle DEF ReceiveNothing
<1>d. call.op \in Method /\ (call.op = "execSQL" => call.arg \in Statement /\ fate[call.arg] = "sent")
  BY <1>0, <1>a DEF IInv, Calling, Call
<1>e. /\ call' = Idle /\ errorCode' = "lost"
      /\ result' \in Result /\ result'.op = call.op /\ ~result'.ret
      /\ TxType' /\ ~tx'.clean /\ tx'.done \in {tx.done, {}}
      /\ tx.open \/ call.op = "startTransaction" => tx'.open
      /\ FateType'
      /\ \A s \in Statement : fate'[s] = IF call.op = "execSQL" /\ s = call.arg THEN "lost" ELSE fate[s]
  BY <1>0, <1>a, <1>d, FailEffect
<1>1. TypeOK'
  <2>1. MemberType'
    BY <1>0, <1>b, <1>c, <1>e DEF MemberType
  <2>2. call' \in Call
    BY <1>e, IdleIsCall
  <2>3. result' \in Result
    BY <1>e
  <2>4. CountType'
    BY <1>0, <1>b DEF CountType
  <2>5. ServerType'
    BY <1>0, <1>b DEF ServerType, serverVars
  <2>6. FateType'
    BY <1>e
  <2>7. TxType'
    BY <1>e
  <2> QED
    BY <2>1, <2>2, <2>3, <2>4, <2>5, <2>6, <2>7
    DEF TypeOK, MemberType, Result, CountType, ServerType, FateType, TxType
<1>2. LeaksAreReplaced'
  BY <1>a, <1>b, <1>c, SomeHandle DEF IInv, LeaksAreReplaced
<1>3. VerdictMatchesCode'
  BY <1>e DEF VerdictMatchesCode
<1>4. Living'
  BY <1>a, <1>b, <1>c DEF IInv, Living, serverVars
<1>5. Calling'
  BY <1>e, IdleFields DEF Calling
<1>6. Unstored'
  BY <1>b, <1>e, IdleFields DEF IInv, Unstored, Unexecuted, Storing, serverVars
<1>7. Autocommit'
  BY <1>b, <1>e, IdleFields DEF IInv, Autocommit, AutocommitIsDurable, serverVars
<1>8. Together'
  BY <1>b, <1>e DEF IInv, Together, Whole, Calling, TxType, serverVars
<1>9. Clean'
  BY <1>e, IdleFields DEF Clean
<1>10. Verdicts'
  BY <1>e DEF Verdicts, TransactionVerdict
<1> QED
  BY <1>1, <1>2, <1>3, <1>4, <1>5, <1>6, <1>7, <1>8, <1>9, <1>10 DEF IInv

LEMMA LinkDropStep ==
  ASSUME IInv, LinkDrop
  PROVE  IInv'
<1>0. /\ MemberType /\ call \in Call /\ result \in Result
      /\ CountType /\ ServerType /\ FateType /\ TxType
  BY TypeParts DEF IInv
<1>a. /\ UNCHANGED <<memberVars, callerVars, handles, replaced, table>>
      /\ session # "none" /\ session' = "none" /\ work' = {} /\ drops' = drops + 1 /\ drops < MaxDrops
  BY DEF LinkDrop, EndSession
<1>b. PICK g \in SUBSET Statement :
        /\ late' = late \/ (call.phase = "sent" /\ late' = late \cup {g})
        /\ \/ g = work /\ Sql(call.op) \in Commits
           \/ g = {call.arg} /\ call.op = "execSQL"
           \/ g = {}
  <2>1. Sql(call.op) = "INSERT" => call.op = "execSQL"
    BY <1>0, SqlOf
  <2>2. \/ Committed = work /\ Sql(call.op) \in Commits
        \/ Committed = {call.arg} /\ call.op = "execSQL"
        \/ Committed = {}
    BY <2>1 DEF Committed
  <2>3. Committed \in SUBSET Statement
    BY <1>0, <2>2 DEF IInv, Calling, ServerType
  <2> QED
    BY <2>2, <2>3 DEF LinkDrop
<1>c. call.op = "execSQL" => call.arg \in Statement /\ fate[call.arg] = "sent"
  BY DEF IInv, Calling
<1>1. TypeOK'
  <2>1. MemberType'
    BY <1>0, <1>a DEF MemberType, memberVars
  <2>2. call' \in Call
    BY <1>0, <1>a DEF callerVars
  <2>3. result' \in Result
    BY <1>0, <1>a DEF callerVars
  <2>4. CountType'
    BY <1>0, <1>a, MysqlAssumption DEF CountType
  <2>5. ServerType'
    BY <1>0, <1>a, <1>b DEF ServerType
  <2>6. FateType'
    BY <1>0, <1>a DEF FateType, callerVars
  <2>7. TxType'
    BY <1>0, <1>a DEF TxType, callerVars
  <2> QED
    BY <2>1, <2>2, <2>3, <2>4, <2>5, <2>6, <2>7
    DEF TypeOK, MemberType, Result, CountType, ServerType, FateType, TxType
<1>2. LeaksAreReplaced'
  BY <1>a DEF IInv, LeaksAreReplaced, memberVars
<1>3. VerdictMatchesCode'
  BY <1>a DEF IInv, VerdictMatchesCode, memberVars, callerVars
<1>4. Living'
  BY <1>a DEF IInv, Living, memberVars
<1>5. Calling'
  BY <1>a DEF IInv, Calling, callerVars
<1>6. Unstored'
  BY <1>a, <1>b DEF IInv, Unstored, Unexecuted, Storing, Calling, callerVars
<1>7. Autocommit'
  BY <1>a DEF IInv, Autocommit, AutocommitIsDurable, callerVars
<1>8. Together'
  BY <1>a, <1>b DEF IInv, Together, Whole, Calling, callerVars
<1>9. Clean'
  <2>1. call.op = "execSQL" /\ call.phase = "sent" => call.arg \notin tx.done
    BY <1>a, <1>c DEF IInv, Together
  <2>2. (Sql(call.op) \notin Commits => Apart) => (Sql(call.op) \notin Commits => Apart)'
    <3>1. \/ late' = late
          \/ Sql(call.op) \in Commits
          \/ tx.done \cap g = {}
      BY <1>b, <2>1
    <3> QED
      <4>1. tx' = tx /\ call' = call /\ table' = table
        BY <1>a DEF callerVars
      <4>2. CASE late' = late
        BY <4>1, <4>2 DEF Apart
      <4>3. CASE tx.done \cap g = {}
        <5>1. SUFFICES ASSUME Apart, NEW x \in tx.done
                       PROVE  x \notin table \cup UNION late'
          BY <4>1, <4>3 DEF Apart
        <5>2. x \notin table /\ \A h \in late : x \notin h
          BY <5>1 DEF Apart
        <5>3. \A h \in late' : h \in late \/ h = g
          BY <1>b
        <5>4. \A h \in late' : x \notin h
          BY <4>3, <5>1, <5>2, <5>3
        <5> QED
          BY <5>2, <5>4
      <4> QED
        BY <3>1, <4>1, <4>2, <4>3
  <2>3. call.phase # "sent" => late' = late
    BY <1>b
  <2>4. Kept' /\ session' = "none"
    BY <1>a DEF Kept
  <2>5. UNCHANGED <<mysql, call, tx, table>>
    BY <1>a DEF memberVars, callerVars
  <2> QED
    BY <2>2, <2>3, <2>4, <2>5 DEF IInv, Clean
<1>10. Verdicts'
  BY <1>a, <1>b, IdleFields DEF IInv, Verdicts, TransactionVerdict, Apart, callerVars
<1> QED
  BY <1>1, <1>2, <1>3, <1>4, <1>5, <1>6, <1>7, <1>8, <1>9, <1>10 DEF IInv

LEMMA CommitLateStep ==
  ASSUME IInv, NEW g \in late, CommitLate(g)
  PROVE  IInv'
<1>0. /\ MemberType /\ call \in Call /\ result \in Result
      /\ CountType /\ ServerType /\ FateType /\ TxType
  BY TypeParts DEF IInv
<1>a. /\ late' = late \ {g} /\ table' = table \cup g
      /\ UNCHANGED <<memberVars, callerVars, handles, replaced, session, work, drops>>
  BY DEF CommitLate
<1>1. TypeOK'
  <2>1. MemberType'
    BY <1>0, <1>a DEF MemberType, memberVars
  <2>2. call' \in Call
    BY <1>0, <1>a DEF callerVars
  <2>3. result' \in Result
    BY <1>0, <1>a DEF callerVars
  <2>4. CountType'
    BY <1>0, <1>a DEF CountType
  <2>5. ServerType'
    BY <1>0, <1>a DEF ServerType
  <2>6. FateType'
    BY <1>0, <1>a DEF FateType, callerVars
  <2>7. TxType'
    BY <1>0, <1>a DEF TxType, callerVars
  <2> QED
    BY <2>1, <2>2, <2>3, <2>4, <2>5, <2>6, <2>7
    DEF TypeOK, MemberType, Result, CountType, ServerType, FateType, TxType
<1>2. LeaksAreReplaced'
  BY <1>a DEF IInv, LeaksAreReplaced, memberVars
<1>3. VerdictMatchesCode'
  BY <1>a DEF IInv, VerdictMatchesCode, memberVars, callerVars
<1>4. Living'
  BY <1>a DEF IInv, Living, memberVars, callerVars
<1>5. Calling'
  BY <1>a DEF IInv, Calling, callerVars
<1>6. Unstored'
  BY <1>a DEF IInv, Unstored, Unexecuted, Storing, callerVars
<1>7. Autocommit'
  BY <1>a DEF IInv, Autocommit, AutocommitIsDurable, callerVars
<1>8. Together'
  BY <1>a DEF IInv, Together, Whole, callerVars
<1>9. Clean'
  BY <1>a DEF IInv, Clean, Apart, Kept, memberVars, callerVars
<1>10. Verdicts'
  BY <1>a DEF IInv, Verdicts, TransactionVerdict, Apart, callerVars
<1> QED
  BY <1>1, <1>2, <1>3, <1>4, <1>5, <1>6, <1>7, <1>8, <1>9, <1>10 DEF IInv

LEMMA ServerRefusesStep ==
  ASSUME IInv, ServerRefuses
  PROVE  IInv'
<1>0. /\ MemberType /\ call \in Call /\ result \in Result
      /\ CountType /\ ServerType /\ FateType /\ TxType
  BY TypeParts DEF IInv
<1>a. /\ call.phase = "sent" /\ session # "none" /\ call # Idle /\ mysql # NULL
      /\ UNCHANGED <<memberVars, result, fate, tx, handles, replaced, late, drops>>
  BY DEF IInv, ServerRefuses, Answer, Calling, Living
<1>b. mysql.inTrans \in BOOLEAN
  BY <1>0, <1>a DEF MemberType, Handle
<1>c. \/ UNCHANGED <<session, work, table>>
      \/ session' = "auto" /\ work' = {} /\ table' = table
      \/ /\ Sql(call.op) \in Commits
         /\ session' = "auto" /\ work' = {} /\ table' = table \cup work
  BY DEF ServerRefuses
<1>e. /\ call' \in Call /\ call' # Idle /\ call'.op = call.op /\ call'.arg = call.arg
      /\ call'.phase = "answered" /\ call'.reply = "refused" /\ call'.inTrans = mysql.inTrans
  BY <1>0, <1>b, AnswerEffect DEF ServerRefuses
<1>1. TypeOK'
  <2>1. MemberType'
    BY <1>0, <1>a DEF MemberType, memberVars
  <2>2. call' \in Call
    BY <1>e
  <2>3. result' \in Result
    BY <1>0, <1>a
  <2>4. CountType'
    BY <1>0, <1>a DEF CountType
  <2>5. ServerType'
    BY <1>0, <1>a, <1>c DEF ServerType
  <2>6. FateType'
    BY <1>0, <1>a DEF FateType
  <2>7. TxType'
    BY <1>0, <1>a DEF TxType
  <2> QED
    BY <2>1, <2>2, <2>3, <2>4, <2>5, <2>6, <2>7
    DEF TypeOK, MemberType, Result, CountType, ServerType, FateType, TxType
<1>2. LeaksAreReplaced'
  BY <1>a DEF IInv, LeaksAreReplaced, memberVars
<1>3. VerdictMatchesCode'
  BY <1>e DEF VerdictMatchesCode
<1>4. Living'
  BY <1>a, <1>c DEF IInv, Living, memberVars
<1>5. Calling'
  BY <1>a, <1>e DEF IInv, Calling
<1>6. Unstored'
  BY <1>a, <1>c, <1>e DEF IInv, Unstored, Unexecuted, Storing
<1>7. Autocommit'
  BY <1>a, <1>c, <1>e DEF IInv, Autocommit, AutocommitIsDurable
<1>8. Together'
  BY <1>a, <1>c DEF IInv, Together, Whole
<1>9. Clean'
  BY <1>a, <1>c, <1>e DEF IInv, Clean, Apart
<1>10. Verdicts'
  BY <1>e DEF Verdicts, TransactionVerdict
<1> QED
  BY <1>1, <1>2, <1>3, <1>4, <1>5, <1>6, <1>7, <1>8, <1>9, <1>10 DEF IInv

LEMMA ExecuteStep ==
  ASSUME IInv, Execute
  PROVE  IInv'
<1>0. /\ MemberType /\ call \in Call /\ result \in Result
      /\ CountType /\ ServerType /\ FateType /\ TxType
  BY TypeParts DEF IInv
<1>a. /\ call.phase = "sent" /\ session # "none" /\ call # Idle /\ mysql # NULL
      /\ UNCHANGED <<memberVars, result, fate, tx, handles, replaced, late, drops>>
  BY DEF IInv, Execute, Answer, Calling, Living
<1>b. call.op \in Method /\ (call.op = "execSQL" => call.arg \in Statement /\ fate[call.arg] = "sent")
  BY <1>0, <1>a DEF IInv, Calling, Call
<1>c. /\ session' = SessionAfter /\ (session' = "began") \in BOOLEAN
      /\ session' = CASE call.op = "shutdown" -> "none"
                      [] call.op = "startTransaction" -> "began"
                      [] call.op \in {"commit", "rollback", "createDB"} -> "auto"
                      [] OTHER -> session
  BY <1>b, SqlOf DEF Execute, SessionAfter
<1>e. PICK reply \in {"ok", "no rows"} :
      /\ call' \in Call /\ call' # Idle /\ call'.op = call.op /\ call'.arg = call.arg
      /\ call'.phase = "answered" /\ call'.reply = reply /\ call'.inTrans = (session' = "began")
  BY <1>0, <1>c, AnswerEffect DEF Execute
<1>f. /\ table' = table \cup (IF call.op \in {"startTransaction", "commit", "createDB"} THEN work
                              ELSE IF call.op = "execSQL" /\ session # "began" THEN {call.arg} ELSE {})
      /\ work' = IF session' # "began" \/ call.op = "startTransaction" THEN {}
                 ELSE IF call.op = "execSQL" THEN work \cup {call.arg} ELSE work
  BY <1>b, <1>c, SqlOf DEF Execute, Committed, Commits, Began
<1>1. TypeOK'
  <2>1. MemberType'
    BY <1>0, <1>a DEF MemberType, memberVars
  <2>2. call' \in Call
    BY <1>e
  <2>3. result' \in Result
    BY <1>0, <1>a
  <2>4. CountType'
    BY <1>0, <1>a DEF CountType
  <2>5. ServerType'
    BY <1>0, <1>a, <1>b, <1>c, <1>f DEF ServerType
  <2>6. FateType'
    BY <1>0, <1>a DEF FateType
  <2>7. TxType'
    BY <1>0, <1>a DEF TxType
  <2> QED
    BY <2>1, <2>2, <2>3, <2>4, <2>5, <2>6, <2>7
    DEF TypeOK, MemberType, Result, CountType, ServerType, FateType, TxType
<1>2. LeaksAreReplaced'
  BY <1>a DEF IInv, LeaksAreReplaced, memberVars
<1>3. VerdictMatchesCode'
  BY <1>e DEF VerdictMatchesCode
<1>4. Living'
  BY <1>a, <1>f DEF IInv, Living, memberVars
<1>5. Calling'
  BY <1>a, <1>e DEF IInv, Calling
<1>6. Unstored'
  BY <1>a, <1>e, <1>f DEF IInv, Unstored, Unexecuted, Storing, Calling
<1>7. Autocommit'
  BY <1>a, <1>c, <1>e, <1>f DEF IInv, Autocommit, AutocommitIsDurable
<1>8. Together'
  <2>1. /\ Whole(table) /\ Whole(work) /\ \A g \in late : Whole(g)
        /\ \A s \in tx.done : fate[s] = "pending"
    BY DEF IInv, Together
  <2>2. call.op = "execSQL" => call.arg \notin tx.done
    BY <1>b, <2>1
  <2>3. Whole(table)'
    BY <1>a, <1>f, <2>1, <2>2 DEF Whole
  <2>4. Whole(work)'
    <3>1. CASE work' = {}
      BY <3>1 DEF Whole
    <3>2. CASE work' = work
      BY <1>a, <2>1, <3>2 DEF Whole
    <3>3. CASE work' = work \cup {call.arg} /\ call.op = "execSQL"
      BY <1>a, <2>1, <2>2, <3>3 DEF Whole
    <3> QED
      BY <1>f, <3>1, <3>2, <3>3
  <2> QED
    BY <1>a, <2>1, <2>3, <2>4 DEF Together, Whole
<1>9. Clean'
  <2>1. call.op = "execSQL" => call.arg \notin tx.done /\ call.arg \notin Storing
    BY <1>a, <1>b DEF IInv, Together, Unstored, Unexecuted
  <2>2. CASE tx.open /\ tx.clean
    <3>1. mysql.inTrans /\ session = "began" /\ tx.done \subseteq work
      BY <1>0, <1>a, <2>2 DEF IInv, Clean, Kept, ServerType
    <3>2. Sql(call.op) \notin Commits => Apart
      BY <2>2 DEF IInv, Clean
    <3>3. (Sql(call.op) \notin Commits => Apart)'
      <4>1. SUFFICES ASSUME Sql(call.op) \notin Commits
                     PROVE  Apart'
        BY <1>e
      <4>2. call.op \notin {"startTransaction", "commit", "createDB"}
        BY <4>1, SqlOf DEF Commits
      <4>3. table' = table
        BY <1>f, <3>1, <4>2
      <4> QED
        BY <1>a, <3>2, <4>1, <4>3 DEF Apart
    <3>4. call.op = "commit" => tx.done \subseteq table'
      BY <1>f, <3>1
    <3>5. call.op \in Method \ {"startTransaction", "commit", "rollback", "createDB", "shutdown"} =>
            session' = "began" /\ tx.done \subseteq work'
      BY <1>c, <1>f, <3>1 DEF Method
    <3>6. call.op = "execSQL" => call.arg \in work' /\ call.arg \notin table' \cup UNION late'
      BY <1>a, <1>c, <1>f, <2>1, <3>1 DEF Storing
    <3>7. call.op = "startTransaction" => session' = "began"
      BY <1>c
    <3> QED
      BY <1>a, <1>b, <1>e, <3>3, <3>4, <3>5, <3>6, <3>7 DEF Clean, Kept
  <2>3. CASE ~(tx.open /\ tx.clean)
    BY <1>a, <1>c, <1>e, <2>3 DEF Clean
  <2> QED
    BY <2>2, <2>3
<1>10. Verdicts'
  BY <1>e DEF Verdicts, TransactionVerdict
<1> QED
  BY <1>1, <1>2, <1>3, <1>4, <1>5, <1>6, <1>7, <1>8, <1>9, <1>10 DEF IInv

LEMMA ReceiveRefusedStep ==
  ASSUME IInv, Receive, call.reply = "refused"
  PROVE  IInv'
<1>0. /\ MemberType /\ call \in Call /\ result \in Result
      /\ CountType /\ ServerType /\ FateType /\ TxType
  BY TypeParts DEF IInv
<1>a. call.phase = "answered" /\ call # Idle /\ obj = "live" /\ mysql \in Handle
  BY <1>0, IdleFields DEF IInv, Receive, Living, Calling, MemberType
<1>b. UNCHANGED <<obj, handles, replaced, serverVars, drops>> /\ mysql'.inTrans = call.inTrans
  BY <1>0, <1>a DEF Receive, Handle
<1>c. mysql' \in Handle /\ mysql' # NULL
  <2>1. mysql' \in Handle
    BY <1>0, <1>a DEF Receive, Handle, Call
  <2> QED
    BY <2>1, SomeHandle
<1>d. call.op \in Method /\ (call.op = "execSQL" => call.arg \in Statement /\ fate[call.arg] = "sent")
  BY <1>0, <1>a DEF IInv, Calling, Call
<1>e. /\ call' = Idle /\ errorCode' = "refused"
      /\ result' \in Result /\ result'.op = call.op /\ ~result'.ret
      /\ TxType' /\ ~tx'.clean /\ tx'.done \in {tx.done, {}}
      /\ tx.open \/ call.op = "startTransaction" => tx'.open
      /\ FateType'
      /\ \A s \in Statement : fate'[s] = IF call.op = "execSQL" /\ s = call.arg THEN "refused" ELSE fate[s]
  <2>1. Fail(call.op, call.arg, "refused")
    BY DEF Receive, Failed
  <2> QED
    BY <1>0, <1>d, <2>1, FailEffect
<1>1. TypeOK'
  <2>1. MemberType'
    BY <1>0, <1>b, <1>c, <1>e DEF MemberType
  <2>2. call' \in Call
    BY <1>e, IdleIsCall
  <2>3. result' \in Result
    BY <1>e
  <2>4. CountType'
    BY <1>0, <1>b DEF CountType
  <2>5. ServerType'
    BY <1>0, <1>b DEF ServerType, serverVars
  <2>6. FateType'
    BY <1>e
  <2>7. TxType'
    BY <1>e
  <2> QED
    BY <2>1, <2>2, <2>3, <2>4, <2>5, <2>6, <2>7
    DEF TypeOK, MemberType, Result, CountType, ServerType, FateType, TxType
<1>2. LeaksAreReplaced'
  BY <1>a, <1>b, <1>c, SomeHandle DEF IInv, LeaksAreReplaced
<1>3. VerdictMatchesCode'
  BY <1>e DEF VerdictMatchesCode
<1>4. Living'
  BY <1>a, <1>b, <1>c DEF IInv, Living, serverVars
<1>5. Calling'
  BY <1>e, IdleFields DEF Calling
<1>6. Unstored'
  BY <1>a, <1>b, <1>e, IdleFields DEF IInv, Unstored, Unexecuted, Storing, serverVars
<1>7. Autocommit'
  BY <1>b, <1>e, IdleFields DEF IInv, Autocommit, AutocommitIsDurable, serverVars
<1>8. Together'
  BY <1>b, <1>e DEF IInv, Together, Whole, Calling, TxType, serverVars
<1>9. Clean'
  BY <1>e, IdleFields DEF Clean
<1>10. Verdicts'
  BY <1>e DEF Verdicts, TransactionVerdict
<1> QED
  BY <1>1, <1>2, <1>3, <1>4, <1>5, <1>6, <1>7, <1>8, <1>9, <1>10 DEF IInv

LEMMA ReceiveOkStep ==
  ASSUME IInv, Receive, call.reply = "ok"
  PROVE  IInv'
<1>0. /\ MemberType /\ call \in Call /\ result \in Result
      /\ CountType /\ ServerType /\ FateType /\ TxType
  BY TypeParts DEF IInv
<1>a. call.phase = "answered" /\ call # Idle /\ obj = "live" /\ mysql \in Handle
  BY <1>0, IdleFields DEF IInv, Receive, Living, Calling, MemberType
<1>b. UNCHANGED <<obj, handles, replaced, serverVars, drops>> /\ mysql'.inTrans = call.inTrans
  BY <1>0, <1>a DEF Receive, Handle
<1>c. mysql' \in Handle /\ mysql' # NULL
  <2>1. mysql' \in Handle
    BY <1>0, <1>a DEF Receive, Handle, Call
  <2> QED
    BY <2>1, SomeHandle
<1>d. call.op \in Method /\ (call.op = "execSQL" => call.arg \in Statement /\ fate[call.arg] = "sent")
  BY <1>0, <1>a DEF IInv, Calling, Call
<1>e. /\ call' = Idle /\ (call.op # "querySQL" => errorCode' = "0") /\ errorCode' \in {"0", errorCode}
      /\ result' \in Result /\ result'.op = call.op /\ result'.ret
      /\ TxType'
      /\ tx'.done = IF call.op = "startTransaction" THEN {}
                    ELSE IF call.op = "execSQL" /\ tx.open /\ tx.clean THEN tx.done \cup {call.arg}
                    ELSE tx.done
      /\ tx'.open = (call.op = "startTransaction" \/ (tx.open /\ call.op \notin {"commit", "rollback"}))
      /\ tx'.clean => /\ call.op \notin {"createDB", "shutdown"}
                      /\ call.op = "startTransaction" \/ tx.clean
                      /\ call.op \in {"commit", "rollback"} => tx.open
      /\ FateType'
      /\ \A s \in Statement : fate'[s] = IF call.op = "execSQL" /\ s = call.arg
                                         THEN IF tx.open THEN "pending" ELSE "stored" ELSE fate[s]
  <2>1. Succeed(call.op, call.arg)
    BY DEF Receive, Failed
  <2> QED
    BY <1>0, <1>d, <2>1, SuccessEffect
<1>f. /\ tx.open /\ tx.clean =>
           /\ call.op \notin {"startTransaction", "commit", "createDB"} => Apart
           /\ call.op = "commit" => tx.done \subseteq table
           /\ call.op \notin {"startTransaction", "commit", "rollback", "createDB", "shutdown"} =>
                call.inTrans /\ Kept
           /\ call.op = "execSQL" => /\ session = "began" => call.arg \in work
                                     /\ call.arg \notin table \cup UNION late
      /\ call.op = "startTransaction" => call.inTrans /\ session # "auto"
  <2>1. call.op \notin {"startTransaction", "commit", "createDB"} => Sql(call.op) \notin Commits
    BY SqlOf DEF Commits
  <2> QED
    BY <1>a, <2>1 DEF IInv, Clean
<1>1. TypeOK'
  <2>1. MemberType'
    BY <1>0, <1>b, <1>c, <1>e DEF MemberType
  <2>2. call' \in Call
    BY <1>e, IdleIsCall
  <2>3. result' \in Result
    BY <1>e
  <2>4. CountType'
    BY <1>0, <1>b DEF CountType
  <2>5. ServerType'
    BY <1>0, <1>b DEF ServerType, serverVars
  <2>6. FateType'
    BY <1>e
  <2>7. TxType'
    BY <1>e
  <2> QED
    BY <2>1, <2>2, <2>3, <2>4, <2>5, <2>6, <2>7
    DEF TypeOK, MemberType, Result, CountType, ServerType, FateType, TxType
<1>2. LeaksAreReplaced'
  BY <1>a, <1>b, <1>c, SomeHandle DEF IInv, LeaksAreReplaced
<1>3. VerdictMatchesCode'
  BY <1>e DEF VerdictMatchesCode
<1>4. Living'
  BY <1>a, <1>b, <1>c DEF IInv, Living, serverVars
<1>5. Calling'
  BY <1>e, IdleFields DEF Calling
<1>6. Unstored'
  BY <1>b, <1>e, IdleFields DEF IInv, Unstored, Unexecuted, Storing, serverVars
<1>7. Autocommit'
  BY <1>a, <1>b, <1>e, IdleFields DEF IInv, Autocommit, AutocommitIsDurable, serverVars
<1>8. Together'
  <2>1. /\ Whole(table) /\ Whole(work) /\ \A g \in late : Whole(g)
        /\ \A s \in tx.done : fate[s] = "pending"
        /\ tx.done \subseteq Statement
    BY <1>0 DEF IInv, Together, TxType
  <2>2. CASE call.op = "execSQL" /\ tx.open /\ tx.clean
    <3>1. tx'.done = tx.done \cup {call.arg} /\ fate'[call.arg] = "pending"
      BY <1>d, <1>e, <2>2
    <3>2. call.arg \notin table \cup UNION late /\ Apart
      BY <1>f, <2>2
    <3>3. (tx.done \cup {call.arg}) \cap table = {} /\ \A g \in late : (tx.done \cup {call.arg}) \cap g = {}
      BY <3>2 DEF Apart
    <3>4. tx.done \cup {call.arg} \subseteq work \/ work = {}
      BY <1>0, <1>f, <2>2 DEF IInv, Kept, Living, ServerType
    <3>5. Whole(table)' /\ Whole(work)' /\ \A g \in late' : Whole(g)'
      BY <1>b, <3>1, <3>3, <3>4 DEF Whole, serverVars
    <3>6. \A s \in tx'.done : fate'[s] = "pending"
      BY <1>d, <1>e, <2>1, <3>1
    <3> QED
      BY <3>5, <3>6 DEF Together
  <2>3. CASE ~(call.op = "execSQL" /\ tx.open /\ tx.clean)
    <3>1. tx'.done \in {tx.done, {}}
      BY <1>e, <2>3
    <3>2. Whole(table)' /\ Whole(work)' /\ \A g \in late' : Whole(g)'
      BY <1>b, <2>1, <3>1 DEF Whole, serverVars
    <3>3. \A s \in tx'.done : fate'[s] = "pending"
      BY <1>d, <1>e, <2>1, <3>1
    <3> QED
      BY <3>2, <3>3 DEF Together
  <2> QED
    BY <2>2, <2>3
<1>9. Clean'
  <2>1. ASSUME tx'.open, tx'.clean
        PROVE  Apart' /\ mysql'.inTrans /\ Kept'
    <3>1. CASE call.op = "startTransaction"
      <4>1. tx'.done = {}
        BY <1>e, <3>1
      <4> QED
        BY <1>b, <1>f, <3>1, <4>1 DEF Apart, Kept, serverVars
    <3>2. CASE call.op = "execSQL"
      <4>1. tx.open /\ tx.clean
        BY <1>e, <2>1, <3>2
      <4>2. tx'.done = tx.done \cup {call.arg}
        BY <1>e, <3>2, <4>1
      <4> QED
        BY <1>b, <1>f, <3>2, <4>1, <4>2 DEF Apart, Kept, serverVars
    <3>3. CASE call.op \notin {"startTransaction", "execSQL"}
      <4>1. tx.open /\ tx.clean /\ call.op \notin {"commit", "rollback", "createDB", "shutdown"}
        BY <1>e, <2>1, <3>3
      <4>2. tx'.done = tx.done
        BY <1>e, <3>3
      <4> QED
        BY <1>b, <1>f, <3>3, <4>1, <4>2 DEF Apart, Kept, serverVars
    <3> QED
      BY <3>1, <3>2, <3>3
  <2> QED
    BY <1>c, <1>e, <2>1, IdleFields DEF Clean
<1>10. Verdicts'
  <2>1. call.op \in {"commit", "rollback"} /\ tx'.clean => tx.open /\ tx.clean /\ tx'.done = tx.done
    BY <1>e
  <2>2. call.op = "commit" /\ tx'.clean => tx'.done \subseteq table'
    BY <1>b, <1>f, <2>1 DEF serverVars
  <2>3. call.op = "rollback" /\ tx'.clean => Apart'
    BY <1>b, <1>f, <2>1 DEF Apart, serverVars
  <2>4. call.op = "rollback" /\ tx'.clean => tx'.done \cap table' = {}
    BY <2>3 DEF Apart
  <2> QED
    BY <1>e, <2>2, <2>3, <2>4 DEF Verdicts, TransactionVerdict
<1> QED
  BY <1>1, <1>2, <1>3, <1>4, <1>5, <1>6, <1>7, <1>8, <1>9, <1>10 DEF IInv

LEMMA NullSelectStep ==
  ASSUME IInv, NEW op, NEW arg, op = "selectDB", call = Idle, obj = "live", mysql = NULL,
         Return(op, arg, FALSE, "0"), UNCHANGED <<memberVars, handles, replaced, serverVars, drops>>
  PROVE  IInv'
<1>0. /\ MemberType /\ call \in Call /\ result \in Result
      /\ CountType /\ ServerType /\ FateType /\ TxType
  BY TypeParts DEF IInv
<1>a. op = "selectDB" /\ call = Idle /\ obj = "live" /\ mysql = NULL
      /\ UNCHANGED <<obj, mysql, errorCode, handles, replaced, session, work, late, table, drops>>
  BY DEF memberVars, serverVars
<1>b. call' = Idle /\ fate' = fate /\ result' = [op |-> op, ret |-> FALSE, charset |-> NoCharset]
  BY DEF Return
<1>c. TxType' /\ ~tx'.clean /\ tx'.open = tx.open /\ tx'.done = tx.done
  <2>1. tx' = [tx EXCEPT !.clean = FALSE]
    BY DEF Return, Noted
  <2> QED
    BY <1>0, <2>1 DEF TxType
<1>d. result' \in Result /\ result'.op = "selectDB" /\ ~result'.ret
  BY <1>a, <1>b DEF Result, Method
<1>1. TypeOK'
  <2>1. MemberType'
    BY <1>0, <1>a DEF MemberType
  <2>2. call' \in Call
    BY <1>0, <1>b
  <2>3. result' \in Result
    BY <1>d
  <2>4. CountType'
    BY <1>0 DEF CountType
  <2>5. ServerType'
    BY <1>0, <1>a DEF ServerType
  <2>6. FateType'
    BY <1>0, <1>b DEF FateType
  <2>7. TxType'
    BY <1>c
  <2> QED
    BY <2>1, <2>2, <2>3, <2>4, <2>5, <2>6, <2>7
    DEF TypeOK, MemberType, Result, CountType, ServerType, FateType, TxType
<1>2. LeaksAreReplaced'
  BY <1>a DEF IInv, LeaksAreReplaced
<1>3. VerdictMatchesCode'
  BY <1>b DEF VerdictMatchesCode
<1>4. Living'
  BY <1>a, <1>b DEF IInv, Living
<1>5. Calling'
  BY <1>b DEF IInv, Calling
<1>6. Unstored'
  BY <1>a, <1>b DEF IInv, Unstored, Unexecuted, Storing
<1>7. Autocommit'
  BY <1>a, <1>b, <1>c DEF IInv, Autocommit, AutocommitIsDurable
<1>8. Together'
  BY <1>a, <1>b, <1>c DEF IInv, Together, Whole
<1>9. Clean'
  BY <1>a, <1>b, <1>c DEF IInv, Clean
<1>10. Verdicts'
  BY <1>b DEF Verdicts, TransactionVerdict
<1> QED
  BY <1>1, <1>2, <1>3, <1>4, <1>5, <1>6, <1>7, <1>8, <1>9, <1>10 DEF IInv

LEMMA ReceiveStep == IInv /\ Receive => IInv'
BY ReceiveOkStep, ReceiveRefusedStep DEF Receive

LEMMA NullHandleStep ==
  ASSUME IInv, NEW op \in Method, NEW arg \in Arguments(op), NullHandle(op, arg)
  PROVE  IInv'
<1>1. call = Idle /\ obj = "live" /\ mysql = NULL
  BY DEF NullHandle, Ready
<1>2. CASE op = "selectDB"
  BY <1>1, <1>2, NullSelectStep DEF NullHandle
<1>3. CASE op # "selectDB"
  BY <1>3, CrashStep DEF NullHandle
<1> QED
  BY <1>2, <1>3

LEMMA NullResultStep == IInv /\ NullResult => IInv'
BY CrashStep DEF NullResult

LEMMA StutterStep == IInv /\ UNCHANGED vars => IInv'
<1>1. SUFFICES ASSUME IInv, UNCHANGED vars
               PROVE  IInv'
  OBVIOUS
<1>2. /\ UNCHANGED <<obj, mysql, errorCode, call, result, fate, tx, handles, replaced, drops>>
      /\ UNCHANGED <<session, work, late, table>>
  BY <1>1 DEF vars, memberVars, callerVars, serverVars
<1>3. TypeOK' /\ LeaksAreReplaced' /\ VerdictMatchesCode'
  BY <1>1, <1>2 DEF IInv, TypeOK, LeaksAreReplaced, VerdictMatchesCode
<1>4. Living' /\ Calling' /\ Unstored'
  BY <1>1, <1>2 DEF IInv, Living, Calling, Unstored, Unexecuted, Storing
<1>5. Autocommit' /\ Together'
  BY <1>1, <1>2 DEF IInv, Autocommit, AutocommitIsDurable, Together, Whole
<1>6. Clean' /\ Verdicts'
  BY <1>1, <1>2 DEF IInv, Clean, Apart, Kept, Verdicts, TransactionVerdict
<1> QED
  BY <1>3, <1>4, <1>5, <1>6 DEF IInv

-----------------------------------------------------------------------------
(* The invariant and what it implies.                                      *)

LEMMA InitIInv == Init => IInv
<1>1. SUFFICES ASSUME Init
               PROVE  IInv
  OBVIOUS
<1>2. TypeOK
  <2>1. call \in Call
    BY <1>1, IdleIsCall DEF Init
  <2>2. MemberType /\ result \in Result /\ CountType /\ ServerType /\ FateType /\ TxType
    BY <1>1, MysqlAssumption
       DEF Init, NoResult, NoTx, MemberType, Result, CountType, ServerType, FateType, TxType
  <2> QED
    BY <2>1, <2>2, TypeParts
<1>3. LeaksAreReplaced /\ VerdictMatchesCode /\ Living
  BY <1>1 DEF Init, NoResult, LeaksAreReplaced, VerdictMatchesCode, Method, Living
<1>4. Calling /\ Unstored
  BY <1>1, IdleFields DEF Init, Calling, Unstored, Unexecuted, Storing
<1>5. Autocommit /\ Together
  BY <1>1, IdleFields DEF Init, NoTx, Autocommit, AutocommitIsDurable, Together, Whole
<1>6. Clean /\ Verdicts
  BY <1>1, IdleFields DEF Init, NoTx, NoResult, Clean, Apart, Verdicts, TransactionVerdict
<1> QED
  BY <1>2, <1>3, <1>4, <1>5, <1>6 DEF IInv

LEMMA NextIInv == IInv /\ [Next]_vars => IInv'
<1>1. SUFFICES ASSUME IInv, [Next]_vars
               PROVE  IInv'
  OBVIOUS
<1>2. CASE Lifecycle
  BY <1>1, <1>2, ConstructStep, CloseStep, DestroyStep, ConnectFailsStep, ConnectReachesStep
     DEF Lifecycle
<1>3. CASE Issue
  BY <1>1, <1>3, SendStep, ReopenStep, FailFastStep, NullHandleStep DEF Issue
<1>4. CASE Server
  BY <1>1, <1>4, ExecuteStep, ServerRefusesStep, LinkDropStep, CommitLateStep DEF Server
<1>5. CASE Receive \/ ReceiveNothing \/ NullResult
  BY <1>1, <1>5, ReceiveStep, ReceiveNothingStep, NullResultStep
<1>6. CASE UNCHANGED vars
  BY <1>1, <1>6, StutterStep
<1> QED
  BY <1>1, <1>2, <1>3, <1>4, <1>5, <1>6 DEF Next

LEMMA IInvHolds == Spec => []IInv
BY InitIInv, NextIInv, PTL DEF Spec

\* Handles, session, call and the program's records have the values their
\* declarations allow, for any number of handles and of links that end.
THEOREM TypeCorrect == Spec => []TypeOK
<1>1. IInv => TypeOK
  BY DEF IInv
<1> QED
  BY <1>1, IInvHolds, PTL

\* What a program inserts between startTransaction() and the first failure is
\* stored together or not at all, whatever the library does behind its back.
THEOREM TransactionsAreAtomic == Spec => []AllOrNothing
<1>1. IInv => AllOrNothing
  BY DEF IInv, AllOrNothing, Together, Whole, Clean, Apart
<1> QED
  BY <1>1, IInvHolds, PTL

\* commit() and rollback() that return true have done what they are named for,
\* if no call has failed since startTransaction().
THEOREM CommitMeansStored == Spec => []TransactionVerdict
<1>1. IInv => TransactionVerdict
  BY DEF IInv, Verdicts
<1> QED
  BY <1>1, IInvHolds, PTL

\* Outside a transaction execSQL() returns true only for a stored statement.
THEOREM SuccessIsDurable == Spec => []AutocommitIsDurable
<1>1. IInv => AutocommitIsDurable
  BY DEF IInv, Autocommit
<1> QED
  BY <1>1, IInvHolds, PTL

\* A statement for which errorCode() names a refusal is nowhere at the server
\* and in no commit still under way.
THEOREM RefusedStaysOut == Spec => []RefusalIsFinal
<1>1. IInv => RefusalIsFinal
  BY DEF IInv, Unstored, Storing, RefusalIsFinal
<1> QED
  BY <1>1, IInvHolds, PTL

\* Only connect() on an object with a handle leaks one; none is closed twice.
THEOREM OnlyReplacedLeak == Spec => []LeaksAreReplaced
<1>1. IInv => LeaksAreReplaced
  BY DEF IInv
<1> QED
  BY <1>1, IInvHolds, PTL

\* errorCode() agrees with the value its method has returned.
THEOREM CodeExplainsVerdict == Spec => []VerdictMatchesCode
<1>1. IInv => VerdictMatchesCode
  BY DEF IInv
<1> QED
  BY <1>1, IInvHolds, PTL
=============================================================================
