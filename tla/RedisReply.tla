------------------------------ MODULE RedisReply ------------------------------
(***************************************************************************)
(* The vocabulary RedisClient shares between all its methods: error codes  *)
(* and their descriptions, the redisReply that hiredis hands over, the     *)
(* verdict getError() passes on it, and the three execCmd* decoders.       *)
(***************************************************************************)
EXTENDS Integers, Sequences

\* REDIS_ERROR_CODE without its bound REDIS_BOTTOM.
ErrorCode == {"REDIS_NO_ERROR", "REDIS_REPLY_NULL", "REDIS_NO_CONNECT",
              "REDIS_NO_PIVOT", "REDIS_NO_KEY", "REDIS_NO_FIELD",
              "REDIS_INDEX", "REDIS_NIL", "REDIS_ERROR"}

kErrorDesc == [ c \in ErrorCode |->
  CASE c = "REDIS_NO_ERROR"   -> "No Error"
    [] c = "REDIS_REPLY_NULL" -> "NULL Pointer"
    [] c = "REDIS_NO_CONNECT" -> "No Connection To The Redis Server"
    [] c = "REDIS_NO_PIVOT"   -> "Inser Error, Pivot Not Found."
    [] c = "REDIS_NO_KEY"     -> "Key Not Found"
    [] c = "REDIS_NO_FIELD"   -> "Hash Field Not Found"
    [] c = "REDIS_INDEX"      -> "Redis Error Index"
    [] c = "REDIS_NIL"        -> "Redis Error Nil"
    [] c = "REDIS_ERROR"      -> "Redis Error" ]

\* errorCode_ and errorMsg_ together; Text is the set of texts in use.
Error(Text) == [code : ErrorCode, msg : Text]

DescText == {kErrorDesc[c] : c \in ErrorCode}

SetError(code) == [code |-> code, msg |-> kErrorDesc[code]]

\* JUST_RETUAN_IF_ERROR when its condition holds: the code is REDIS_ERROR
\* whatever the message says.
Refusal(msg) == [code |-> "REDIS_ERROR", msg |-> msg]

Failed(e) == e.code # "REDIS_NO_ERROR"

-----------------------------------------------------------------------------
(* redisReply: type, str, integer and element, zeroed where unused.        *)

NoStr == "<NULL>"                        \* the null char pointer

ReplyType == {"NULL", "STRING", "ARRAY", "INTEGER", "NIL", "STATUS", "ERROR"}

Reply(Text) == [ type : ReplyType, str : Text, integer : Int, element : Seq(Text) ]

TextReply(type, str) ==
  [type |-> type, str |-> str, integer |-> 0, element |-> <<>>]

NullReply      == TextReply("NULL", NoStr)        \* redisCommand() returned NULL
NilReply       == TextReply("NIL", NoStr)
StatusReply(s) == TextReply("STATUS", s)
ErrorReply(s)  == TextReply("ERROR", s)
StringReply(s) == TextReply("STRING", s)
IntegerReply(n) == [TextReply("INTEGER", NoStr) EXCEPT !.integer = n]
ArrayReply(es)  == [TextReply("ARRAY", NoStr) EXCEPT !.element = es]

-----------------------------------------------------------------------------

\* Mutant: the switch has no case REDIS_REPLY_ERROR.
ReplyError_NoErrorCase(r) ==
  CASE r.type = "NULL" -> SetError("REDIS_REPLY_NULL")
    [] r.type = "NIL"  -> SetError("REDIS_NIL")
    [] OTHER           -> SetError("REDIS_NO_ERROR")

\* bool getError(redisReply*): the error fields it leaves; it returns
\* Failed() of them.
ReplyError(r) ==
  CASE r.type = "NULL"  -> SetError("REDIS_REPLY_NULL")
    [] r.type = "NIL"   -> SetError("REDIS_NIL")
    [] r.type = "ERROR" -> [code |-> "REDIS_ERROR", msg |-> r.str]
    [] OTHER            -> SetError("REDIS_NO_ERROR")

\* execCmdBool: a status is success, anything else must carry the integer 1.
BoolResult(r) ==
  /\ ~Failed(ReplyError(r))
  /\ r.type = "STATUS" \/ r.integer = 1

\* Mutant: ret is set outside the test of getError().
PlainResult_Untested(r) == TRUE

\* execCmdInteger and execCmdString: any reply without error is success.
PlainResult(r) == ~Failed(ReplyError(r))
=============================================================================
