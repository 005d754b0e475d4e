------------------------------ MODULE RedisStore ------------------------------
(***************************************************************************)
(* The methods of RedisClient on keys, strings, positions of lists, and    *)
(* hashes, called by clients of one server, each with an object and a      *)
(* connection of its own.  (Pushes and pops are in RedisQueue.)  What a    *)
(* method adds to the command path is how it puts its arguments into a     *)
(* command and how it decodes the reply into a verdict and its caller's    *)
(* variables.  A connection may end at any moment of a call; a command the *)
(* server has read may then still be carried out, for nobody.              *)
(*                                                                         *)
(* Methods that differ only in the name of the command or in a unit stand  *)
(* together: pexpire as expire, pexpireat as expireat, pttl as ttl, psetex *)
(* as setex; incrby, decr and decrby as incr with an increment.            *)
(***************************************************************************)
EXTENDS RedisCommands

CONSTANTS
  Client,
  Uses,        \* the methods each client calls
  Key,         \* the keys of the server
  CallKey,     \* those that are given to methods of one key
  Field, Value,
  KeyLists,    \* the vectors of keys given to mset(), msetnx() and mget()
  FieldLists,  \* the vectors of fields given to hmset() and hmget()
  Words,       \* the words each text falls into at its blanks
  Integers,    \* the times, offsets and increments callers give
  IntRange,    \* 2^32, the range of int and uint32_t, scaled down
  Databases,   \* what the server may hold when the clients come
  MaxCalls,    \* bound: calls of all clients
  MaxDrops     \* bound: connections that end

Method == Read \cup Write \cup {"expireat"}

\* The methods that have no key among their arguments, and those that put all
\* their arguments into one string and send that as the command.
Keyless == {"mset", "msetnx", "mget"}
Joining == Keyless \cup {"hmset", "hmget"}

\* Texts fall into texts; a key is not blank, and what it falls into is a key that
\* the server may have.
ASSUME StoreAssumption ==
  /\ Uses \in [Client -> SUBSET Method]
  /\ Words \in [Stored -> Seq(Stored)]
  /\ Key \cup Field \cup Value \subseteq Stored /\ CallKey \subseteq Key
  /\ KeyLists \subseteq Seq(Stored) /\ FieldLists \subseteq Seq(Stored) \ {<<>>}
  /\ \A k \in CallKey : Words[k] # <<>> /\ Words[k][1] \in Key
  /\ \A ks \in KeyLists : \A i \in DOMAIN ks : ToSet(Words[ks[i]]) \subseteq Key
  /\ Integers \subseteq Int /\ IntRange \in Nat \ {0} /\ IntRange % 2 = 0
  /\ MaxCalls \in Nat /\ MaxDrops \in Nat

DatabaseType(d) == d = [k \in Key |-> d[k]] /\ \A k \in Key : IsEntry(d[k])

ASSUME DatabaseAssumption == \A d \in Databases : DatabaseType(d)

VARIABLES
  db,       \* the server's keys
  orphans,  \* commands the server has read from connections that have ended
  call,     \* each client's method in progress
  link,     \* each client's context: "closed", "up", "down" (ended, unnoticed), "broken", "gone"
  out,      \* the variables each client passes for results, call after call
  tale,     \* of each call: what its caller was told, and what the server did
  drops     \* connections that have ended

vars == <<db, orphans, call, link, out, tale, drops>>

-----------------------------------------------------------------------------
(* What callers ask.                                                       *)

Half == IntRange \div 2

Unsigned == {"setex", "setbit", "setrange", "getbit", "lrange"}
Counting == {"incr", "incrbyfloat", "hincrby", "hincrbyfloat"}

IntegersOf(op) ==
  IF op \in {"expire", "lindex", "lset", "ltrim"} THEN Integers \cap (-Half .. Half - 1)
  ELSE IF op \in Unsigned THEN Integers \cap (0 .. IntRange - 1)
  ELSE IF op \in Counting \cup {"getrange"} THEN Integers
  ELSE {0}

WholeHash == {"hgetall", "hlen", "hkeys", "hvals"}

NamesOf(op) ==
  IF op \in Keyless THEN KeyLists
  ELSE IF op \in {"hmset", "hmget"} THEN FieldLists
  ELSE IF op \in {"rename", "renamenx"} THEN {<<k>> : k \in Key}
  ELSE IF op \in Insert THEN {<<v>> : v \in Value}
  ELSE IF op \in (HashRead \cup HashWrite) \ WholeHash THEN {<<f>> : f \in Field}
  ELSE {<<>>}

Pairing   == {"mset", "msetnx", "hmset"}
OneValued == {"set", "setnx", "setex", "getset", "append", "setrange", "lset", "hset", "hsetnx"}
             \cup Insert

\* The value of setbit() is a number, 0 or 1.
ValuesOf(op, names) ==
  IF op \in Pairing THEN [DOMAIN names -> Value]
  ELSE IF op \in OneValued THEN {<<v>> : v \in Value}
  ELSE IF op = "setbit" THEN {<<Decimal[0]>>, <<Decimal[1]>>}
  ELSE {<<>>}

Request(op, key, names, vals, n) ==
  [op |-> op, key |-> key, names |-> names, vals |-> vals, n |-> n]

\* Without those a method refuses to send: see Refuse.
Requests(op) ==
  UNION { { Request(op, k, names, vals, n) :
              k \in IF op \in Keyless THEN {NoStr} ELSE CallKey,
              vals \in ValuesOf(op, names),
              n \in IntegersOf(op) \ IF op = "setex" THEN {0} ELSE {} } :
          names \in NamesOf(op) }

-----------------------------------------------------------------------------
(* What is sent.                                                           *)

Arguments(q) ==
  (IF q.op \in Keyless THEN <<>> ELSE <<q.key>>)
  \o IF q.op \in Pairing THEN Alternated(q.names, q.vals) ELSE q.names \o q.vals

\* Mutant: every method puts its arguments into the format.
Sent_Joined(q) ==
  LET a == Arguments(q) IN FlattenSeq([i \in DOMAIN a |-> Words[a[i]]])

\* The words the server reads: redisCommand() keeps what stands for a %s in one
\* piece, and splits its format, which is where the joining methods put theirs.
Sent(q) ==
  LET a == Arguments(q) IN
  IF q.op \in Joining THEN FlattenSeq([i \in DOMAIN a |-> Words[a[i]]]) ELSE a

\* uint32_t and int64_t arguments printed with %d; increments have %lld.
Printed(q) ==
  IF q.op \in Unsigned \cup {"getrange"} THEN ((q.n + Half) % IntRange) - Half ELSE q.n

-----------------------------------------------------------------------------
(* What comes back.                                                        *)

\* Mutant: an integer reply has to be 1 in every method, as in execCmdBool.
Verdict_IntegerOne(op, r) ==
  /\ ~Failed(ReplyError(r))
  /\ r.type = "INTEGER" => r.integer = 1

\* mset() does not look at what execCmdBool() returns.
StringVerdict(op, r) ==
  IF op = "mset" THEN TRUE
  ELSE IF op \in {"exist", "rename", "renamenx", "expire", "persist", "set", "setnx", "msetnx", "setex"}
  THEN BoolResult(r)
  ELSE PlainResult(r) /\ (op = "mget" => r.type = "ARRAY")

ListVerdict(op, r) ==
  /\ PlainResult(r)
  /\ op \in {"lset", "ltrim"} => r.type = "STATUS"
  /\ op = "lrange" => r.element # <<>>
  /\ op \in Insert => r.integer \notin {-1, 0}

HashVerdict(op, r) ==
  /\ PlainResult(r)
  /\ op \in {"hgetall", "hkeys", "hvals"} => r.element # <<>>
  /\ op = "hexists" => r.integer = 1
  /\ op = "hmset" => r.type = "STATUS"
  /\ op = "hmget" => r.type = "ARRAY"

\* What the bool methods return.  strlen(), llen(), hlen() and hstrlen() return a
\* number: of these, whether reasonCode() is REDIS_NO_ERROR.
Verdict(op, r) ==
  CASE op \in ListRead \cup ListWrite -> ListVerdict(op, r)
    [] op \in HashRead \cup HashWrite -> HashVerdict(op, r)
    [] OTHER                         -> StringVerdict(op, r)

\* Mutant: a reply that never came is nothing to complain of.
Told_NullIsGood(op, r) ==
  IF r.type = "NULL" \/ Verdict(op, r) THEN "confirmed"
  ELSE IF r.type = "NIL" THEN "nil" ELSE "denied"

\* What a caller learns who looks at the verdict and, when it is false, at the
\* error code.  A failure of mset() is swallowed: its verdict is true.
Told(op, r) ==
  IF op = "mset" /\ Failed(ReplyError(r)) THEN "swallowed"
  ELSE IF Verdict(op, r) THEN "confirmed"
  ELSE CASE ReplyError(r).code = "REDIS_REPLY_NULL" -> "unknown"
         [] ReplyError(r).code = "REDIS_NIL"        -> "nil"
         [] OTHER                                   -> "denied"

\* The caller's variables: a number, a string, a vector and a map.
Variables(num, text, list, map) == [num |-> num, text |-> text, list |-> list, map |-> map]

Lengths == {"strlen", "llen", "hlen", "hstrlen"}
IntegerOut == {"del", "ttl", "incr", "append", "setrange", "hset", "hsetnx", "hincrby"}
TextOut    == {"get", "dump", "getrange", "getset", "lindex", "hget"}
KeyType    == {"string", "list", "set", "zset", "hash"}

OrText(t, other) == IF t = NoStr THEN other ELSE t
Elements(r, other) == [i \in DOMAIN r.element |-> OrText(r.element[i], other)]

\* The pairs of HGETALL.
Fields(r) ==
  LET n == Len(r.element) \div 2 IN
  [f \in {r.element[2 * i - 1] : i \in 1 .. n} |->
     r.element[2 * CHOOSE i \in 1 .. n : r.element[2 * i - 1] = f]]

\* The number a method gives whether or not there is one.
NoNumber(op)   == IF op = "llen" THEN -1 ELSE 0
Integer(op, r) == IF Failed(ReplyError(r)) THEN NoNumber(op) ELSE r.integer

StringFilled(op, r, o) ==
  CASE op = "type" -> IF r.str \in KeyType THEN [o EXCEPT !.text = r.str] ELSE o
    [] op = "mget" -> [o EXCEPT !.list = @ \o Elements(r, "nil")]
    [] op = "incrbyfloat" -> [o EXCEPT !.num = CHOOSE n \in Number : Decimal[n] = r.str]
    [] OTHER -> o

ListFilled(op, r, o) ==
  CASE op = "lrange" -> [o EXCEPT !.list = @ \o r.element]
    [] op \in Insert -> IF r.integer <= 0 THEN o ELSE [o EXCEPT !.num = r.integer]
    [] OTHER -> o

HashFilled(op, r, o) ==
  CASE op = "hdel"  -> IF r.integer = 0 THEN o ELSE [o EXCEPT !.num = r.integer]
    [] op = "hmget" -> [o EXCEPT !.list = @ \o Elements(r, "")]
    [] op \in {"hkeys", "hvals"} -> [o EXCEPT !.list = @ \o r.element]
    [] op = "hgetall" -> [o EXCEPT !.map = Merged(@, Fields(r))]
    [] op = "hincrbyfloat" -> [o EXCEPT !.num = CHOOSE n \in Number : Decimal[n] = r.str]
    [] OTHER -> o

\* What a method stores when getError() has found no error.
Filled(op, r, o) ==
  CASE op \in IntegerOut -> [o EXCEPT !.num = r.integer]
    [] op \in TextOut    -> [o EXCEPT !.text = r.str]
    [] op \in (ListRead \cup ListWrite) \ TextOut -> ListFilled(op, r, o)
    [] op \in (HashRead \cup HashWrite) \ (IntegerOut \cup TextOut) -> HashFilled(op, r, o)
    [] OTHER             -> StringFilled(op, r, o)

\* Mutant: a local variable without its = 0.
Decoded_Uninitialised(q, r, o) ==
  IF q.op \in {"strlen", "getbit"} /\ Failed(ReplyError(r)) THEN [o EXCEPT !.num = -IntRange]
  ELSE IF Failed(ReplyError(r)) THEN o
  ELSE Filled(q.op, r, o)

\* Mutant: mget() and hmget() pass over what does not exist.
Decoded_WithoutNil(q, r, o) ==
  IF q.op \in Lengths \cup {"getbit"} THEN [o EXCEPT !.num = Integer(q.op, r)]
  ELSE IF Failed(ReplyError(r)) \/ q.op = "setbit" THEN o
  ELSE IF q.op \in {"mget", "hmget"}
       THEN [o EXCEPT !.list = @ \o SelectSeq(r.element, LAMBDA t : t # NoStr)]
  ELSE Filled(q.op, r, o)

\* Mutant: execCmdString() assigns before it looks at the reply.
Decoded_Untested(q, r, o) ==
  IF q.op \in TextOut THEN [o EXCEPT !.text = OrText(r.str, "")]
  ELSE IF Failed(ReplyError(r)) THEN o
  ELSE Filled(q.op, r, o)

\* The caller's variables when the method returns.  The methods for lengths
\* return their number, getbit() and setbit() store theirs, also when there is
\* none; setbit() only if the new value is not 0.
Decoded(q, r, o) ==
  IF q.op \in Lengths \cup {"getbit"} THEN [o EXCEPT !.num = Integer(q.op, r)]
  ELSE IF q.op = "setbit"
       THEN IF q.vals = <<Decimal[0]>> THEN o ELSE [o EXCEPT !.num = Integer(q.op, r)]
  ELSE IF Failed(ReplyError(r)) THEN o
  ELSE Filled(q.op, r, o)

-----------------------------------------------------------------------------
(* The clients.                                                            *)

NoSnapshot == <<>>

Call(q, phase, n, reply, snap) ==
  [q |-> q, phase |-> phase, n |-> n, reply |-> reply, snap |-> snap]

Idle == Call(Request("none", NoStr, <<>>, <<>>, 0), "idle", 0, NullReply, NoSnapshot)

Tale(told, done) == [told |-> told, done |-> done]

\* Between two calls; past the last one nothing of the client matters.
MayCall(c) == call[c] = Idle /\ Len(tale) < MaxCalls

Send(c) ==
  /\ MayCall(c) /\ link[c] \in {"up", "down"}
  /\ \E op \in Uses[c] \ {"expireat"} : \E q \in Requests(op) :
       call' = [call EXCEPT ![c] = Call(q, "sent", Len(tale) + 1, NullReply, NoSnapshot)]
  /\ tale' = Append(tale, Tale("pending", "no"))
  /\ UNCHANGED <<db, orphans, link, out, drops>>

\* A method that finds a null pointer among its arguments, an empty vector or
\* map, or a timeout of 0 returns before it sends; what returns a number
\* returns 0 or -1.  Those without a key test nothing.
Refuse(c) ==
  /\ MayCall(c) /\ link[c] # "gone"
  /\ \E op \in Uses[c] \ Keyless :
       out' = IF op \in Lengths THEN [out EXCEPT ![c].num = NoNumber(op)] ELSE out
  /\ tale' = Append(tale, Tale("denied", "no"))
  /\ UNCHANGED <<db, orphans, call, link, drops>>

\* The null pointers that are not tested for, in hiredis: incrbyfloat() has no
\* guard for the context, getset() none for the value, hstrlen() none for the
\* field, and expireat() leaves out its key, so that the time is taken for it.
\* setbit() of 1 stores the old bit through a pointer it does not test, whether or
\* not it has a reply: at once where nothing can be sent.
Dies(c) ==
  /\ MayCall(c)
  /\ \/ link[c] = "closed" /\ "incrbyfloat" \in Uses[c]
     \/ link[c] \in {"closed", "broken"} /\ "setbit" \in Uses[c]
     \/ link[c] \in {"up", "down", "broken"} /\ Uses[c] \cap {"getset", "hstrlen", "expireat"} # {}
  /\ link' = [link EXCEPT ![c] = "gone"]
  /\ UNCHANGED <<db, orphans, call, out, tale, drops>>

\* setbit() of 1 with a null pointer for the old bit, when redisCommand() returns:
\* the server may have set the bit, and nobody is told.
DiesStoring(c) ==
  /\ call[c].q.op = "setbit" /\ call[c].q.vals = <<Decimal[1]>>
  /\ call[c].phase = "answered" \/ link[c] = "down"
  /\ call' = [call EXCEPT ![c] = Idle]
  /\ link' = [link EXCEPT ![c] = "gone"]
  /\ UNCHANGED <<db, orphans, out, tale, drops>>

\* Without a context the guards return, with code REDIS_ERROR; on a context that
\* is broken redisCommand() returns NULL.
FailFast(c) ==
  /\ MayCall(c) /\ link[c] \in {"closed", "broken"}
  /\ \E op \in Uses[c] \ {IF link[c] = "broken" THEN "expireat" ELSE "incrbyfloat"} :
     \E q \in Requests(op) :
       LET r == IF link[c] = "broken" THEN NullReply
                ELSE ErrorReply(kErrorDesc["REDIS_NO_CONNECT"]) IN
       /\ out' = [out EXCEPT ![c] = Decoded(q, r, @)]
       /\ tale' = Append(tale, Tale(Told(op, r), "no"))
  /\ UNCHANGED <<db, orphans, call, link, drops>>

\* The method returns with r from redisCommand().
Return(c, r) ==
  LET q == call[c].q IN
  /\ out' = [out EXCEPT ![c] = Decoded(q, r, @)]
  /\ tale' = [tale EXCEPT ![call[c].n].told = Told(q.op, r)]
  /\ call' = [call EXCEPT ![c] = Idle]

Receive(c) ==
  /\ call[c].phase = "answered"
  /\ Return(c, call[c].reply)
  /\ UNCHANGED <<db, orphans, link, drops>>

\* The connection has ended: redisCommand() returns NULL.
ReceiveNothing(c) ==
  /\ call[c] # Idle /\ link[c] = "down"
  /\ Return(c, NullReply)
  /\ link' = [link EXCEPT ![c] = "broken"]
  /\ UNCHANGED <<db, orphans, drops>>

\* connect() frees the context there is, and has none when it fails.
Connect(c) ==
  /\ MayCall(c) /\ link[c] \in {"closed", "down", "broken"}
  /\ \E l \in {"up", "closed"} : link' = [link EXCEPT ![c] = l]
  /\ UNCHANGED <<db, orphans, call, out, tale, drops>>

-----------------------------------------------------------------------------
(* The server and the network.                                             *)

Done(d) == IF d = db THEN "same" ELSE "changed"

Apply(c) ==
  /\ call[c].phase = "sent" /\ link[c] = "up"
  /\ LET q == call[c].q IN
     \E s \in Effects(db, q.op, Sent(q), Printed(q)) :
       /\ db' = s.db
       /\ call' = [call EXCEPT ![c] = Call(q, "answered", @.n, s.reply,
                                           IF q.op \in Read THEN db ELSE NoSnapshot)]
       /\ tale' = [tale EXCEPT ![call[c].n].done = Done(s.db)]
  /\ UNCHANGED <<orphans, link, out, drops>>

\* A command whose connection has ended is carried out for nobody, or forgotten
\* when the server notices.
Orphaned(o) ==
  /\ \/ \E s \in Effects(db, o.q.op, Sent(o.q), Printed(o.q)) :
          /\ db' = s.db
          /\ tale' = [tale EXCEPT ![o.n].done = Done(s.db)]
     \/ UNCHANGED <<db, tale>>
  /\ orphans' = orphans \ {o}
  /\ UNCHANGED <<call, link, out, drops>>

\* The time of a key runs out.
Vanish(k) ==
  /\ db[k].volatile
  /\ db' = [db EXCEPT ![k] = Absent]
  /\ UNCHANGED <<orphans, call, link, out, tale, drops>>

\* A command on its way may have reached the server before the connection ends.
LinkDrop(c) ==
  /\ link[c] = "up" /\ drops < MaxDrops /\ (call[c] # Idle \/ MayCall(c))
  /\ link' = [link EXCEPT ![c] = "down"]
  /\ drops' = drops + 1
  /\ orphans' \in {orphans} \cup
       IF call[c].phase = "sent" THEN {orphans \cup {[q |-> call[c].q, n |-> call[c].n]}} ELSE {}
  /\ UNCHANGED <<db, call, out, tale>>

-----------------------------------------------------------------------------

Init ==
  /\ db \in Databases
  /\ orphans = {}
  /\ call = [c \in Client |-> Idle]
  /\ link = [c \in Client |-> "up"]
  /\ out = [c \in Client |-> Variables(0, "", <<>>, <<>>)]
  /\ tale = <<>> /\ drops = 0

Next ==
  \/ \E o \in orphans : Orphaned(o)
  \/ \E k \in Key : Vanish(k)
  \/ \E c \in Client :
       \/ Send(c) \/ Refuse(c) \/ Dies(c) \/ DiesStoring(c) \/ FailFast(c)
       \/ Receive(c) \/ ReceiveNothing(c) \/ Connect(c) \/ Apply(c) \/ LinkDrop(c)

Spec == Init /\ [][Next]_vars

-----------------------------------------------------------------------------
(* What the methods promise.                                               *)

Texts == Stored \cup {NoStr, "", "nil"} \cup KeyType

\* Type invariant: a key has one type and a hash is not empty, calls are requests
\* with a tale to tell, and the caller's variables hold what they can hold: texts
\* and numbers the server has or counts to, -1 and -2 where a header says so.
TypeOK ==
  /\ DatabaseType(db)
  /\ \A o \in orphans : o.q.op \in Read \cup Write /\ o.n \in DOMAIN tale
  /\ \A c \in Client :
       /\ call[c].phase \in {"idle", "sent", "answered"}
       /\ call[c] # Idle => call[c].q.op \in Uses[c] /\ call[c].n \in DOMAIN tale
       /\ call[c].snap # NoSnapshot => DatabaseType(call[c].snap)
       /\ link[c] \in {"closed", "up", "down", "broken", "gone"}
       /\ out[c].num \in Nat \cup {-1, -2} \cup Number
       /\ out[c].text \in Texts \cup {Serialized}
       /\ ToSet(out[c].list) \subseteq Texts
       /\ \A f \in DOMAIN out[c].map : {f, out[c].map[f]} \subseteq Texts
  /\ tale \in Seq([ told : {"pending", "confirmed", "swallowed", "nil", "denied", "unknown"},
                     done : {"no", "same", "changed"} ])
  /\ drops \in 0 .. MaxDrops

\* What a method has returned true for has been carried out: never a command that
\* was lost with its connection, nor one that was not sent.  Of mset(), which
\* always returns true, only if reasonCode() is REDIS_NO_ERROR besides.
SuccessIsDone ==
  \A n \in DOMAIN tale : tale[n].told = "confirmed" => tale[n].done # "no"

\* A method that fails with another code than REDIS_REPLY_NULL and REDIS_NIL has
\* changed nothing and never will, whatever is still on its way: its caller can
\* try something else.  (REDIS_NIL does not say so: getset() of a new key.)
DenialChangesNothing ==
  \A n \in DOMAIN tale : tale[n].told = "denied" => tale[n].done # "changed"

\* No text of a request falls into words where it is put into a joined command,
\* and no integer is too large for %d.
Plain(q) ==
  /\ q.op \in Joining => \A i \in DOMAIN Arguments(q) :
                            Words[Arguments(q)[i]] = <<Arguments(q)[i]>>
  /\ Printed(q) = q.n

New(s, t) == SubSeq(t, Len(s) + 1, Len(t))

\* Whether a caller whose variables went from o to p by reading database d with
\* q, successfully or not, has been shown d as the header describes it.
Shows(q, d, ok, o, p) ==
  LET e == d[q.key]  h == e.hash  f == q.names[1]
      list == New(o.list, p.list) IN
  CASE q.op \in {"exist", "dump"} -> ok <=> e # Absent
    [] q.op = "ttl"      -> ok /\ p.num = TimeToLive(e)
    [] q.op = "type"     -> ok /\ (e # Absent => p.text = e.type)
    [] q.op = "get"      -> (ok <=> e.type = "string") /\ (ok => p.text = e.str)
    [] q.op = "getrange" -> ok => e.type \in {"none", "string"}
                                  /\ (q.n = 0 /\ e # Absent => p.text = e.str)
    [] q.op = "getbit"   -> ok => e.type \in {"none", "string"} /\ p.num \in {0, 1}
    [] q.op = "strlen"   -> ok => p.num = IF e = Absent THEN 0 ELSE Width[e.str]
    [] q.op = "mget"     -> ok => /\ Len(list) = Len(q.names)
                                  /\ \A i \in DOMAIN list : list[i] = OrText(d[q.names[i]].str, "nil")
    [] q.op = "llen"     -> p.num = IF ok THEN Len(e.list) ELSE -1
    [] q.op = "lindex"   -> IF q.n < 0 THEN ok => p.text \in ToSet(e.list)
                            ELSE (ok <=> q.n < Len(e.list)) /\ (ok => p.text = e.list[q.n + 1])
    [] q.op = "lrange"   -> (ok <=> q.n < Len(e.list)) /\ (ok => IsSuffix(list, e.list)
                                                              /\ Len(list) = Len(e.list) - q.n)
    [] q.op = "hmget"    -> ok => /\ Len(list) = Len(q.names)
                                  /\ \A i \in DOMAIN list : list[i] = OrText(Cell(h, q.names[i]), "")
    [] q.op = "hget"     -> (ok <=> f \in DOMAIN h) /\ (ok => p.text = h[f])
    [] q.op = "hexists"  -> ok <=> f \in DOMAIN h
    [] q.op = "hlen"     -> ok => p.num = Cardinality(DOMAIN h)
    [] q.op = "hstrlen"  -> ok => p.num = IF f \in DOMAIN h THEN Width[h[f]] ELSE 0
    [] q.op = "hkeys"    -> (ok <=> h # <<>>) /\ ToSet(list) = DOMAIN h
    [] q.op = "hvals"    -> (ok <=> h # <<>>) /\ Len(list) = Cardinality(DOMAIN h)
                                             /\ ToSet(list) = {h[g] : g \in DOMAIN h}
    [] q.op = "hgetall"  -> (ok <=> h # <<>>) /\ p.map = Merged(o.map, h)

\* A read shows its caller one moment of the server that lies within the call:
\* a vector of values is of one database, a verdict agrees with what it is about,
\* and containers gain what was read, behind or beside what they held.
ReadIsSnapshot ==
  [][\A c \in Client :
       LET q == call[c].q IN
       call[c].phase = "answered" /\ call'[c] = Idle /\ q.op \in Read /\ Plain(q)
         => LET told == tale'[call[c].n].told IN
            \/ told = "unknown"
            \/ Shows(q, call[c].snap, told = "confirmed", out[c], out'[c])]_vars

Named(q) ==
  (IF q.op \in Keyless THEN {} ELSE {q.key})
  \cup IF q.op \in Keyless \cup {"rename", "renamenx"} THEN ToSet(q.names) ELSE {}

SameBut(h, g, fields) ==
  \A f \in (DOMAIN h \cup DOMAIN g) \ fields : Cell(h, f) = Cell(g, f)

\* Whether q asks that the key k becomes e.
AsksFor(q, k, e) ==
  LET fields == ToSet(q.names)  h == db[k].hash IN
  CASE q.op \in {"set", "setnx", "setex", "getset"} -> e.str = q.vals[1]
    [] q.op \in {"mset", "msetnx"}   -> \E i \in DOMAIN q.names : q.names[i] = k /\ e.str = q.vals[i]
    [] q.op \in {"rename", "renamenx"} -> e \in {Absent, db[q.key]}
    [] q.op = "del"                  -> e = Absent
    [] q.op = "lset"                 -> \E i \in DOMAIN e.list : /\ e.list[i] = q.vals[1]
                                          /\ e.list = [db[k].list EXCEPT ![i] = q.vals[1]]
    [] q.op = "ltrim"                -> IsSuffix(e.list, db[k].list)
    [] q.op \in Insert               -> \E i \in DOMAIN e.list :
                                          /\ e.list[i] = q.vals[1]
                                          /\ RemoveAt(e.list, i) = db[k].list
                                          /\ LET j == IF q.op = "linsertAfter" THEN i - 1 ELSE i + 1 IN
                                             j \in DOMAIN e.list /\ e.list[j] = q.names[1]
    [] q.op \in {"incr", "incrbyfloat"} ->
         \E m \in Meaning(db[k].str) : m + q.n \in Number /\ e.str = Decimal[m + q.n]
    [] q.op \in {"hset", "hsetnx", "hmset"} ->
         SameBut(h, e.hash, fields) /\ \A i \in DOMAIN q.names : Cell(e.hash, q.names[i]) = q.vals[i]
    [] q.op \in {"hdel", "hincrby", "hincrbyfloat"} -> SameBut(h, e.hash, fields)
    [] OTHER                         -> q.op \in Write

\* The server's keys change only as a call asks whose command is on its way, live
\* or orphaned, or by running out of time: no argument is taken for another, and
\* nothing is written that no caller named.
ChangesAsAsked ==
  [][\A k \in Key : db'[k] # db[k] =>
       \/ db[k].volatile /\ db'[k] = Absent
       \/ \E q \in { call[c].q : c \in {b \in Client : call[b].phase = "sent"} }
                  \cup { o.q : o \in orphans } :
            Plain(q) => k \in Named(q) /\ AsksFor(q, k, db'[k])]_vars

\* A method that fails leaves its caller's variables as they are, or sets the
\* number to 0 or -1: nothing of an earlier or a broken reply shows through.
FailureKeepsOutputs ==
  [][\A c \in Client : out'[c] # out[c] =>
       LET n == IF call[c] = Idle THEN Len(tale') ELSE call[c].n IN
       tale'[n].told = "confirmed" \/ \E i \in {0, -1} : out'[c] = [out[c] EXCEPT !.num = i]]_vars

-----------------------------------------------------------------------------
(* What the header says and the code does not do.                          *)

\* What a method has returned true for has been carried out, with no more said
\* of mset(): it fails when the connection does.
TrueIsDone ==
  \A n \in DOMAIN tale : tale[n].told \in {"confirmed", "swallowed"} => tale[n].done # "no"
=============================================================================
