---------------------------- MODULE RedisCommands ----------------------------
(***************************************************************************)
(* What a Redis server does with the key, string, list and hash commands   *)
(* that RedisClient sends: for a database d, the words of a command and    *)
(* the integer among its arguments, the databases and the replies that may *)
(* come of it.  Commands on a range of positions end it at -1, the last.   *)
(* The server is not in the repository.                                    *)
(***************************************************************************)
EXTENDS RedisReply, FiniteSets, SequencesExt

CONSTANTS
  Decimal,   \* the texts of the integers a value may count up to (64 bits, scaled down)
  Width,     \* the length of every text that can be stored
  Edited     \* the text that APPEND, SETRANGE and SETBIT make of any other

Number == DOMAIN Decimal
Stored == DOMAIN Width

ASSUME CommandsAssumption ==
  /\ {0, 1} \subseteq Number /\ Number \subseteq Int
  /\ \A n \in Number : Decimal[n] \in Stored
  /\ \A m, n \in Number : Decimal[m] = Decimal[n] => m = n
  /\ \A t \in Stored : Width[t] \in Nat
  /\ Edited \in Stored /\ NoStr \notin Stored

-----------------------------------------------------------------------------
(* A key's entry; a hash is a function from its fields.                    *)

Entry(type, str, list, hash) ==
  [type |-> type, str |-> str, list |-> list, hash |-> hash, volatile |-> FALSE]

Absent      == Entry("none", NoStr, <<>>, <<>>)
String(t)   == Entry("string", t, <<>>, <<>>)
List(l)     == Entry("list", NoStr, l, <<>>)
Hash(h)     == Entry("hash", NoStr, <<>>, h)
Volatile(e) == [e EXCEPT !.volatile = TRUE]
Lasting(e)  == [e EXCEPT !.volatile = FALSE]

\* A key has one type, and what it holds is of that type and not empty.
IsEntry(e) ==
  /\ e = [ type |-> e.type, str |-> e.str, list |-> e.list, hash |-> e.hash,
           volatile |-> e.volatile ]
  /\ e.type \in {"none", "string", "list", "hash"} /\ e.volatile \in BOOLEAN
  /\ e.str \in Stored \cup {NoStr} /\ e.list \in Seq(Stored)
  /\ e.hash \in [DOMAIN e.hash -> Stored]
  /\ IsFiniteSet(DOMAIN e.hash) /\ DOMAIN e.hash \subseteq Stored
  /\ e.str # NoStr <=> e.type = "string"
  /\ e.list # <<>> <=> e.type = "list"
  /\ e.hash # <<>> <=> e.type = "hash"
  /\ e = Absent <=> e.type = "none"

\* The hash of the field x alone.
One(x, y) == [z \in {x} |-> y]

\* What is in g, and what is in h alone.
Merged(g, h) ==
  [x \in DOMAIN g \cup DOMAIN h |-> IF x \in DOMAIN g THEN g[x] ELSE h[x]]

\* A key with an empty list or hash does not exist.
Relisted(e, l) == IF l = <<>> THEN Absent ELSE [e EXCEPT !.list = l]
Rehashed(e, h) == IF DOMAIN h = {} THEN Absent ELSE [e EXCEPT !.type = "hash", !.hash = h]

Flag(b) == IF b THEN 1 ELSE 0

Alternated(s, t) == FlattenSeq(Zip(s, t))

\* What DUMP makes of a key; its text does not matter here.
Serialized == "serialized"

-----------------------------------------------------------------------------
(* The commands, by the name of the client's method.                       *)

KeyRead    == {"exist", "dump", "ttl", "type"}
StringRead == {"get", "mget", "getbit", "getrange", "strlen"}
ListRead   == {"llen", "lindex", "lrange"}
HashRead   == {"hget", "hgetall", "hexists", "hlen", "hstrlen", "hkeys", "hvals", "hmget"}
Read       == KeyRead \cup StringRead \cup ListRead \cup HashRead

KeyWrite    == {"del", "rename", "renamenx", "expire", "persist"}
Edit        == {"append", "setrange", "setbit"}
StringWrite == {"set", "setnx", "mset", "msetnx", "setex", "getset", "incr", "incrbyfloat"} \cup Edit
Insert      == {"linsertBefroe", "linsertAfter"}
ListWrite   == {"lset", "ltrim"} \cup Insert
HashWrite   == {"hset", "hsetnx", "hdel", "hincrby", "hincrbyfloat", "hmset"}
Write       == KeyWrite \cup StringWrite \cup ListWrite \cup HashWrite

\* MSET and MSETNX want pairs, HMSET pairs behind its key.
WrongArity(op, a) ==
  \/ op \in {"mset", "msetnx"} /\ (a = <<>> \/ Len(a) % 2 = 1)
  \/ op = "hmset" /\ Len(a) % 2 = 0
  \/ op = "mget" /\ a = <<>>

OutOfRange(op, n) ==
  \/ op = "setex" /\ n <= 0
  \/ op \in {"getbit", "setbit", "setrange"} /\ n < 0

\* SET and its kin replace a value of any type, MGET passes over it.
WrongType(d, op, a) ==
  \/ /\ op \in (StringRead \cup StringWrite) \ {"set", "setnx", "mset", "msetnx", "setex", "mget"}
     /\ d[a[1]].type \notin {"none", "string"}
  \/ op \in ListRead \cup ListWrite /\ d[a[1]].type \notin {"none", "list"}
  \/ op \in HashRead \cup HashWrite /\ d[a[1]].type \notin {"none", "hash"}

TextOrNil(t) == IF t = NoStr THEN NilReply ELSE StringReply(t)
Cell(h, f) == IF f \in DOMAIN h THEN h[f] ELSE NoStr

\* GETRANGE key start -1 of a text of one character.
Part(e, start) == IF e = Absent \/ start > 0 THEN "" ELSE e.str

\* The place in a list a position leads to, which counts from 0, or from the end
\* when it is negative; and the rest of the list from there.
Place(l, n) == IF n < 0 THEN Len(l) + n + 1 ELSE n + 1
From(l, n)  == SubSeq(l, IF Place(l, n) < 1 THEN 1 ELSE Place(l, n), Len(l))

TimeToLive(e) == IF e = Absent THEN -2 ELSE IF e.volatile THEN 1 ELSE -1

ReadReplies(d, op, a, n) ==
  LET e == d[a[1]]  h == e.hash  fields == SetToSeq(DOMAIN h) IN
  CASE op = "exist"    -> {IntegerReply(Flag(e # Absent))}
    [] op = "dump"     -> {IF e = Absent THEN NilReply ELSE StringReply(Serialized)}
    [] op = "ttl"      -> {IntegerReply(TimeToLive(e))}
    [] op = "type"     -> {StatusReply(e.type)}
    [] op = "get"      -> {TextOrNil(e.str)}
    [] op = "mget"     -> {ArrayReply([i \in DOMAIN a |-> d[a[i]].str])}
    [] op = "getbit"   -> {IntegerReply(0), IntegerReply(1)}
    [] op = "getrange" -> {StringReply(Part(e, n))}
    [] op = "strlen"   -> {IntegerReply(IF e = Absent THEN 0 ELSE Width[e.str])}
    [] op = "llen"     -> {IntegerReply(Len(e.list))}
    [] op = "lindex"   -> {IF Place(e.list, n) \in DOMAIN e.list
                           THEN StringReply(e.list[Place(e.list, n)]) ELSE NilReply}
    [] op = "lrange"   -> {ArrayReply(From(e.list, n))}
    [] op = "hget"     -> {TextOrNil(Cell(h, a[2]))}
    [] op = "hexists"  -> {IntegerReply(Flag(a[2] \in DOMAIN h))}
    [] op = "hlen"     -> {IntegerReply(Cardinality(DOMAIN h))}
    [] op = "hstrlen"  -> {IntegerReply(IF a[2] \in DOMAIN h THEN Width[h[a[2]]] ELSE 0)}
    [] op = "hkeys"    -> {ArrayReply(fields)}
    [] op = "hvals"    -> {ArrayReply([i \in DOMAIN fields |-> h[fields[i]]])}
    [] op = "hgetall"  -> {ArrayReply(Alternated(fields, [i \in DOMAIN fields |-> h[fields[i]]]))}
    [] op = "hmget"    -> {ArrayReply([i \in 1 .. Len(a) - 1 |-> Cell(h, a[i + 1])])}

-----------------------------------------------------------------------------

Outcome(d, r) == [db |-> d, reply |-> r]

\* The function of the pairs from place i on; of a name given twice the last value.
Pairs(a, i) ==
  LET places == {j \in i .. Len(a) - 1 : (j - i) % 2 = 0} IN
  [x \in {a[j] : j \in places} |-> a[Max({j \in places : a[j] = x}) + 1]]

\* The numbers a text, or no text, stands for, and counting n on from it.
Meaning(t)       == IF t = NoStr THEN {0} ELSE {m \in Number : Decimal[m] = t}
CanCount(t, n) == \E m \in Meaning(t) : m + n \in Number
Counted(t, n)  == n + CHOOSE m \in Meaning(t) : TRUE

CountReply(op, m) ==
  IF op \in {"incrbyfloat", "hincrbyfloat"} THEN StringReply(Decimal[m]) ELSE IntegerReply(m)

KeyOutcome(d, op, a, n) ==
  LET k == a[1]  e == d[k]  Put(x, i) == Outcome([d EXCEPT ![k] = x], IntegerReply(i)) IN
  CASE op = "del"     -> Put(Absent, Flag(e # Absent))
    [] op = "expire"  -> IF e = Absent THEN Outcome(d, IntegerReply(0))
                         ELSE Put(IF n <= 0 THEN Absent ELSE Volatile(e), 1)
    [] op = "persist" -> IF e.volatile THEN Put(Lasting(e), 1) ELSE Outcome(d, IntegerReply(0))
    [] op \in {"rename", "renamenx"} ->
         IF e = Absent THEN Outcome(d, ErrorReply("no such key"))
         ELSE IF op = "renamenx" /\ d[a[2]] # Absent THEN Outcome(d, IntegerReply(0))
         ELSE Outcome([d EXCEPT ![k] = Absent, ![a[2]] = e],
                      IF op = "rename" THEN StatusReply("OK") ELSE IntegerReply(1))

StringOutcome(d, op, a, n) ==
  LET k == a[1]  e == d[k]
      Put(x, r) == Outcome([d EXCEPT ![k] = x], r)
      all == Pairs(a, 1)
      merged == [x \in DOMAIN d |-> IF x \in DOMAIN all THEN String(all[x]) ELSE d[x]] IN
  CASE op = "set"    -> Put(String(a[2]), StatusReply("OK"))
    [] op = "setnx"  -> IF e = Absent THEN Put(String(a[2]), IntegerReply(1))
                        ELSE Outcome(d, IntegerReply(0))
    [] op = "setex"  -> Put(Volatile(String(a[2])), StatusReply("OK"))
    [] op = "getset" -> Put(String(a[2]), TextOrNil(e.str))
    [] op = "mset"   -> Outcome(merged, StatusReply("OK"))
    [] op = "msetnx" -> IF \E x \in DOMAIN all : d[x] # Absent THEN Outcome(d, IntegerReply(0))
                        ELSE Outcome(merged, IntegerReply(1))
    [] op \in {"incr", "incrbyfloat"} ->
         IF CanCount(e.str, n)
         THEN Put([e EXCEPT !.type = "string", !.str = Decimal[Counted(e.str, n)]],
                  CountReply(op, Counted(e.str, n)))
         ELSE Outcome(d, ErrorReply("not an integer or out of range"))
    [] op \in Edit -> Put([e EXCEPT !.type = "string", !.str = Edited],
                          IntegerReply(IF op = "setbit" THEN 0 ELSE Width[Edited]))

ListOutcome(d, op, a, n) ==
  LET k == a[1]  e == d[k]  l == e.list
      Put(m, r) == Outcome([d EXCEPT ![k] = Relisted(e, m)], r) IN
  CASE op = "lset"  -> IF Place(l, n) \in DOMAIN l
                       THEN Put([l EXCEPT ![Place(l, n)] = a[2]], StatusReply("OK"))
                       ELSE Outcome(d, ErrorReply("no such key"))
    [] op = "ltrim" -> Put(From(l, n), StatusReply("OK"))
    [] op \in Insert ->
         IF e = Absent THEN Outcome(d, IntegerReply(0))
         ELSE IF a[2] \notin ToSet(l) THEN Outcome(d, IntegerReply(-1))
         ELSE LET i == SelectInSeq(l, LAMBDA t : t = a[2]) IN
              Put(InsertAt(l, IF op = "linsertAfter" THEN i + 1 ELSE i, a[3]),
                  IntegerReply(Len(l) + 1))

HashOutcome(d, op, a, n) ==
  LET k == a[1]  e == d[k]  h == e.hash
      Put(g, r) == Outcome([d EXCEPT ![k] = Rehashed(e, g)], r) IN
  CASE op = "hset"   -> Put(Merged(One(a[2], a[3]), h), IntegerReply(Flag(a[2] \notin DOMAIN h)))
    [] op = "hsetnx" -> Put(Merged(h, One(a[2], a[3])), IntegerReply(Flag(a[2] \notin DOMAIN h)))
    [] op = "hdel"   -> Put([f \in DOMAIN h \ {a[2]} |-> h[f]],
                            IntegerReply(Flag(a[2] \in DOMAIN h)))
    [] op = "hmset"  -> Put(Merged(Pairs(a, 2), h), StatusReply("OK"))
    [] op \in {"hincrby", "hincrbyfloat"} ->
         LET t == Cell(h, a[2]) IN
         IF CanCount(t, n)
         THEN Put(Merged(One(a[2], Decimal[Counted(t, n)]), h), CountReply(op, Counted(t, n)))
         ELSE Outcome(d, ErrorReply("not an integer or out of range"))

\* A server without memory refuses what may grow the database.
Growing == (StringWrite \cup ListWrite \cup HashWrite) \ {"ltrim", "hdel"}

Effects(d, op, a, n) ==
  IF WrongArity(op, a) THEN {Outcome(d, ErrorReply("wrong number of arguments"))}
  ELSE IF OutOfRange(op, n) THEN {Outcome(d, ErrorReply("out of range"))}
  ELSE IF WrongType(d, op, a) THEN {Outcome(d, ErrorReply("WRONGTYPE"))}
  ELSE IF op \in Read THEN {Outcome(d, r) : r \in ReadReplies(d, op, a, n)}
  ELSE   { IF op \in KeyWrite THEN KeyOutcome(d, op, a, n)
           ELSE IF op \in StringWrite THEN StringOutcome(d, op, a, n)
           ELSE IF op \in ListWrite THEN ListOutcome(d, op, a, n)
           ELSE HashOutcome(d, op, a, n) }
    \cup IF op \in Growing THEN {Outcome(d, ErrorReply("OOM"))} ELSE {}
=============================================================================
