------------------------------ MODULE RedisQueue ------------------------------
(***************************************************************************)
(* Redis lists used as queues through the list methods of RedisClient.     *)
(* Every client is an object of its own with its own connection.  A        *)
(* connection may end at any moment of a call: before the server has read  *)
(* the command, while it blocks, or with the reply on its way; a command   *)
(* the server has read may then still be carried out, for nobody.          *)
(***************************************************************************)
EXTENDS RedisReply, FiniteSets, SequencesExt

CONSTANTS
  Producer, Consumer,  \* the clients
  Key,                 \* the lists, by name
  Queue,               \* the list producers push to
  Processing,          \* the list brpoplpush() moves elements to
  Joined,              \* the name "k1 k2" made of several keys
  Value,               \* the elements
  PushMethod,          \* the methods producers use
  PopMethod,           \* the methods consumers use
  KeySets,             \* the sets of keys given to blpop() and brpop()
  Timeout,             \* the timeouts given to the blocking methods
  IntRange,            \* 2^32, the range of uint32_t, scaled down
  Retries,             \* whether a producer pushes again what it was denied
  MaxAccepted,         \* bound: elements the server has room for
  MaxDrops             \* bound: connections that end

Client == Producer \cup Consumer

ASSUME QueueAssumption ==
  /\ Producer \cap Consumer = {} /\ IsFiniteSet(Consumer)
  /\ Queue \in Key /\ Processing \in Key /\ Queue # Processing
  /\ Joined \notin Key
  /\ PushMethod \subseteq {"lpush", "lpushx", "rpush", "rpushx"}
  /\ PopMethod \subseteq {"lpop", "rpop", "blpop", "brpop", "brpoplpush"}
  /\ KeySets \subseteq (SUBSET Key) \ {{}}
  /\ IntRange \in Nat \ {0} /\ Timeout \subseteq 0 .. IntRange - 1
  /\ Retries \in BOOLEAN
  /\ MaxAccepted \in Nat /\ MaxDrops \in Nat

VARIABLES
  lists,       \* the server's lists
  accepted,    \* history: the elements pushed to Queue, in the server's order
  call,        \* each client's method in progress
  link,        \* each client's connection: "up", "down" (ended, unnoticed), "broken"
  orphans,     \* commands the server has read from connections that have ended
  fate,        \* what each element's producer knows of it
  got,         \* the elements each consumer's methods have returned
  unanswered,  \* history: withdrawals that ended without a reply
  drops        \* connections that have ended

serverVars == <<lists, accepted, orphans>>
callerVars == <<fate, got, unanswered>>
vars == <<serverVars, call, link, callerVars, drops>>

-----------------------------------------------------------------------------
(* The commands the methods send.                                          *)

\* Mutant: brpop() passes "BLPOP" to bpop().
EndOf_BrpopLeft(op) ==
  IF op \in {"lpush", "lpushx", "lpop", "blpop", "brpop"} THEN "L" ELSE "R"

\* The end of the list a method works on.
EndOf(op) == IF op \in {"lpush", "lpushx", "lpop", "blpop"} THEN "L" ELSE "R"

Blocking == {"blpop", "brpop", "brpoplpush"}

\* Mutant: the loop appends its blank behind the last key too.
KeyName_TrailingBlank(op, keys) ==
  IF op \in {"blpop", "brpop"} THEN Joined ELSE CHOOSE k \in keys : TRUE

\* The vector overloads join the keys with blanks and pass the whole as one %s.
KeyName(op, keys) == IF Cardinality(keys) = 1 THEN CHOOSE k \in keys : TRUE ELSE Joined

\* Mutant: the timeout is given in milliseconds and divided.
Printed_Divided(n) == n \div 1000

\* The uint32_t timeout is printed with %d.
Printed(n) == IF 2 * n >= IntRange THEN n - IntRange ELSE n

\* key is the name sent, keys what the caller asked for.
Command(op, keys, value, timeout) ==
  [op |-> op, keys |-> keys, key |-> KeyName(op, keys), value |-> value,
   timeout |-> Printed(timeout)]

NoValue == NoStr

Pushable == {"fresh"} \cup (IF Retries THEN {"denied"} ELSE {})

Pushes(c) ==
  IF c \in Producer
  THEN { Command(op, {Queue}, v, 0) : op \in PushMethod,
           v \in { w \in Value : fate[w] \in Pushable } }
  ELSE {}

\* A consumer of a processing list takes the element it was given off that
\* list with lrem() when it is done with it.
Withdrawals(c) ==
  IF c \notin Consumer THEN {} ELSE
       { Command(op, {Queue}, NoValue, 0) : op \in PopMethod \cap {"lpop", "rpop"} }
  \cup { Command(op, ks, NoValue, t) : op \in PopMethod \cap {"blpop", "brpop"},
                                       ks \in KeySets, t \in Timeout }
  \cup { Command("brpoplpush", {Queue}, NoValue, t) :
           t \in IF "brpoplpush" \in PopMethod THEN Timeout ELSE {} }
  \cup { Command("lrem", {Processing}, v, 0) :
           v \in IF "brpoplpush" \in PopMethod THEN ToSet(got[c]) ELSE {} }

Pushing     == {"lpush", "lpushx", "rpush", "rpushx"}
Withdrawing == {"lpop", "rpop", "blpop", "brpop", "brpoplpush"}

-----------------------------------------------------------------------------
(* The server.                                                             *)

Added(list, end, v)  == IF end = "L" THEN <<v>> \o list ELSE Append(list, v)
Element(list, end)   == IF end = "L" THEN Head(list) ELSE Last(list)
Removed(list, end)   == IF end = "L" THEN Tail(list) ELSE Front(list)

\* Mutant: the arguments of LREM are swapped and the whole list goes.
Without_All(list, v) == <<>>

\* LREM key count value for the element a consumer is done with: count is 1.
Without(list, v) == RemoveFirst(list, v)

State(ls, acc, r) == [lists |-> ls, accepted |-> acc, reply |-> r]
Nothing(r) == State(lists, accepted, r)

\* What a push does: it stores, unless the server has no memory left for it or
\* the X variant meets an empty list.
PushEffect(cmd) ==
  LET list == Added(lists[cmd.key], EndOf(cmd.op), cmd.value) IN
  IF cmd.op \in {"lpushx", "rpushx"} /\ lists[cmd.key] = <<>>
  THEN {Nothing(IntegerReply(0))}
  ELSE IF Len(accepted) = MaxAccepted THEN {Nothing(ErrorReply("OOM"))}
  ELSE { State([lists EXCEPT ![cmd.key] = list], Append(accepted, cmd.value),
               IntegerReply(Len(list))),
         Nothing(ErrorReply("OOM")) }

RemoveEffect(cmd) ==
  LET rest == Without(lists[cmd.key], cmd.value) IN
  State([lists EXCEPT ![cmd.key] = rest], accepted,
        IntegerReply(Len(lists[cmd.key]) - Len(rest)))

\* What a pop, blocking or not, does with a list that is not empty.
PopEffect(cmd) ==
  LET v    == Element(lists[cmd.key], EndOf(cmd.op))
      rest == [lists EXCEPT ![cmd.key] = Removed(@, EndOf(cmd.op))] IN
  IF cmd.op = "brpoplpush"
  THEN State([rest EXCEPT ![Processing] = <<v>> \o @], accepted, StringReply(v))
  ELSE State(rest, accepted, IF cmd.op \in Blocking THEN ArrayReply(<<cmd.key, v>>)
                                                    ELSE StringReply(v))

\* The states the server may leave behind a command it carries out or refuses;
\* none while a blocking command has to wait.
Effects(cmd) ==
  IF cmd.timeout < 0 THEN {Nothing(ErrorReply("timeout is negative"))}
  ELSE IF cmd.op \in Pushing THEN PushEffect(cmd)
  ELSE IF cmd.op = "lrem" THEN {RemoveEffect(cmd)}
  ELSE IF lists[cmd.key] # <<>> THEN {PopEffect(cmd)}
  ELSE IF cmd.op \in Blocking THEN {} ELSE {Nothing(NilReply)}

\* Clients that block are served before the next command is read.
Settled ==
  \A c \in Consumer :
    call[c].phase = "waiting" /\ link[c] = "up" => Effects(call[c].cmd) = {}

Answer(c) ==
  \E s \in Effects(call[c].cmd) :
    /\ lists' = s.lists /\ accepted' = s.accepted
    /\ call' = [call EXCEPT ![c].phase = "answered", ![c].reply = s.reply]
    /\ UNCHANGED <<orphans, link, callerVars, drops>>

Apply(c) ==
  /\ call[c].phase = "sent" /\ link[c] = "up"
  /\ Settled
  /\ Answer(c)

Block(c) ==
  /\ call[c].phase = "sent" /\ link[c] = "up"
  /\ Effects(call[c].cmd) = {}
  /\ call' = [call EXCEPT ![c].phase = "waiting"]
  /\ UNCHANGED <<serverVars, link, callerVars, drops>>

Serve(c) ==
  /\ call[c].phase = "waiting" /\ link[c] = "up"
  /\ Answer(c)

\* A timeout of 0 never expires; an element comes before the timeout.
Expire(c) ==
  /\ call[c].phase = "waiting" /\ link[c] = "up"
  /\ call[c].cmd.timeout > 0 /\ Effects(call[c].cmd) = {}
  /\ call' = [call EXCEPT ![c].phase = "answered", ![c].reply = NilReply]
  /\ UNCHANGED <<serverVars, link, callerVars, drops>>

\* A command whose connection has ended is carried out for nobody, or forgotten
\* when the server notices.
Orphaned(o) ==
  /\ \/ /\ Settled
        /\ \E s \in Effects(o.cmd) : lists' = s.lists /\ accepted' = s.accepted
     \/ UNCHANGED <<lists, accepted>>
  /\ orphans' = orphans \ {o}
  /\ UNCHANGED <<call, link, callerVars, drops>>

-----------------------------------------------------------------------------
(* The clients.                                                            *)

Idle == [cmd |-> Command("none", {Queue}, NoValue, 0), phase |-> "idle", reply |-> NullReply]

\* Mutant: every method is judged as execCmdBool judges.
Verdict_AsBool(op, r) ==
  /\ ~Failed(ReplyError(r))
  /\ op \in {"blpop", "brpop"} => Len(r.element) = 2
  /\ op \in {"lpush", "rpush", "lpushx", "rpushx", "lrem"} => r.integer = 1

\* Mutant: lpushx() and rpushx() do not look at the length push() stored.
Verdict_NoLength(op, r) ==
  /\ ~Failed(ReplyError(r))
  /\ op \in {"blpop", "brpop"} => Len(r.element) = 2

\* Mutant: bpop() expects the element alone.
Verdict_OneElement(op, r) ==
  /\ ~Failed(ReplyError(r))
  /\ op \in {"lpushx", "rpushx", "lrem"} => r.integer # 0
  /\ op \in {"blpop", "brpop"} => Len(r.element) = 1

\* true of bool methods; lrem() returns a count, 0 for every failure.
Verdict(op, r) ==
  /\ ~Failed(ReplyError(r))
  /\ op \in {"lpushx", "rpushx", "lrem"} => r.integer # 0
  /\ op \in {"blpop", "brpop"} => Len(r.element) = 2

\* Mutant: bpop() hands out element[0], the key.
Handed_Key(op, r) ==
  IF op \notin Withdrawing \/ ~Verdict(op, r) THEN <<>>
  ELSE IF op \in {"blpop", "brpop"} THEN <<r.element[1]>> ELSE <<r.str>>

\* The element a method hands to its caller.
Handed(op, r) ==
  IF op \notin Withdrawing \/ ~Verdict(op, r) THEN <<>>
  ELSE IF op \in {"blpop", "brpop"} THEN <<r.element[2]>> ELSE <<r.str>>

Told(cmd, r) == IF Verdict(cmd.op, r) THEN "confirmed" ELSE "denied"

\* Mutant: the caller's string keeps its last content and pop() returns true.
Return_Stale(c, cmd, r) ==
  /\ call' = [call EXCEPT ![c] = Idle]
  /\ fate' = IF cmd.op \in Pushing THEN [fate EXCEPT ![cmd.value] = Told(cmd, r)] ELSE fate
  /\ got' = IF c \notin Consumer THEN got
            ELSE IF r.type = "NIL" /\ Len(got[c]) = 1
                 THEN [got EXCEPT ![c] = Append(@, Last(@))]
                 ELSE [got EXCEPT ![c] = @ \o Handed(cmd.op, r)]

\* The method with cmd returns to its caller with r.
Return(c, cmd, r) ==
  /\ call' = [call EXCEPT ![c] = Idle]
  /\ fate' = IF cmd.op \in Pushing THEN [fate EXCEPT ![cmd.value] = Told(cmd, r)] ELSE fate
  /\ got' = IF c \in Consumer THEN [got EXCEPT ![c] = @ \o Handed(cmd.op, r)] ELSE got

Send(c) ==
  /\ call[c] = Idle /\ link[c] # "broken"
  /\ \E cmd \in Pushes(c) \cup Withdrawals(c) :
       /\ call' = [call EXCEPT ![c].cmd = cmd, ![c].phase = "sent"]
       /\ fate' = IF cmd.op \in Pushing THEN [fate EXCEPT ![cmd.value] = "pushing"] ELSE fate
  /\ UNCHANGED <<serverVars, link, got, unanswered, drops>>

\* Without a usable context the method returns at once.
FailFast(c) ==
  /\ call[c] = Idle /\ link[c] = "broken"
  /\ \E cmd \in Pushes(c) \cup Withdrawals(c) : Return(c, cmd, NullReply)
  /\ UNCHANGED <<serverVars, link, unanswered, drops>>

Receive(c) ==
  /\ call[c].phase = "answered"
  /\ Return(c, call[c].cmd, call[c].reply)
  /\ UNCHANGED <<serverVars, link, unanswered, drops>>

\* The connection has ended: redisCommand() returns NULL.
ReceiveNothing(c) ==
  /\ call[c] # Idle /\ link[c] = "down"
  /\ Return(c, call[c].cmd, NullReply)
  /\ link' = [link EXCEPT ![c] = "broken"]
  /\ unanswered' = IF call[c].cmd.op \in Withdrawing THEN unanswered + 1 ELSE unanswered
  /\ UNCHANGED <<serverVars, drops>>

Connect(c) ==
  /\ call[c] = Idle /\ link[c] # "up"
  /\ link' = [link EXCEPT ![c] = "up"]
  /\ UNCHANGED <<serverVars, call, callerVars, drops>>

\* A command on its way may have reached the server before the connection ends.
LinkDrop(c) ==
  /\ link[c] = "up" /\ drops < MaxDrops
  /\ link' = [link EXCEPT ![c] = "down"]
  /\ drops' = drops + 1
  /\ orphans' \in {orphans} \cup { orphans \cup {[cmd |-> cmd, n |-> drops]} :
       cmd \in IF call[c].phase \in {"sent", "waiting"} THEN {call[c].cmd} ELSE {} }
  /\ UNCHANGED <<lists, accepted, call, callerVars>>

-----------------------------------------------------------------------------

Init ==
  /\ lists = [k \in Key \cup {Joined} |-> <<>>]
  /\ accepted = <<>> /\ orphans = {}
  /\ call = [c \in Client |-> Idle]
  /\ link = [c \in Client |-> "up"]
  /\ fate = [v \in Value |-> "fresh"]
  /\ got = [c \in Consumer |-> <<>>]
  /\ unanswered = 0 /\ drops = 0

Next ==
  \/ \E o \in orphans : Orphaned(o)
  \/ \E c \in Client :
       \/ Send(c) \/ FailFast(c) \/ Receive(c) \/ ReceiveNothing(c)
       \/ Connect(c) \/ LinkDrop(c)
       \/ Apply(c) \/ Block(c) \/ Serve(c) \/ Expire(c)

Spec == Init /\ [][Next]_vars

\* The server works and time passes; a client inside a method is scheduled.
FairSpec ==
  /\ Spec
  /\ \A c \in Client :
       /\ WF_vars(Apply(c)) /\ WF_vars(Block(c)) /\ WF_vars(Serve(c)) /\ WF_vars(Expire(c))
       /\ WF_vars(Receive(c)) /\ WF_vars(ReceiveNothing(c))

-----------------------------------------------------------------------------
(* What the queue promises.                                                *)

Text == Value \cup Key \cup {Joined, NoStr, "OOM", "timeout is negative"}

CommandType ==
  [ op : PushMethod \cup PopMethod \cup {"lrem", "none"}, keys : SUBSET Key,
    key : Key \cup {Joined}, value : Value \cup {NoValue},
    timeout : -IntRange .. IntRange ]

\* Type invariant: lists hold elements only, consumers are handed elements only,
\* and every call in progress is one a client can have started.
TypeOK ==
  /\ lists \in [Key \cup {Joined} -> Seq(Value)]
  /\ accepted \in Seq(Value) /\ Len(accepted) <= MaxAccepted
  /\ call \in [Client -> [cmd : CommandType, reply : Reply(Text),
                          phase : {"idle", "sent", "waiting", "answered"}]]
  /\ link \in [Client -> {"up", "down", "broken"}]
  /\ orphans \subseteq [cmd : CommandType, n : 0 .. MaxDrops]
  /\ fate \in [Value -> {"fresh", "pushing", "denied", "confirmed"}]
  /\ got \in [Consumer -> Seq(Value)]
  /\ unanswered \in 0 .. MaxDrops /\ drops \in 0 .. MaxDrops

\* Producers that never push an element twice: no element is handed out twice,
\* to one consumer or to two, however connections end.
AtMostOnce ==
  \A c, d \in Consumer : \A i \in DOMAIN got[c], j \in DOMAIN got[d] :
    got[c][i] = got[d][j] => c = d /\ i = j

\* With pushes at one end and pops at the other each consumer receives its
\* elements in the order the server accepted them.
OrderKept ==
  \A c \in Consumer : \A i, j \in DOMAIN got[c] :
    i < j => \E a, b \in DOMAIN accepted :
               a < b /\ accepted[a] = got[c][i] /\ accepted[b] = got[c][j]

\* A push that returns true has stored its element: the true of a push on a
\* list that does not exist (lpushx, rpushx) or of a lost reply would be a lie.
ConfirmedIsStored ==
  \A v \in Value : fate[v] = "confirmed" => v \in ToSet(accepted)

\* Where an element the server has accepted can still be found.
Stored   == UNION { ToSet(lists[k]) : k \in Key }
InFlight == UNION { ToSet(Handed(call[c].cmd.op, call[c].reply)) :
                      c \in { d \in Consumer : call[d].phase = "answered" } }
Received == UNION { ToSet(got[c]) : c \in Consumer }
Lost     == ToSet(accepted) \ (Stored \cup InFlight \cup Received)

\* Withdrawals that will end, or have ended, without a reply.
Failing == { c \in Consumer : call[c].cmd.op \in Withdrawing /\ link[c] = "down" }

\* An element is lost only with the reply of a pop whose caller is told so: at
\* most one for every withdrawal that ends without a reply.
LossIsReported == Cardinality(Lost) <= unanswered + Cardinality(Failing)

\* Producers that push again what they were denied: the server holds an element
\* twice only if a connection has ended; a refusal is never of a stored element.
DuplicatesAreReported ==
  Len(accepted) - Cardinality(ToSet(accepted)) <= drops

\* Consumers that use brpoplpush() and lrem() what they have received lose
\* nothing: an element nobody has received is always on one of the two lists.
NothingLost == Lost = {}

\* No blocked consumer sleeps, or is sent home by its timeout, beside an element
\* on a list it asked for.
WokenByPush ==
  \A c \in Consumer :
    (call[c].phase = "waiting" /\ link[c] = "up"
       /\ \E k \in call[c].cmd.keys : lists[k] # <<>>)
    ~> (call[c].reply.type = "ARRAY" \/ link[c] # "up"
         \/ \A k \in call[c].cmd.keys : lists[k] = <<>>)

\* A blocking call with a timeout returns: by an element, by the timeout, or by
\* the end of its connection.
BlockingEnds == \A c \in Client : call[c] # Idle ~> call[c] = Idle

\* The queue, the replies in flight and the consumers implement DeliveryQueue.
QueueOrder == IF PushMethod \subseteq {"lpush", "lpushx"} THEN Reverse(lists[Queue])
                                                         ELSE lists[Queue]

Delivery == INSTANCE DeliveryQueue WITH
  waiting   <- QueueOrder,
  transit   <- ToSet(accepted) \ (ToSet(lists[Queue]) \cup Received),
  delivered <- got

DeliverySpec == Delivery!Spec

=============================================================================
