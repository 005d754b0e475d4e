---------------------------- MODULE RedisQueueProofs ----------------------------
(***************************************************************************)
(* Proofs about RedisQueue, for any clients, lists, elements, methods and  *)
(* timeouts: the types, what calls and orphaned commands can be, and that  *)
(* what is confirmed is stored; with the lemmas about sequences, commands  *)
(* and steps that RedisQueueCountProofs and RedisQueueOrderProofs rest on. *)
(***************************************************************************)
EXTENDS RedisQueue, FiniteSetTheorems, SequenceTheorems, WellFoundedInduction, TLAPS

-----------------------------------------------------------------------------
(* Sequences and their elements.                                           *)

LEMMA ElementsOfSeq ==
  ASSUME NEW S, NEW s \in Seq(S)
  PROVE  /\ DOMAIN s = 1 .. Len(s) /\ Len(s) \in Nat
         /\ ToSet(s) \subseteq S
         /\ \A v : v \in ToSet(s) <=> \E i \in 1 .. Len(s) : s[i] = v
         /\ s = <<>> <=> Len(s) = 0
BY DEF ToSet

LEMMA AppendElements ==
  ASSUME NEW S, NEW s \in Seq(S), NEW v \in S
  PROVE  /\ Append(s, v) \in Seq(S) /\ Len(Append(s, v)) = Len(s) + 1
         /\ \A i \in 1 .. Len(s) : Append(s, v)[i] = s[i]
         /\ Append(s, v)[Len(s) + 1] = v
         /\ ToSet(Append(s, v)) = ToSet(s) \cup {v}
<1>1. /\ Append(s, v) \in Seq(S) /\ Len(Append(s, v)) = Len(s) + 1
      /\ \A i \in 1 .. Len(s) : Append(s, v)[i] = s[i]
      /\ Append(s, v)[Len(s) + 1] = v
  OBVIOUS
<1>2. ToSet(Append(s, v)) = ToSet(s) \cup {v}
  <2>1. ToSet(Append(s, v)) \subseteq ToSet(s) \cup {v}
    BY <1>1 DEF ToSet
  <2>2. ToSet(s) \subseteq ToSet(Append(s, v))
    BY <1>1 DEF ToSet
  <2>3. v \in ToSet(Append(s, v))
    BY <1>1 DEF ToSet
  <2> QED
    BY <2>1, <2>2, <2>3
<1> QED
  BY <1>1, <1>2

\* What the server does to a list, element by element.
LEMMA AddedElements ==
  ASSUME NEW S, NEW s \in Seq(S), NEW v \in S, NEW end
  PROVE  /\ Added(s, end, v) \in Seq(S) /\ Len(Added(s, end, v)) = Len(s) + 1
         /\ \A i \in 1 .. Len(s) + 1 :
              Added(s, end, v)[i] = IF end = "L" THEN IF i = 1 THEN v ELSE s[i - 1]
                                    ELSE IF i = Len(s) + 1 THEN v ELSE s[i]
         /\ ToSet(Added(s, end, v)) = ToSet(s) \cup {v}
<1> DEFINE t == Added(s, end, v)
<1>1. /\ t \in Seq(S) /\ Len(t) = Len(s) + 1
      /\ \A i \in 1 .. Len(s) + 1 :
              t[i] = IF end = "L" THEN IF i = 1 THEN v ELSE s[i - 1]
                                    ELSE IF i = Len(s) + 1 THEN v ELSE s[i]
  <2>1. CASE end = "L"
    <3>1. t = <<v>> \o s
      BY <2>1 DEF Added
    <3>2. <<v>> \in Seq(S) /\ Len(<<v>>) = 1 /\ <<v>>[1] = v
      OBVIOUS
    <3>3. /\ t \in Seq(S) /\ Len(t) = 1 + Len(s)
          /\ \A i \in 1 .. 1 + Len(s) : t[i] = IF i <= 1 THEN <<v>>[i] ELSE s[i - 1]
      BY <3>1, <3>2, ConcatProperties
    <3> HIDE DEF t
    <3> QED
      BY <2>1, <3>2, <3>3
  <2>2. CASE end # "L"
    BY <2>2, AppendElements DEF Added
  <2> QED
    BY <2>1, <2>2
<1> HIDE DEF t
<1>2. ASSUME NEW w PROVE w \in ToSet(t) <=> w \in ToSet(s) \cup {v}
  <2>1. ASSUME w \in ToSet(t) PROVE w \in ToSet(s) \cup {v}
    <3>1. PICK i \in 1 .. Len(t) : t[i] = w
      BY <1>1, <2>1, ElementsOfSeq
    <3>2. t[i] = v \/ \E j \in 1 .. Len(s) : t[i] = s[j]
      BY <1>1
    <3> QED
      BY <3>1, <3>2 DEF ToSet
  <2>2. ASSUME w \in ToSet(s) \cup {v} PROVE w \in ToSet(t)
    <3>1. \E i \in 1 .. Len(t) : t[i] = w
      <4>1. CASE w = v
        <5>1. t[IF end = "L" THEN 1 ELSE Len(s) + 1] = v
          BY <1>1, ElementsOfSeq
        <5> QED
          BY <1>1, <4>1, <5>1, ElementsOfSeq
      <4>2. CASE w \in ToSet(s)
        <5>1. PICK j \in 1 .. Len(s) : s[j] = w
          BY <4>2, ElementsOfSeq
        <5>2. t[IF end = "L" THEN j + 1 ELSE j] = w
          BY <1>1, <5>1, ElementsOfSeq
        <5> QED
          BY <1>1, <5>1, <5>2, ElementsOfSeq
      <4> QED
        BY <2>2, <4>1, <4>2
    <3> QED
      BY <1>1, <3>1, ElementsOfSeq
  <2> QED
    BY <2>1, <2>2
<1> QED
  BY <1>1, <1>2 DEF t

LEMMA RemovedElements ==
  ASSUME NEW S, NEW s \in Seq(S), s # <<>>, NEW end
  PROVE  /\ Removed(s, end) \in Seq(S) /\ Len(Removed(s, end)) = Len(s) - 1
         /\ \A i \in 1 .. Len(s) - 1 :
              Removed(s, end)[i] = IF end = "L" THEN s[i + 1] ELSE s[i]
         /\ Element(s, end) = s[IF end = "L" THEN 1 ELSE Len(s)]
         /\ Element(s, end) \in S
         /\ ToSet(s) = ToSet(Removed(s, end)) \cup {Element(s, end)}
<1> DEFINE t == Removed(s, end)
           e == Element(s, end)
<1>1. /\ t \in Seq(S) /\ Len(t) = Len(s) - 1
      /\ \A i \in 1 .. Len(s) - 1 : t[i] = IF end = "L" THEN s[i + 1] ELSE s[i]
      /\ e = s[IF end = "L" THEN 1 ELSE Len(s)]
      /\ e \in S
  <2>1. CASE end = "L"
    BY <2>1 DEF Removed, Element
  <2>2. CASE end # "L"
    <3>1. /\ t = SubSeq(s, 1, Len(s) - 1) /\ e = s[Len(s)]
      BY <2>2 DEF Removed, Element, Front, Last
    <3>2. Len(s) \in Nat \ {0}
      BY ElementsOfSeq
    <3>3. /\ t \in Seq(S) /\ Len(t) = Len(s) - 1
          /\ \A i \in 1 .. Len(s) - 1 : t[i] = s[i]
      <4> DEFINE n == Len(s) - 1
      <4>1. n \in Nat /\ \A i \in 1 .. n : s[i] \in S
        BY <3>2
      <4>2. /\ SubSeq(s, 1, n) \in Seq(S)
            /\ Len(SubSeq(s, 1, n)) = IF 1 <= n THEN n - 1 + 1 ELSE 0
            /\ \A i \in 1 .. n - 1 + 1 : SubSeq(s, 1, n)[i] = s[1 + i - 1]
        BY <4>1, SubSeqProperties
      <4>3. \A i \in 1 .. n : i \in 1 .. n - 1 + 1 /\ 1 + i - 1 = i
        BY <4>1
      <4>4. t = SubSeq(s, 1, n)
        BY <3>1
      <4> HIDE DEF t, n
      <4>5. Len(t) = n
        BY <4>1, <4>2, <4>4
      <4>6. \A i \in 1 .. n : t[i] = s[i]
        BY <4>2, <4>3, <4>4
      <4> QED
        BY <4>2, <4>4, <4>5, <4>6 DEF n
    <3>4. e \in S
      BY <3>1, <3>2
    <3> HIDE DEF t, e
    <3> QED
      BY <2>2, <3>1, <3>3, <3>4
  <2> QED
    BY <2>1, <2>2
<1> HIDE DEF t, e
<1>2. ASSUME NEW w PROVE w \in ToSet(s) <=> w \in ToSet(t) \cup {e}
  <2>1. ASSUME w \in ToSet(s) PROVE w \in ToSet(t) \cup {e}
    <3>1. PICK i \in 1 .. Len(s) : s[i] = w
      BY <2>1, ElementsOfSeq
    <3>2. w = e \/ \E j \in 1 .. Len(t) : t[j] = w
      <4>1. CASE i = IF end = "L" THEN 1 ELSE Len(s)
        BY <1>1, <3>1, <4>1
      <4>2. CASE i # IF end = "L" THEN 1 ELSE Len(s)
        <5>1. t[IF end = "L" THEN i - 1 ELSE i] = w
          BY <1>1, <3>1, <4>2
        <5> QED
          BY <1>1, <3>1, <4>2, <5>1
      <4> QED
        BY <4>1, <4>2
    <3> QED
      BY <1>1, <3>2, ElementsOfSeq
  <2>2. ASSUME w \in ToSet(t) \cup {e} PROVE w \in ToSet(s)
    <3>1. \E i \in 1 .. Len(s) : s[i] = w
      BY <1>1, <2>2, ElementsOfSeq
    <3> QED
      BY <3>1, ElementsOfSeq
  <2> QED
    BY <2>1, <2>2
<1> QED
  BY <1>1, <1>2 DEF t, e

LEMMA LeastIndex ==
  ASSUME NEW I \in SUBSET Nat, I # {}
  PROVE  Min(I) \in I
<1> DEFINE less == OpToRel(<, Nat)
<1>1. PICK x \in I : \A y \in I : <<y, x>> \notin less
  BY WFMin, NatLessThanWellFounded, Zenon
<1>2. \A j, k \in Nat : j < k => <<j, k>> \in less
  BY Z3 DEF OpToRel
<1>3. \A y \in I : ~(y < x)
  BY <1>1, <1>2, Zenon
<1> HIDE DEF less
<1>4. \A y \in I : x <= y
  BY <1>3
<1> QED
  BY <1>4, Zenon DEF Min

\* LREM takes nothing but the element it was told to take.
LEMMA WithoutElements ==
  ASSUME NEW S, NEW s \in Seq(S), NEW v
  PROVE  /\ Without(s, v) \in Seq(S)
         /\ ToSet(Without(s, v)) \subseteq ToSet(s)
         /\ ToSet(s) \subseteq ToSet(Without(s, v)) \cup {v}
<1> DEFINE I == { i \in 1 .. Len(s) : s[i] = v }
           n == Min(I)
           a == SubSeq(s, 1, n - 1)
           b == SubSeq(s, n + 1, Len(s))
<1>1. CASE I = {}
  <2>1. Without(s, v) = s
    BY <1>1 DEF Without, RemoveFirst
  <2> QED
    BY <2>1
<1>2. CASE I # {}
  <2>1. Without(s, v) = a \o b
    BY <1>2 DEF Without, RemoveFirst, RemoveAt, SelectInSeq
  <2>2. n \in 1 .. Len(s) /\ s[n] = v
    <3>1. I \in SUBSET Nat
      OBVIOUS
    <3>2. n \in I
      BY <1>2, <3>1, LeastIndex
    <3> HIDE DEF n
    <3> QED
      BY <3>2
  <2> HIDE DEF n
  <2>3. /\ a \in Seq(S) /\ Len(a) = n - 1 /\ \A i \in 1 .. n - 1 : a[i] = s[i]
        /\ b \in Seq(S) /\ Len(b) = Len(s) - n /\ \A i \in 1 .. Len(s) - n : b[i] = s[n + i]
    BY <2>2, ElementsOfSeq
  <2> HIDE DEF a, b
  <2>4. /\ a \o b \in Seq(S) /\ Len(a \o b) = Len(s) - 1
        /\ \A i \in 1 .. Len(s) - 1 : (a \o b)[i] = IF i < n THEN s[i] ELSE s[i + 1]
    <3>1. /\ a \o b \in Seq(S) /\ Len(a \o b) = Len(a) + Len(b)
          /\ \A i \in 1 .. Len(a) + Len(b) :
               (a \o b)[i] = IF i <= Len(a) THEN a[i] ELSE b[i - Len(a)]
      BY <2>3, ConcatProperties
    <3> DEFINE t == a \o b
    <3> HIDE DEF t
    <3>2. /\ Len(t) = Len(s) - 1
          /\ \A i \in 1 .. Len(s) - 1 : t[i] = IF i < n THEN s[i] ELSE s[i + 1]
      BY <2>2, <2>3, <3>1 DEF t
    <3> QED
      BY <3>1, <3>2 DEF t
  <2> DEFINE t == Without(s, v)
  <2>5. /\ t \in Seq(S) /\ Len(t) = Len(s) - 1
        /\ \A i \in 1 .. Len(s) - 1 : t[i] = IF i < n THEN s[i] ELSE s[i + 1]
    BY <2>1, <2>4
  <2> HIDE DEF t
  <2>6. ToSet(t) \subseteq ToSet(s)
    BY <2>2, <2>5 DEF ToSet
  <2>7. ASSUME NEW w \in ToSet(s), w # v PROVE w \in ToSet(t)
    <3>1. PICK i \in 1 .. Len(s) : s[i] = w
      BY ElementsOfSeq
    <3>2. t[IF i < n THEN i ELSE i - 1] = w /\ (IF i < n THEN i ELSE i - 1) \in 1 .. Len(t)
      BY <2>2, <2>5, <2>7, <3>1
    <3> QED
      BY <2>5, <3>2, ElementsOfSeq
  <2> QED
    BY <2>5, <2>6, <2>7 DEF t
<1> QED
  BY <1>1, <1>2

-----------------------------------------------------------------------------
(* The base invariant: every call is one its client can have made, and a   *)
(* command that has outlived its connection is no different.               *)

\* What a call will hand to its caller.
Cargo(c) ==
  IF call[c].phase = "answered" THEN Handed(call[c].cmd.op, call[c].reply) ELSE <<>>

\* What a consumer has been given or is about to be given.
Held(c) == got[c] \o Cargo(c)

\* A command a client can have sent when consumers have received the elements R.
Sendable(cmd, R) ==
  /\ cmd \in CommandType
  /\ \/ cmd.op \in PushMethod /\ cmd.key = Queue /\ cmd.value \in Value /\ cmd.timeout = 0
     \/ cmd.op \in PopMethod /\ (cmd.op \notin {"blpop", "brpop"} => cmd.key = Queue)
     \/ /\ cmd.op = "lrem" /\ cmd.key = Processing /\ cmd.value \in R
        /\ cmd.timeout = 0 /\ "brpoplpush" \in PopMethod

InCall(c) ==
  /\ Sendable(call[c].cmd, Received)
  /\ call[c].phase # "idle" /\ link[c] # "broken"
  /\ c \in Producer <=> call[c].cmd.op \in Pushing
  /\ call[c].phase = "waiting" => call[c].cmd.op \in Blocking
  /\ call[c].phase # "answered" => call[c].reply = NullReply
  /\ Cargo(c) \in {<<>>} \cup { <<v>> : v \in Value }
  /\ call[c].phase = "answered" /\ call[c].cmd.op \in Pushing
       /\ Verdict(call[c].cmd.op, call[c].reply) => call[c].cmd.value \in ToSet(accepted)

Calls == \A c \in Client : call[c] = Idle \/ InCall(c)

Orphans == IsFiniteSet(orphans) /\ \A o \in orphans : Sendable(o.cmd, Received) /\ o.n < drops

\* A withdrawal goes unanswered only when its connection ends.
Down == { c \in Consumer : link[c] = "down" }

DropsCounted == unanswered + Cardinality(Down) <= drops

Base == TypeOK /\ Calls /\ Orphans /\ DropsCounted /\ ConfirmedIsStored

-----------------------------------------------------------------------------
(* Commands, replies and verdicts.                                         *)

LEMMA MethodNames ==
  /\ PushMethod \subseteq Pushing /\ PopMethod \subseteq Withdrawing
  /\ Pushing \cap Withdrawing = {} /\ Pushing \cap Blocking = {}
  /\ Blocking \subseteq Withdrawing
  /\ "lrem" \notin Pushing \cup Withdrawing /\ "none" \notin Pushing \cup Withdrawing
BY QueueAssumption DEF Pushing, Withdrawing, Blocking

LEMMA OneKeyName ==
  ASSUME NEW op, NEW k
  PROVE  KeyName(op, {k}) = k
<1>1. Cardinality({k}) = 1
  BY FS_Singleton
<1>2. (CHOOSE j \in {k} : TRUE) = k
  OBVIOUS
<1> QED
  BY <1>1, <1>2 DEF KeyName

LEMMA KeyNameType ==
  ASSUME NEW op, NEW keys \in KeySets
  PROVE  KeyName(op, keys) \in Key \cup {Joined}
<1>1. keys # {} /\ keys \subseteq Key
  BY QueueAssumption
<1>2. (CHOOSE k \in keys : TRUE) \in Key
  BY <1>1
<1> QED
  BY <1>2 DEF KeyName

LEMMA PrintedType ==
  /\ \A n \in Timeout : Printed(n) \in -IntRange .. IntRange
  /\ Printed(0) = 0 /\ 0 \in -IntRange .. IntRange
BY QueueAssumption DEF Printed

LEMMA IdleFields ==
  /\ Idle.phase = "idle" /\ Idle.cmd.op = "none" /\ Idle.reply = NullReply
  /\ Idle \in [cmd : CommandType, reply : Reply(Text),
               phase : {"idle", "sent", "waiting", "answered"}]
<1>1. Command("none", {Queue}, NoValue, 0) \in CommandType
  <2>1. KeyName("none", {Queue}) = Queue /\ Printed(0) = 0
    BY OneKeyName, PrintedType
  <2> QED
    BY <2>1, QueueAssumption DEF Command, CommandType
<1>2. NullReply \in Reply(Text)
  BY DEF NullReply, TextReply, Reply, ReplyType, Text
<1> QED
  BY <1>1, <1>2 DEF Idle, Command

\* A method hands out nothing, and reports no success, on a reply that is an
\* error, NIL or none at all.
LEMMA NoGoodReply ==
  ASSUME NEW op, NEW r, r \in {NullReply, NilReply} \/ \E t : r = ErrorReply(t)
  PROVE  ~Verdict(op, r) /\ Handed(op, r) = <<>>
<1>1. Failed(ReplyError(r))
  BY DEF Failed, ReplyError, NullReply, NilReply, ErrorReply, TextReply, SetError
<1>2. ~Verdict(op, r)
  BY <1>1 DEF Verdict
<1> QED
  BY <1>2 DEF Handed

LEMMA ReplyTypes ==
  /\ NilReply \in Reply(Text)
  /\ ErrorReply("OOM") \in Reply(Text) /\ ErrorReply("timeout is negative") \in Reply(Text)
  /\ \A n \in Int : IntegerReply(n) \in Reply(Text)
  /\ \A v \in Value : StringReply(v) \in Reply(Text)
  /\ \A k \in Key \cup {Joined}, v \in Value : ArrayReply(<<k, v>>) \in Reply(Text)
<1>1. \A k, v \in Text : <<k, v>> \in Seq(Text)
  OBVIOUS
<1>2. /\ \A v \in Value : v \in Text
      /\ \A k \in Key \cup {Joined} : k \in Text
      /\ NoStr \in Text /\ "OOM" \in Text /\ "timeout is negative" \in Text
  BY DEF Text
<1>3. <<>> \in Seq(Text)
  OBVIOUS
<1>4. \A t \in Text, type \in ReplyType : TextReply(type, t) \in Reply(Text)
  BY <1>3 DEF TextReply, Reply
<1>5. \A n \in Int : IntegerReply(n) \in Reply(Text)
  BY <1>2, <1>3 DEF IntegerReply, TextReply, Reply, ReplyType
<1>6. \A k, v \in Text : ArrayReply(<<k, v>>) \in Reply(Text)
  <2>1. ASSUME NEW es \in Seq(Text) PROVE ArrayReply(es) \in Reply(Text)
    <3>1. ArrayReply(es) = [type |-> "ARRAY", str |-> NoStr, integer |-> 0, element |-> es]
      BY DEF ArrayReply, TextReply
    <3>2. NoStr \in Text
      BY <1>2
    <3>3. \A D : es \in D => [type |-> "ARRAY", str |-> NoStr, integer |-> 0, element |-> es]
                                \in [type : ReplyType, str : Text, integer : Int, element : D]
      BY <3>2 DEF ReplyType
    <3> QED
      BY <3>1, <3>3, Zenon DEF Reply
  <2> QED
    BY <1>1, <2>1
<1>7. "NIL" \in ReplyType /\ "ERROR" \in ReplyType /\ "STRING" \in ReplyType
  BY DEF ReplyType
<1> QED
  BY <1>2, <1>4, <1>5, <1>6, <1>7, Zenon DEF NilReply, ErrorReply, StringReply

\* bpop() hands out the second element of the pair.
LEMMA PairReply ==
  ASSUME NEW op \in {"blpop", "brpop"}, NEW k, NEW v
  PROVE  Handed(op, ArrayReply(<<k, v>>)) = <<v>>
<1>1. /\ ArrayReply(<<k, v>>).type = "ARRAY"
      /\ ArrayReply(<<k, v>>).element = <<k, v>>
  BY DEF ArrayReply, TextReply
<1>2. Verdict(op, ArrayReply(<<k, v>>))
  BY <1>1 DEF Verdict, Failed, ReplyError, SetError
<1> QED
  BY <1>1, <1>2 DEF Handed, Withdrawing

\* What a client makes of an element the server sends, and of a length.
LEMMA GoodReplies ==
  /\ \A n : /\ ~Failed(ReplyError(IntegerReply(n))) /\ IntegerReply(n).integer = n
  /\ \A op, v : op \in Withdrawing \ {"blpop", "brpop"} => Handed(op, StringReply(v)) = <<v>>
  /\ \A op, r : op \notin Withdrawing => Handed(op, r) = <<>>
<1>1. \A n : /\ ~Failed(ReplyError(IntegerReply(n))) /\ IntegerReply(n).integer = n
  BY DEF Failed, ReplyError, IntegerReply, TextReply, SetError
<1>2. ASSUME NEW op, NEW v, op \in Withdrawing \ {"blpop", "brpop"}
      PROVE  Handed(op, StringReply(v)) = <<v>>
  BY <1>2 DEF Handed, Verdict, Withdrawing, Failed, ReplyError, StringReply, TextReply, SetError
<1> QED
  BY <1>1, <1>2 DEF Handed

-----------------------------------------------------------------------------
(* What the server does with a command: it stores, it takes, it removes an *)
(* element somebody has received, or it does nothing and says no.          *)

Refuses(cmd, r) ==
  /\ UNCHANGED <<lists, accepted>>
  /\ Handed(cmd.op, r) = <<>>
  /\ cmd.op \in Pushing => ~Verdict(cmd.op, r)

Stores(cmd, r) ==
  /\ cmd.op \in Pushing /\ cmd.key = Queue /\ cmd.value \in Value
  /\ Len(accepted) < MaxAccepted
  /\ lists' = [lists EXCEPT ![Queue] = Added(lists[Queue], EndOf(cmd.op), cmd.value)]
  /\ accepted' = Append(accepted, cmd.value)
  /\ Handed(cmd.op, r) = <<>> /\ Verdict(cmd.op, r)

\* brpoplpush() leaves the element on a list.
Moved(cmd, v) ==
  LET rest == [lists EXCEPT ![cmd.key] = Removed(@, EndOf(cmd.op))]
  IN  IF cmd.op = "brpoplpush" THEN [rest EXCEPT ![Processing] = <<v>> \o @] ELSE rest

Takes(cmd, r, v) ==
  /\ cmd.op \in Withdrawing /\ lists[cmd.key] # <<>>
  /\ v = Element(lists[cmd.key], EndOf(cmd.op))
  /\ lists' = Moved(cmd, v) /\ accepted' = accepted
  /\ Handed(cmd.op, r) = <<v>>

Clears(cmd, r) ==
  /\ cmd.op = "lrem" /\ cmd.key = Processing /\ cmd.value \in Received
  /\ lists' = [lists EXCEPT ![Processing] = Without(lists[Processing], cmd.value)]
  /\ accepted' = accepted
  /\ Handed(cmd.op, r) = <<>>

Carried(cmd, r) ==
  \/ Refuses(cmd, r) \/ Stores(cmd, r) \/ Clears(cmd, r)
  \/ \E v \in Value : Takes(cmd, r, v)

LEMMA NameOfKey ==
  ASSUME NEW cmd, NEW R, Sendable(cmd, R)
  PROVE  cmd.key \in Key \cup {Joined}
BY DEF Sendable, CommandType

LEMMA EffectsCarried ==
  ASSUME TypeOK, NEW cmd, Sendable(cmd, Received), NEW s \in Effects(cmd),
         lists' = s.lists, accepted' = s.accepted
  PROVE  s.reply \in Reply(Text) /\ Carried(cmd, s.reply)
<1>1. /\ lists \in [Key \cup {Joined} -> Seq(Value)]
      /\ accepted \in Seq(Value) /\ Len(accepted) \in Nat /\ Len(accepted) <= MaxAccepted
      /\ MaxAccepted \in Nat
  BY QueueAssumption DEF TypeOK
<1>2. ASSUME NEW r, r = NilReply \/ \E t \in {"OOM", "timeout is negative"} : r = ErrorReply(t),
             s = Nothing(r)
      PROVE  s.reply \in Reply(Text) /\ Carried(cmd, s.reply)
  <2>1. lists' = lists /\ accepted' = accepted /\ s.reply = r
    BY <1>2 DEF Nothing, State
  <2> QED
    BY <1>2, <2>1, NoGoodReply, ReplyTypes DEF Carried, Refuses
<1>3. CASE cmd.timeout < 0
  BY <1>2, <1>3 DEF Effects
<1>4. CASE cmd.timeout >= 0 /\ cmd.op \in Pushing
  <2> DEFINE list == Added(lists[cmd.key], EndOf(cmd.op), cmd.value)
  <2>1. cmd.key = Queue /\ cmd.value \in Value /\ Queue \in Key
    BY <1>4, MethodNames, QueueAssumption DEF Sendable
  <2>2. list \in Seq(Value) /\ Len(list) = Len(lists[Queue]) + 1 /\ Len(lists[Queue]) \in Nat
    BY <1>1, <2>1, AddedElements
  <2>3. cmd.op \notin Withdrawing /\ cmd.op \notin {"blpop", "brpop"} /\ cmd.op # "lrem"
    BY <1>4 DEF Pushing, Withdrawing
  <2>4. s \in PushEffect(cmd)
    <3>1. ~(cmd.timeout < 0)
      BY <1>4 DEF Sendable, CommandType
    <3> QED
      BY <1>4, <3>1 DEF Effects
  <2>5. CASE /\ cmd.op \in {"lpushx", "rpushx"} /\ lists[cmd.key] = <<>>
    <3>1. s = Nothing(IntegerReply(0))
      BY <2>4, <2>5 DEF PushEffect
    <3>2. UNCHANGED <<lists, accepted>> /\ s.reply = IntegerReply(0)
      BY <3>1 DEF Nothing, State
    <3>3. ~Verdict(cmd.op, IntegerReply(0))
      BY <2>5, GoodReplies DEF Verdict
    <3>4. Handed(cmd.op, s.reply) = <<>>
      BY <2>3, GoodReplies, Zenon
    <3>5. s.reply \in Reply(Text)
      <4>1. 0 \in Int
        OBVIOUS
      <4> QED
        BY <3>2, <4>1, ReplyTypes, Zenon
    <3> QED
      BY <3>2, <3>3, <3>4, <3>5 DEF Carried, Refuses
  <2>6. CASE s = Nothing(ErrorReply("OOM"))
    BY <1>2, <2>6
  <2>7. CASE /\ Len(accepted) # MaxAccepted
             /\ s = State([lists EXCEPT ![cmd.key] = list], Append(accepted, cmd.value),
                          IntegerReply(Len(list)))
    <3>1. /\ lists' = [lists EXCEPT ![Queue] = list] /\ accepted' = Append(accepted, cmd.value)
          /\ s.reply = IntegerReply(Len(list))
      BY <2>1, <2>7 DEF State
    <3>2. Len(list) # 0 /\ Len(list) \in Int
      BY <2>2
    <3> HIDE DEF list
    <3>3. Verdict(cmd.op, IntegerReply(Len(list)))
      BY <2>3, <3>2, GoodReplies DEF Verdict
    <3>4. Handed(cmd.op, IntegerReply(Len(list))) = <<>>
      BY <2>3, GoodReplies
    <3>5. s.reply \in Reply(Text)
      BY <3>1, <3>2, ReplyTypes
    <3>6. Len(accepted) < MaxAccepted
      BY <1>1, <2>7
    <3> QED
      BY <1>4, <2>1, <3>1, <3>3, <3>4, <3>5, <3>6 DEF Carried, Stores, list
  <2> QED
    BY <2>4, <2>5, <2>6, <2>7 DEF PushEffect
<1>5. CASE cmd.timeout >= 0 /\ cmd.op = "lrem"
  <2>1. s = RemoveEffect(cmd)
    <3>1. ~(cmd.timeout < 0) /\ cmd.op \notin Pushing
      BY <1>5, MethodNames DEF Sendable, CommandType
    <3> QED
      BY <1>5, <3>1 DEF Effects
  <2>2. cmd.key = Processing /\ cmd.value \in Received
    BY <1>5, MethodNames DEF Sendable
  <2> DEFINE rest == Without(lists[Processing], cmd.value)
             n    == Len(lists[Processing]) - Len(rest)
  <2>3. /\ lists' = [lists EXCEPT ![Processing] = rest] /\ accepted' = accepted
        /\ s.reply = IntegerReply(n)
    BY <2>1, <2>2 DEF RemoveEffect, State
  <2>4. rest \in Seq(Value) /\ lists[Processing] \in Seq(Value)
    BY <1>1, QueueAssumption, WithoutElements
  <2> HIDE DEF rest
  <2>5. n \in Int
    BY <2>4
  <2> HIDE DEF n
  <2>6. Handed(cmd.op, s.reply) = <<>> /\ s.reply \in Reply(Text)
    BY <1>5, <2>3, <2>5, MethodNames, GoodReplies, ReplyTypes, ZenonT(40)
  <2> QED
    BY <1>5, <2>2, <2>3, <2>6 DEF Carried, Clears, rest
<1>6. CASE cmd.timeout >= 0 /\ cmd.op \in Withdrawing
  <2>1. cmd.op \notin Pushing /\ cmd.op # "lrem" /\ ~(cmd.timeout < 0)
    BY <1>6, MethodNames DEF Sendable, CommandType
  <2>2. CASE lists[cmd.key] = <<>>
    <3>1. s = Nothing(NilReply)
      BY <2>1, <2>2 DEF Effects
    <3> QED
      BY <1>2, <3>1
  <2>3. CASE lists[cmd.key] # <<>>
    <3> DEFINE v == Element(lists[cmd.key], EndOf(cmd.op))
    <3>1. s = PopEffect(cmd)
      BY <2>1, <2>3 DEF Effects
    <3>2. cmd.key \in Key \cup {Joined} /\ v \in Value
      BY <1>1, <2>3, NameOfKey, RemovedElements
    <3> HIDE DEF v
    <3>3. lists' = Moved(cmd, v) /\ accepted' = accepted
      BY <3>1 DEF PopEffect, State, Moved, v
    <3>4. s.reply = IF cmd.op \in {"blpop", "brpop"} THEN ArrayReply(<<cmd.key, v>>)
                                                    ELSE StringReply(v)
      BY <1>6, <3>1 DEF PopEffect, State, Blocking, Withdrawing, v
    <3>5. s.reply \in Reply(Text) /\ Handed(cmd.op, s.reply) = <<v>>
      <4>1. CASE cmd.op \in {"blpop", "brpop"}
        <5>1. s.reply = ArrayReply(<<cmd.key, v>>)
          BY <3>4, <4>1
        <5>2. ArrayReply(<<cmd.key, v>>) \in Reply(Text)
          BY <3>2, ReplyTypes, Zenon
        <5>3. Handed(cmd.op, ArrayReply(<<cmd.key, v>>)) = <<v>>
          BY <4>1, PairReply
        <5> QED
          BY <5>1, <5>2, <5>3, Zenon
      <4>2. CASE cmd.op \notin {"blpop", "brpop"}
        BY <1>6, <3>2, <3>4, <4>2, GoodReplies, ReplyTypes
      <4> QED
        BY <4>1, <4>2
    <3> QED
      BY <1>6, <2>3, <3>2, <3>3, <3>5 DEF Carried, Takes, v
  <2> QED
    BY <2>2, <2>3
<1>7. cmd.op \in Pushing \cup Withdrawing \cup {"lrem"} /\ cmd.timeout \in Int
  <2>1. cmd.timeout \in -IntRange .. IntRange
    BY DEF Sendable, CommandType
  <2>2. cmd.op \in Pushing \cup Withdrawing \cup {"lrem"}
    BY MethodNames DEF Sendable
  <2>3. IntRange \in Nat
    BY QueueAssumption
  <2> QED
    BY <2>1, <2>2, <2>3
<1> QED
  BY <1>3, <1>4, <1>5, <1>6, <1>7

-----------------------------------------------------------------------------
(* The base invariant is inductive.                                        *)

CallType == [ cmd : CommandType, reply : Reply(Text),
              phase : {"idle", "sent", "waiting", "answered"} ]

\* Nothing or one element.
AtMostOne == {<<>>} \cup { <<v>> : v \in Value }

LEMMA ConcatElements ==
  ASSUME NEW s \in Seq(Value), NEW t \in AtMostOne
  PROVE  /\ s \o t \in Seq(Value)
         /\ ToSet(s \o t) = ToSet(s) \cup ToSet(t)
         /\ \A i \in 1 .. Len(s) : (s \o t)[i] = s[i]
         /\ t = <<>> => s \o t = s
         /\ \A v \in Value : t = <<v>> => s \o t = Append(s, v) /\ ToSet(t) = {v}
         /\ t = <<>> => ToSet(t) = {}
<1>1. CASE t = <<>>
  <2>1. s \o t = s /\ ToSet(t) = {}
    BY <1>1 DEF ToSet
  <2> QED
    BY <1>1, <2>1
<1>2. ASSUME NEW v \in Value, t = <<v>>
      PROVE  /\ s \o t = Append(s, v)
             /\ s \o t \in Seq(Value)
             /\ \A i \in 1 .. Len(s) : (s \o t)[i] = s[i]
             /\ ToSet(t) = {v}
             /\ ToSet(s \o t) = ToSet(s) \cup ToSet(t)
  <2>1. ToSet(<<v>>) = {v}
    <3>1. DOMAIN <<v>> = {1} /\ <<v>>[1] = v
      OBVIOUS
    <3> QED
      BY <3>1, Zenon DEF ToSet
  <2>2. s \o t = Append(s, v) /\ ToSet(t) = {v}
    BY <1>2, <2>1, AppendIsConcat
  <2>3. /\ Append(s, v) \in Seq(Value) /\ \A i \in 1 .. Len(s) : Append(s, v)[i] = s[i]
        /\ ToSet(Append(s, v)) = ToSet(s) \cup {v}
    BY AppendElements
  <2> QED
    BY <2>2, <2>3, Zenon
<1>3. t # <<>> => \E v \in Value : t = <<v>>
  BY DEF AtMostOne
<1> QED
  BY <1>1, <1>2, <1>3

LEMMA SendableStays ==
  ASSUME NEW cmd, NEW R, NEW T, Sendable(cmd, R), R \subseteq T
  PROVE  Sendable(cmd, T)
BY DEF Sendable

\* What a client can send when it is idle.
LEMMA CommandsSendable ==
  ASSUME TypeOK, NEW c \in Client, NEW cmd \in Pushes(c) \cup Withdrawals(c)
  PROVE  /\ Sendable(cmd, Received)
         /\ c \in Producer <=> cmd.op \in Pushing
         /\ cmd.op \in Pushing => fate[cmd.value] \in Pushable
<1>1. CASE cmd \in Pushes(c)
  <2>1. PICK op \in PushMethod, v \in Value :
             c \in Producer /\ cmd = Command(op, {Queue}, v, 0) /\ fate[v] \in Pushable
    BY <1>1 DEF Pushes
  <2>2. /\ cmd.op = op /\ cmd.key = Queue /\ cmd.value = v /\ cmd.timeout = 0
        /\ cmd \in CommandType
    <3>1. KeyName(op, {Queue}) = Queue /\ Printed(0) = 0
      BY OneKeyName, PrintedType
    <3>2. 0 \in -IntRange .. IntRange
      BY QueueAssumption
    <3> QED
      BY <2>1, <3>1, <3>2, QueueAssumption DEF Command, CommandType
  <2> QED
    BY <2>1, <2>2, MethodNames DEF Sendable
<1>2. CASE cmd \in Withdrawals(c)
  <2>1. c \in Consumer /\ c \notin Producer
    BY <1>2, QueueAssumption DEF Withdrawals
  <2>2. /\ cmd \in CommandType
        /\ \/ cmd.op \in PopMethod /\ (cmd.op \notin {"blpop", "brpop"} => cmd.key = Queue)
           \/ /\ cmd.op = "lrem" /\ cmd.key = Processing /\ cmd.value \in Received
              /\ cmd.timeout = 0 /\ "brpoplpush" \in PopMethod
    <3> DEFINE A == { Command(op, {Queue}, NoValue, 0) : op \in PopMethod \cap {"lpop", "rpop"} }
               B == { Command(op, ks, NoValue, t) : op \in PopMethod \cap {"blpop", "brpop"},
                                                    ks \in KeySets, t \in Timeout }
               C == { Command("brpoplpush", {Queue}, NoValue, t) :
                        t \in IF "brpoplpush" \in PopMethod THEN Timeout ELSE {} }
               D == { Command("lrem", {Processing}, v, 0) :
                        v \in IF "brpoplpush" \in PopMethod THEN ToSet(got[c]) ELSE {} }
    <3>0. cmd \in A \/ cmd \in B \/ cmd \in C \/ cmd \in D
      <4>1. Withdrawals(c) = A \cup B \cup C \cup D
        BY <2>1 DEF Withdrawals
      <4> HIDE DEF A, B, C, D
      <4> QED
        BY <1>2, <4>1
    <3>1. CASE cmd \in A
      <4>1. PICK op \in PopMethod \cap {"lpop", "rpop"} : cmd = Command(op, {Queue}, NoValue, 0)
        BY <3>1
      <4>2. KeyName(op, {Queue}) = Queue /\ Printed(0) = 0 /\ 0 \in -IntRange .. IntRange
        BY OneKeyName, PrintedType
      <4> QED
        BY <4>1, <4>2, QueueAssumption DEF Command, CommandType
    <3>2. CASE cmd \in B
      <4>1. PICK op \in PopMethod \cap {"blpop", "brpop"}, ks \in KeySets, t \in Timeout :
                 cmd = Command(op, ks, NoValue, t)
        BY <3>2
      <4>2. KeyName(op, ks) \in Key \cup {Joined} /\ Printed(t) \in -IntRange .. IntRange
        BY KeyNameType, PrintedType
      <4>3. ks \subseteq Key
        BY QueueAssumption
      <4> QED
        BY <4>1, <4>2, <4>3 DEF Command, CommandType
    <3>3. CASE cmd \in C
      <4>1. PICK t \in Timeout :
                 "brpoplpush" \in PopMethod /\ cmd = Command("brpoplpush", {Queue}, NoValue, t)
        BY <3>3
      <4>2. KeyName("brpoplpush", {Queue}) = Queue /\ Printed(t) \in -IntRange .. IntRange
        BY OneKeyName, PrintedType
      <4> QED
        BY <4>1, <4>2, QueueAssumption DEF Command, CommandType
    <3>4. CASE cmd \in D
      <4>1. PICK v \in ToSet(got[c]) :
                 "brpoplpush" \in PopMethod /\ cmd = Command("lrem", {Processing}, v, 0)
        BY <3>4
      <4>2. /\ KeyName("lrem", {Processing}) = Processing /\ Printed(0) = 0
            /\ 0 \in -IntRange .. IntRange
        BY OneKeyName, PrintedType
      <4>3. v \in Value /\ v \in Received
        BY <2>1, <4>1, ElementsOfSeq DEF TypeOK, Received
      <4>4. cmd = [op |-> "lrem", keys |-> {Processing}, key |-> Processing, value |-> v,
                   timeout |-> 0]
        BY <4>1, <4>2 DEF Command
      <4>5. {Processing} \in SUBSET Key /\ Processing \in Key
        BY QueueAssumption
      <4> QED
        BY <4>1, <4>2, <4>3, <4>4, <4>5, SMTT(20) DEF CommandType
    <3> HIDE DEF A, B, C, D
    <3> QED
      BY <3>0, <3>1, <3>2, <3>3, <3>4
  <2> QED
    BY <2>1, <2>2, MethodNames DEF Sendable
<1> QED
  BY <1>1, <1>2

\* What a command does to the lists, in types.
LEMMA CarriedTypes ==
  ASSUME TypeOK, NEW cmd, Sendable(cmd, Received), NEW r, Carried(cmd, r)
  PROVE  /\ lists' \in [Key \cup {Joined} -> Seq(Value)]
         /\ accepted' \in Seq(Value) /\ Len(accepted') <= MaxAccepted
         /\ ToSet(accepted) \subseteq ToSet(accepted')
         /\ cmd.op \in Pushing /\ Verdict(cmd.op, r) => cmd.value \in ToSet(accepted')
         /\ Handed(cmd.op, r) \in AtMostOne
<1>1. /\ lists \in [Key \cup {Joined} -> Seq(Value)]
      /\ accepted \in Seq(Value) /\ Len(accepted) \in Nat /\ Len(accepted) <= MaxAccepted
      /\ MaxAccepted \in Nat
      /\ Queue \in Key /\ Processing \in Key
  BY QueueAssumption DEF TypeOK
<1>2. CASE Refuses(cmd, r)
  BY <1>1, <1>2 DEF Refuses, AtMostOne
<1>3. CASE Stores(cmd, r)
  <2>1. Added(lists[Queue], EndOf(cmd.op), cmd.value) \in Seq(Value)
    BY <1>1, <1>3, AddedElements DEF Stores
  <2>2. /\ accepted' \in Seq(Value) /\ Len(accepted') = Len(accepted) + 1
        /\ ToSet(accepted') = ToSet(accepted) \cup {cmd.value}
    BY <1>1, <1>3, AppendElements DEF Stores
  <2>3. Len(accepted') <= MaxAccepted
    BY <1>1, <1>3, <2>2 DEF Stores
  <2> QED
    BY <1>1, <1>3, <2>1, <2>2, <2>3 DEF Stores, AtMostOne
<1>4. CASE Clears(cmd, r)
  <2>1. Without(lists[Processing], cmd.value) \in Seq(Value)
    BY <1>1, WithoutElements
  <2> QED
    BY <1>1, <1>4, <2>1, MethodNames DEF Clears, AtMostOne
<1>5. ASSUME NEW v \in Value, Takes(cmd, r, v)
      PROVE  /\ lists' \in [Key \cup {Joined} -> Seq(Value)]
             /\ accepted' = accepted /\ cmd.op \notin Pushing
             /\ Handed(cmd.op, r) \in AtMostOne
  <2> DEFINE rest == [lists EXCEPT ![cmd.key] = Removed(@, EndOf(cmd.op))]
  <2>1. Removed(lists[cmd.key], EndOf(cmd.op)) \in Seq(Value)
    BY <1>1, <1>5, NameOfKey, RemovedElements DEF Takes
  <2>2. rest \in [Key \cup {Joined} -> Seq(Value)]
    BY <1>1, <2>1
  <2>3. lists' = IF cmd.op = "brpoplpush" THEN [rest EXCEPT ![Processing] = <<v>> \o @] ELSE rest
    BY <1>5 DEF Takes, Moved
  <2> HIDE DEF rest
  <2>4. <<v>> \o rest[Processing] \in Seq(Value)
    BY <1>1, <2>2
  <2>5. lists' \in [Key \cup {Joined} -> Seq(Value)]
    BY <2>2, <2>3, <2>4
  <2>6. cmd.op \notin Pushing
    BY <1>5, MethodNames DEF Takes
  <2> QED
    BY <1>5, <2>5, <2>6 DEF Takes, AtMostOne
<1> QED
  BY <1>1, <1>2, <1>3, <1>4, <1>5 DEF Carried

LEMMA CallTypes ==
  ASSUME Base, NEW c \in Client
  PROVE  /\ call = [d \in Client |-> call[d]] /\ call[c] \in CallType
         /\ link = [d \in Client |-> link[d]] /\ link[c] \in {"up", "down", "broken"}
         /\ call[c] # Idle => InCall(c)
         /\ call[c].phase # "idle" => call[c] # Idle
BY IdleFields DEF Base, TypeOK, CallType, Calls

\* A client is not disturbed by what the others do.
LEMMA InCallStays ==
  ASSUME NEW c \in Client, InCall(c), call'[c] = call[c], link'[c] # "broken",
         Received \subseteq Received', ToSet(accepted) \subseteq ToSet(accepted')
  PROVE  InCall(c)'
<1>1. Sendable(call[c].cmd, Received')
  BY SendableStays DEF InCall
<1> QED
  BY <1>1 DEF InCall, Cargo

LEMMA OthersStay ==
  ASSUME Calls, NEW c \in Client,
         \A d \in Client \ {c} : call'[d] = call[d] /\ link'[d] = link[d],
         Received \subseteq Received', ToSet(accepted) \subseteq ToSet(accepted'),
         call'[c] = Idle \/ InCall(c)'
  PROVE  Calls'
<1> SUFFICES ASSUME NEW d \in Client, d # c, call'[d] # Idle PROVE InCall(d)'
  BY DEF Calls
<1>1. InCall(d) /\ call'[d] = call[d] /\ link'[d] # "broken"
  BY DEF Calls, InCall
<1> QED
  BY <1>1, InCallStays

LEMMA OrphansStay ==
  ASSUME Orphans, orphans' \subseteq orphans, drops \in Nat, drops' \in Nat, drops <= drops',
         orphans \subseteq [cmd : CommandType, n : 0 .. MaxDrops],
         Received \subseteq Received'
  PROVE  Orphans'
<1>1. IsFiniteSet(orphans')
  BY FS_Subset DEF Orphans
<1>2. ASSUME NEW o \in orphans' PROVE Sendable(o.cmd, Received') /\ o.n < drops'
  <2>1. Sendable(o.cmd, Received) /\ o.n < drops /\ o.n \in 0 .. MaxDrops
    BY DEF Orphans
  <2>2. o.n < drops'
    BY <2>1, QueueAssumption
  <2> QED
    BY <2>1, <2>2, SendableStays
<1> QED
  BY <1>1, <1>2 DEF Orphans

LEMMA DownFinite == IsFiniteSet(Down) /\ Cardinality(Down) \in Nat
<1>1. Down \in SUBSET Consumer /\ IsFiniteSet(Consumer)
  BY QueueAssumption DEF Down
<1> QED
  BY <1>1, FS_Subset, FS_CardinalityType

\* The server carries out the command of a call.
Answered(c, r) ==
  /\ call' = [d \in Client |-> IF d = c THEN [cmd |-> call[c].cmd, reply |-> r, phase |-> "answered"]
                                        ELSE call[d]]
  /\ UNCHANGED <<orphans, link, callerVars, drops>>

LEMMA AnswerShape ==
  ASSUME Base, NEW c \in Client, Answer(c), call[c].phase \in {"sent", "waiting"}
  PROVE  \E r \in Reply(Text) : Carried(call[c].cmd, r) /\ Answered(c, r)
<1>1. /\ call[c] \in CallType /\ InCall(c) /\ TypeOK
      /\ call = [d \in Client |-> call[d]]
  BY CallTypes DEF Base
<1>2. PICK s \in Effects(call[c].cmd) :
           /\ lists' = s.lists /\ accepted' = s.accepted
           /\ call' = [call EXCEPT ![c].phase = "answered", ![c].reply = s.reply]
           /\ UNCHANGED <<orphans, link, callerVars, drops>>
  BY DEF Answer
<1>3. Sendable(call[c].cmd, Received)
  BY <1>1 DEF InCall
<1>4. s.reply \in Reply(Text) /\ Carried(call[c].cmd, s.reply)
  BY <1>1, <1>2, <1>3, EffectsCarried
<1>5. call' = [d \in Client |-> IF d = c THEN [cmd |-> call[c].cmd, reply |-> s.reply,
                                             phase |-> "answered"]
                                        ELSE call[d]]
  <2> DEFINE a == [call EXCEPT ![c].phase = "answered"]
             b == [a EXCEPT ![c].reply = s.reply]
  <2>1. call[c] = [cmd |-> call[c].cmd, reply |-> call[c].reply, phase |-> call[c].phase]
    BY <1>1 DEF CallType
  <2>2. a = [d \in Client |-> IF d = c THEN [cmd |-> call[c].cmd, reply |-> call[c].reply,
                                            phase |-> "answered"]
                                       ELSE call[d]]
    BY <1>1, <2>1
  <2>3. call' = b
    BY <1>2
  <2> HIDE DEF a
  <2> QED
    BY <2>2, <2>3
<1> QED
  BY <1>2, <1>4, <1>5 DEF Answered

LEMMA AnswerBase ==
  ASSUME Base, NEW c \in Client, call[c].phase \in {"sent", "waiting"},
         NEW r \in Reply(Text), Carried(call[c].cmd, r), Answered(c, r)
  PROVE  Base'
<1>1. /\ call[c] \in CallType /\ InCall(c) /\ TypeOK /\ Sendable(call[c].cmd, Received)
  BY CallTypes DEF Base, InCall
<1>2. /\ lists' \in [Key \cup {Joined} -> Seq(Value)]
      /\ accepted' \in Seq(Value) /\ Len(accepted') <= MaxAccepted
      /\ ToSet(accepted) \subseteq ToSet(accepted')
      /\ call[c].cmd.op \in Pushing /\ Verdict(call[c].cmd.op, r)
           => call[c].cmd.value \in ToSet(accepted')
      /\ Handed(call[c].cmd.op, r) \in AtMostOne
  BY <1>1, CarriedTypes
<1>3. /\ call' \in [Client -> CallType]
      /\ call'[c] = [cmd |-> call[c].cmd, reply |-> r, phase |-> "answered"]
      /\ \A d \in Client \ {c} : call'[d] = call[d]
  BY <1>1, CallTypes DEF Answered, CallType
<1>4. UNCHANGED <<orphans, link, fate, got, unanswered, drops, Received, Down>>
  BY DEF Answered, callerVars, Received, Down
<1>5. TypeOK'
  BY <1>1, <1>2, <1>3, <1>4 DEF TypeOK, CallType
<1>6. InCall(c)'
  <2>1. /\ call'[c].cmd = call[c].cmd /\ call'[c].phase = "answered" /\ call'[c].reply = r
    BY <1>3
  <2>2. Cargo(c)' = Handed(call[c].cmd.op, r)
    BY <2>1 DEF Cargo
  <2> QED
    BY <1>1, <1>2, <1>4, <2>1, <2>2 DEF InCall, AtMostOne
<1>7. Calls'
  BY <1>2, <1>3, <1>4, <1>6, OthersStay DEF Base
<1>8. Orphans' /\ DropsCounted'
  BY <1>4 DEF Base, Orphans, DropsCounted
<1>9. ConfirmedIsStored'
  BY <1>2, <1>4 DEF Base, ConfirmedIsStored
<1> QED
  BY <1>5, <1>7, <1>8, <1>9 DEF Base

LEMMA OrphanedShape ==
  ASSUME Base, NEW o \in orphans, Orphaned(o)
  PROVE  /\ UNCHANGED <<lists, accepted>> \/ \E r \in Reply(Text) : Carried(o.cmd, r)
         /\ orphans' = orphans \ {o} /\ UNCHANGED <<call, link, callerVars, drops>>
<1>1. TypeOK /\ Sendable(o.cmd, Received)
  BY DEF Base, Orphans
<1>2. ASSUME NEW s \in Effects(o.cmd), lists' = s.lists, accepted' = s.accepted
      PROVE  s.reply \in Reply(Text) /\ Carried(o.cmd, s.reply)
  BY <1>1, <1>2, EffectsCarried
<1> QED
  BY <1>2 DEF Orphaned

LEMMA OrphanedBase ==
  ASSUME Base, NEW o \in orphans, Orphaned(o)
  PROVE  Base'
<1>1. TypeOK /\ Sendable(o.cmd, Received)
  BY DEF Base, Orphans
<1>2. /\ lists' \in [Key \cup {Joined} -> Seq(Value)]
      /\ accepted' \in Seq(Value) /\ Len(accepted') <= MaxAccepted
      /\ ToSet(accepted) \subseteq ToSet(accepted')
  <2>1. CASE UNCHANGED <<lists, accepted>>
    BY <1>1, <2>1 DEF TypeOK
  <2>2. ASSUME NEW r, Carried(o.cmd, r)
        PROVE  /\ lists' \in [Key \cup {Joined} -> Seq(Value)]
               /\ accepted' \in Seq(Value) /\ Len(accepted') <= MaxAccepted
               /\ ToSet(accepted) \subseteq ToSet(accepted')
    BY <1>1, <2>2, CarriedTypes
  <2> QED
    BY <2>1, <2>2, OrphanedShape
<1>3. /\ orphans' = orphans \ {o}
      /\ UNCHANGED <<call, link, fate, got, unanswered, drops, Received, Down>>
  BY OrphanedShape DEF callerVars, Received, Down
<1>4. TypeOK'
  BY <1>1, <1>2, <1>3 DEF TypeOK
<1>5. Calls'
  <2> SUFFICES ASSUME NEW c \in Client, call'[c] # Idle PROVE InCall(c)'
    BY DEF Calls
  <2>1. InCall(c) /\ call'[c] = call[c] /\ link'[c] # "broken"
    BY <1>3 DEF Base, Calls, InCall
  <2> QED
    BY <1>2, <1>3, <2>1, InCallStays
<1>6. Orphans' /\ DropsCounted'
  BY <1>1, <1>3, FS_RemoveElement DEF Base, Orphans, DropsCounted
<1>7. ConfirmedIsStored'
  BY <1>2, <1>3 DEF Base, ConfirmedIsStored
<1> QED
  BY <1>4, <1>5, <1>6, <1>7 DEF Base

\* A method returns with r.
LEMMA ReturnShape ==
  ASSUME Base, NEW c \in Client, NEW cmd, Sendable(cmd, Received), NEW r,
         Handed(cmd.op, r) \in AtMostOne,
         cmd.op \in Pushing /\ Verdict(cmd.op, r) => cmd.value \in ToSet(accepted),
         accepted' = accepted, Return(c, cmd, r)
  PROVE  /\ call' = [d \in Client |-> IF d = c THEN Idle ELSE call[d]]
         /\ got' = [d \in Consumer |-> IF d = c THEN got[d] \o Handed(cmd.op, r) ELSE got[d]]
         /\ call' \in [Client -> CallType] /\ call'[c] = Idle
         /\ got' \in [Consumer -> Seq(Value)]
         /\ fate' \in [Value -> {"fresh", "pushing", "denied", "confirmed"}]
         /\ Received \subseteq Received' /\ ConfirmedIsStored'
         /\ (\A d \in Client \ {c} : link'[d] = link[d]) => Calls'
<1>1. TypeOK
  BY DEF Base
<1>2. /\ call' = [d \in Client |-> IF d = c THEN Idle ELSE call[d]]
      /\ call' \in [Client -> CallType] /\ call'[c] = Idle
  BY <1>1, CallTypes, IdleFields DEF Return, CallType
<1>3. got' = [d \in Consumer |-> IF d = c THEN got[d] \o Handed(cmd.op, r) ELSE got[d]]
  BY <1>1 DEF Return, TypeOK
<1>4. /\ got' \in [Consumer -> Seq(Value)]
      /\ \A d \in Consumer : ToSet(got[d]) \subseteq ToSet(got'[d])
  <2> SUFFICES ASSUME NEW d \in Consumer
               PROVE  got'[d] \in Seq(Value) /\ ToSet(got[d]) \subseteq ToSet(got'[d])
    BY <1>3
  <2>1. got[d] \in Seq(Value)
    BY <1>1 DEF TypeOK
  <2>2. CASE d = c
    BY <1>3, <2>1, <2>2, ConcatElements
  <2>3. CASE d # c
    BY <1>3, <2>1, <2>3
  <2> QED
    BY <2>2, <2>3
<1>5. Received \subseteq Received'
  BY <1>4 DEF Received
<1>6. fate' \in [Value -> {"fresh", "pushing", "denied", "confirmed"}]
  BY <1>1 DEF Return, TypeOK, Told
<1>7. ConfirmedIsStored'
  <2> SUFFICES ASSUME NEW v \in Value, fate'[v] = "confirmed" PROVE v \in ToSet(accepted)
    BY DEF ConfirmedIsStored
  <2>1. CASE fate'[v] = fate[v]
    BY <2>1 DEF Base, ConfirmedIsStored
  <2>2. CASE fate'[v] # fate[v]
    <3>1. cmd.op \in Pushing /\ cmd.value = v /\ Told(cmd, r) = "confirmed"
      BY <1>1, <2>2 DEF Return, TypeOK
    <3> QED
      BY <3>1 DEF Told
  <2> QED
    BY <2>1, <2>2
<1>8. ASSUME \A d \in Client \ {c} : link'[d] = link[d] PROVE Calls'
  <2>1. \A d \in Client \ {c} : call'[d] = call[d]
    BY <1>2
  <2> QED
    BY <1>2, <1>5, <1>8, <2>1, OthersStay DEF Base
<1> QED
  BY <1>2, <1>3, <1>4, <1>5, <1>6, <1>7, <1>8

LEMMA SendShape ==
  ASSUME Base, NEW c \in Client, Send(c)
  PROVE  /\ call[c] = Idle /\ link[c] # "broken"
         /\ UNCHANGED <<lists, accepted, orphans, link, got, unanswered, drops>>
         /\ \E cmd \in Pushes(c) \cup Withdrawals(c) :
              /\ Sendable(cmd, Received)
              /\ c \in Producer <=> cmd.op \in Pushing
              /\ cmd.op \in Pushing => fate[cmd.value] \in Pushable
              /\ call' = [d \in Client |->
                           IF d = c THEN [cmd |-> cmd, phase |-> "sent", reply |-> NullReply]
                                    ELSE call[d]]
              /\ fate' = IF cmd.op \in Pushing THEN [fate EXCEPT ![cmd.value] = "pushing"]
                                               ELSE fate
<1>1. PICK cmd \in Pushes(c) \cup Withdrawals(c) :
           /\ call' = [call EXCEPT ![c].cmd = cmd, ![c].phase = "sent"]
           /\ fate' = IF cmd.op \in Pushing THEN [fate EXCEPT ![cmd.value] = "pushing"] ELSE fate
  BY DEF Send
<1>2. call[c] = Idle /\ link[c] # "broken"
  BY DEF Send
<1>3. call' = [d \in Client |->
                 IF d = c THEN [cmd |-> cmd, phase |-> "sent", reply |-> NullReply] ELSE call[d]]
  <2> DEFINE a == [call EXCEPT ![c].cmd = cmd]
             b == [a EXCEPT ![c].phase = "sent"]
  <2>1. a = [d \in Client |-> IF d = c THEN [cmd |-> cmd, phase |-> "idle", reply |-> NullReply]
                                       ELSE call[d]]
    <3>1. [Idle EXCEPT !.cmd = cmd] = [cmd |-> cmd, phase |-> "idle", reply |-> NullReply]
      BY DEF Idle
    <3>2. a = [d \in Client |-> IF d = c THEN [Idle EXCEPT !.cmd = cmd] ELSE call[d]]
      BY <1>2, CallTypes
    <3> QED
      BY <3>1, <3>2
  <2>2. call' = b
    BY <1>1
  <2> HIDE DEF a
  <2> QED
    BY <2>1, <2>2
<1>4. UNCHANGED <<lists, accepted, orphans, link, got, unanswered, drops>>
  BY DEF Send, serverVars
<1>5. /\ Sendable(cmd, Received)
      /\ c \in Producer <=> cmd.op \in Pushing
      /\ cmd.op \in Pushing => fate[cmd.value] \in Pushable
  BY CommandsSendable DEF Base
<1> QED
  BY <1>1, <1>2, <1>3, <1>4, <1>5, Zenon

LEMMA SendBase ==
  ASSUME Base, NEW c \in Client, Send(c)
  PROVE  Base'
<1>1. TypeOK
  BY DEF Base
<1>2. PICK cmd \in Pushes(c) \cup Withdrawals(c) :
           /\ Sendable(cmd, Received)
           /\ c \in Producer <=> cmd.op \in Pushing
           /\ call' = [d \in Client |->
                        IF d = c THEN [cmd |-> cmd, phase |-> "sent", reply |-> NullReply]
                                 ELSE call[d]]
           /\ fate' = IF cmd.op \in Pushing THEN [fate EXCEPT ![cmd.value] = "pushing"] ELSE fate
  BY SendShape, Zenon
<1>3. cmd \in CommandType
  BY <1>2 DEF Sendable
<1>4. call[c] = Idle /\ link[c] # "broken"
  BY SendShape
<1>5. /\ call' \in [Client -> CallType]
      /\ call'[c] = [cmd |-> cmd, phase |-> "sent", reply |-> NullReply]
      /\ \A d \in Client \ {c} : call'[d] = call[d]
  <2>1. [cmd |-> cmd, phase |-> "sent", reply |-> NullReply] \in CallType
    BY <1>3, IdleFields DEF CallType
  <2> QED
    BY <1>2, <2>1, CallTypes
<1>6. UNCHANGED <<lists, accepted, orphans, link, got, unanswered, drops, Received, Down>>
  BY SendShape DEF Received, Down
<1>7. TypeOK'
  <2>1. fate' \in [Value -> {"fresh", "pushing", "denied", "confirmed"}]
    BY <1>1, <1>2 DEF TypeOK
  <2> QED
    BY <1>1, <1>5, <1>6, <2>1 DEF TypeOK, CallType
<1>8. Calls'
  <2>1. InCall(c)'
    <3>1. /\ call'[c].cmd = cmd /\ call'[c].phase = "sent" /\ call'[c].reply = NullReply
      BY <1>5
    <3>2. Cargo(c)' = <<>>
      BY <3>1 DEF Cargo
    <3>3. Sendable(call'[c].cmd, Received')
      BY <1>2, <1>6, <3>1
    <3>4. c \in Producer <=> call'[c].cmd.op \in Pushing
      BY <1>2, <3>1
    <3> QED
      BY <1>4, <1>6, <3>1, <3>2, <3>3, <3>4 DEF InCall
  <2> QED
    BY <1>5, <1>6, <2>1, OthersStay DEF Base
<1>9. Orphans' /\ DropsCounted'
  BY <1>6 DEF Base, Orphans, DropsCounted
<1>10. ConfirmedIsStored'
  BY <1>1, <1>2, <1>6 DEF Base, ConfirmedIsStored, TypeOK
<1> QED
  BY <1>7, <1>8, <1>9, <1>10 DEF Base

LEMMA FailFastBase ==
  ASSUME Base, NEW c \in Client, FailFast(c)
  PROVE  Base'
<1>1. TypeOK
  BY DEF Base
<1>2. PICK cmd \in Pushes(c) \cup Withdrawals(c) : Return(c, cmd, NullReply)
  BY DEF FailFast
<1>3. /\ Sendable(cmd, Received) /\ ~Verdict(cmd.op, NullReply)
      /\ Handed(cmd.op, NullReply) \in AtMostOne
  BY <1>1, CommandsSendable, NoGoodReply DEF AtMostOne
<1>4. UNCHANGED <<lists, accepted, orphans, link, unanswered, drops>>
  BY DEF FailFast, serverVars
<1>5. /\ call' \in [Client -> CallType] /\ got' \in [Consumer -> Seq(Value)]
      /\ fate' \in [Value -> {"fresh", "pushing", "denied", "confirmed"}]
      /\ Received \subseteq Received' /\ ConfirmedIsStored' /\ Calls'
  BY <1>2, <1>3, <1>4, ReturnShape
<1>6. TypeOK'
  BY <1>1, <1>4, <1>5 DEF TypeOK, CallType
<1>7. Orphans' /\ DropsCounted'
  BY <1>1, <1>4, <1>5, OrphansStay DEF Base, DropsCounted, Down, TypeOK
<1> QED
  BY <1>5, <1>6, <1>7 DEF Base

LEMMA ReceiveBase ==
  ASSUME Base, NEW c \in Client, Receive(c)
  PROVE  Base'
<1>1. TypeOK /\ InCall(c)
  BY CallTypes DEF Base, Receive
<1>2. Return(c, call[c].cmd, call[c].reply) /\ call[c].phase = "answered"
  BY DEF Receive
<1>3. /\ Sendable(call[c].cmd, Received)
      /\ Handed(call[c].cmd.op, call[c].reply) \in AtMostOne
      /\ call[c].cmd.op \in Pushing /\ Verdict(call[c].cmd.op, call[c].reply)
           => call[c].cmd.value \in ToSet(accepted)
  BY <1>1, <1>2 DEF InCall, Cargo, AtMostOne
<1>4. UNCHANGED <<lists, accepted, orphans, link, unanswered, drops>>
  BY DEF Receive, serverVars
<1>5. /\ call' \in [Client -> CallType] /\ got' \in [Consumer -> Seq(Value)]
      /\ fate' \in [Value -> {"fresh", "pushing", "denied", "confirmed"}]
      /\ Received \subseteq Received' /\ ConfirmedIsStored' /\ Calls'
  BY <1>2, <1>3, <1>4, ReturnShape
<1>6. TypeOK'
  BY <1>1, <1>4, <1>5 DEF TypeOK, CallType
<1>7. Orphans' /\ DropsCounted'
  BY <1>1, <1>4, <1>5, OrphansStay DEF Base, DropsCounted, Down, TypeOK
<1> QED
  BY <1>5, <1>6, <1>7 DEF Base

LEMMA ReceiveNothingBase ==
  ASSUME Base, NEW c \in Client, ReceiveNothing(c)
  PROVE  Base'
<1>1. TypeOK /\ InCall(c) /\ link[c] = "down"
  BY CallTypes DEF Base, ReceiveNothing
<1>2. Return(c, call[c].cmd, NullReply)
  BY DEF ReceiveNothing
<1>3. /\ Sendable(call[c].cmd, Received) /\ ~Verdict(call[c].cmd.op, NullReply)
      /\ Handed(call[c].cmd.op, NullReply) \in AtMostOne
  BY <1>1, NoGoodReply DEF InCall, AtMostOne
<1>4. /\ UNCHANGED <<lists, accepted, orphans, drops>>
      /\ link' = [d \in Client |-> IF d = c THEN "broken" ELSE link[d]]
  BY <1>1, CallTypes DEF ReceiveNothing, serverVars
<1>5. /\ call' \in [Client -> CallType] /\ got' \in [Consumer -> Seq(Value)]
      /\ fate' \in [Value -> {"fresh", "pushing", "denied", "confirmed"}]
      /\ Received \subseteq Received' /\ ConfirmedIsStored' /\ Calls'
  BY <1>2, <1>3, <1>4, ReturnShape
<1>6. unanswered' \in Nat /\ unanswered' + Cardinality(Down') <= drops
  <2>1. /\ unanswered \in Nat /\ drops \in Nat /\ Cardinality(Down) \in Nat
        /\ unanswered + Cardinality(Down) <= drops /\ IsFiniteSet(Down)
    BY <1>1, DownFinite DEF Base, DropsCounted, TypeOK
  <2>2. CASE c \in Consumer
    <3>1. c \in Down /\ Down' = Down \ {c}
      BY <1>1, <1>4, <2>2 DEF Down, Client
    <3>2. Cardinality(Down') = Cardinality(Down) - 1
      BY <2>1, <3>1, FS_RemoveElement
    <3>3. unanswered' \in {unanswered, unanswered + 1}
      BY DEF ReceiveNothing
    <3> QED
      BY <2>1, <3>2, <3>3
  <2>3. CASE c \notin Consumer
    <3>1. Down' = Down
      BY <1>4, <2>3 DEF Down, Client
    <3>2. call[c].cmd.op \notin Withdrawing
      BY <1>1, <2>3, MethodNames DEF InCall, Client
    <3> QED
      BY <2>1, <3>1, <3>2 DEF ReceiveNothing
  <2> QED
    BY <2>2, <2>3
<1>7. TypeOK'
  <2>1. link' \in [Client -> {"up", "down", "broken"}]
    BY <1>1, <1>4 DEF TypeOK
  <2>2. unanswered' \in 0 .. MaxDrops
    <3>1. IsFiniteSet(Down') /\ Cardinality(Down') \in Nat
      <4>1. Down' \in SUBSET Consumer
        BY DEF Down
      <4> QED
        BY <4>1, QueueAssumption, FS_Subset, FS_CardinalityType
    <3> QED
      BY <1>1, <1>6, <3>1, QueueAssumption DEF TypeOK
  <2> QED
    BY <1>1, <1>4, <1>5, <2>1, <2>2 DEF TypeOK, CallType
<1>8. Orphans' /\ DropsCounted'
  BY <1>1, <1>4, <1>5, <1>6, OrphansStay DEF Base, DropsCounted, TypeOK
<1> QED
  BY <1>5, <1>7, <1>8 DEF Base

LEMMA ConnectBase ==
  ASSUME Base, NEW c \in Client, Connect(c)
  PROVE  Base'
<1>1. TypeOK
  BY DEF Base
<1>2. /\ UNCHANGED <<lists, accepted, orphans, call, fate, got, unanswered, drops, Received>>
      /\ link' = [d \in Client |-> IF d = c THEN "up" ELSE link[d]]
  BY CallTypes DEF Connect, serverVars, callerVars, Received
<1>3. TypeOK'
  BY <1>1, <1>2 DEF TypeOK
<1>4. Calls'
  <2>1. call'[c] = Idle
    BY <1>2 DEF Connect
  <2>2. \A d \in Client \ {c} : call'[d] = call[d] /\ link'[d] = link[d]
    BY <1>2
  <2>3. Received \subseteq Received' /\ ToSet(accepted) \subseteq ToSet(accepted')
    BY <1>2
  <2> QED
    BY <2>1, <2>2, <2>3, OthersStay DEF Base
<1>5. DropsCounted'
  <2>1. /\ unanswered \in Nat /\ drops \in Nat /\ Cardinality(Down) \in Nat
        /\ unanswered + Cardinality(Down) <= drops /\ IsFiniteSet(Down)
    BY <1>1, DownFinite DEF Base, DropsCounted, TypeOK
  <2>2. Down' \in SUBSET Down
    BY <1>2 DEF Down, Client
  <2>3. Cardinality(Down') <= Cardinality(Down) /\ Cardinality(Down') \in Nat
    BY <2>1, <2>2, FS_Subset, FS_CardinalityType
  <2> QED
    BY <1>2, <2>1, <2>3 DEF DropsCounted
<1>6. Orphans' /\ ConfirmedIsStored'
  BY <1>2 DEF Base, Orphans, ConfirmedIsStored
<1> QED
  BY <1>3, <1>4, <1>5, <1>6 DEF Base

LEMMA LinkDropShape ==
  ASSUME Base, NEW c \in Client, LinkDrop(c)
  PROVE  /\ UNCHANGED <<lists, accepted, call, fate, got, unanswered, Received>>
         /\ link' = [d \in Client |-> IF d = c THEN "down" ELSE link[d]] /\ link[c] = "up"
         /\ drops' = drops + 1 /\ drops < MaxDrops
         /\ \/ orphans' = orphans
            \/ /\ call[c].phase \in {"sent", "waiting"}
               /\ orphans' = orphans \cup {[cmd |-> call[c].cmd, n |-> drops]}
<1>1. /\ UNCHANGED <<lists, accepted, call, fate, got, unanswered, Received>>
      /\ link' = [d \in Client |-> IF d = c THEN "down" ELSE link[d]]
      /\ drops' = drops + 1 /\ drops < MaxDrops /\ link[c] = "up"
  BY CallTypes DEF LinkDrop, callerVars, Received
<1>2. \/ orphans' = orphans
      \/ /\ call[c].phase \in {"sent", "waiting"}
         /\ orphans' = orphans \cup {[cmd |-> call[c].cmd, n |-> drops]}
  BY DEF LinkDrop
<1> QED
  BY <1>1, <1>2

LEMMA LinkDropBase ==
  ASSUME Base, NEW c \in Client, LinkDrop(c)
  PROVE  Base'
<1>1. TypeOK
  BY DEF Base
<1>2. /\ UNCHANGED <<lists, accepted, call, fate, got, unanswered, Received>>
      /\ link' = [d \in Client |-> IF d = c THEN "down" ELSE link[d]]
      /\ drops' = drops + 1 /\ drops < MaxDrops /\ link[c] = "up"
  BY LinkDropShape
<1>3. drops \in Nat /\ drops' \in 0 .. MaxDrops /\ MaxDrops \in Nat
  BY <1>1, <1>2, QueueAssumption DEF TypeOK
<1>4. \/ orphans' = orphans
      \/ /\ call[c].phase \in {"sent", "waiting"}
         /\ orphans' = orphans \cup {[cmd |-> call[c].cmd, n |-> drops]}
  BY LinkDropShape
<1>5. call[c].phase \in {"sent", "waiting"} => /\ Sendable(call[c].cmd, Received)
                                               /\ call[c].cmd \in CommandType
  BY CallTypes DEF InCall, Sendable
<1>6. TypeOK'
  <2>1. link' \in [Client -> {"up", "down", "broken"}]
    BY <1>1, <1>2 DEF TypeOK
  <2>2. orphans' \subseteq [cmd : CommandType, n : 0 .. MaxDrops]
    BY <1>1, <1>2, <1>3, <1>4, <1>5 DEF TypeOK
  <2> QED
    BY <1>1, <1>2, <1>3, <2>1, <2>2 DEF TypeOK
<1>7. Calls'
  <2>1. call'[c] = Idle \/ InCall(c)'
    <3>1. ASSUME call[c] # Idle PROVE InCall(c)'
      <4>1. InCall(c) /\ call'[c] = call[c] /\ link'[c] = "down"
        BY <1>1, <1>2, <3>1, CallTypes DEF TypeOK
      <4> QED
        BY <1>2, <4>1, InCallStays
    <3> QED
      BY <1>2, <3>1
  <2> QED
    BY <1>2, <2>1, OthersStay DEF Base
<1>8. Orphans'
  <2>1. IsFiniteSet(orphans')
    BY <1>4, FS_AddElement DEF Base, Orphans
  <2>2. ASSUME NEW o \in orphans' PROVE Sendable(o.cmd, Received') /\ o.n < drops'
    <3>1. CASE o \in orphans
      <4>1. Sendable(o.cmd, Received) /\ o.n < drops /\ o.n \in Nat
        BY <1>1, <1>3, <3>1 DEF Base, Orphans, TypeOK
      <4> QED
        BY <1>2, <1>3, <4>1
    <3>2. CASE o \notin orphans
      <4>1. /\ o.cmd = call[c].cmd /\ o.n = drops
            /\ Sendable(call[c].cmd, Received)
        BY <1>4, <1>5, <3>2
      <4> QED
        BY <1>2, <1>3, <4>1
    <3> QED
      BY <3>1, <3>2
  <2> QED
    BY <2>1, <2>2 DEF Orphans
<1>9. DropsCounted'
  <2>1. /\ unanswered \in Nat /\ drops \in Nat /\ Cardinality(Down) \in Nat
        /\ unanswered + Cardinality(Down) <= drops /\ IsFiniteSet(Down)
    BY <1>1, DownFinite DEF Base, DropsCounted, TypeOK
  <2>2. Down' \in SUBSET (Down \cup {c})
    BY <1>2 DEF Down, Client
  <2>3. /\ IsFiniteSet(Down \cup {c}) /\ Cardinality(Down \cup {c}) <= Cardinality(Down) + 1
        /\ Cardinality(Down \cup {c}) \in Nat
    <3>1. /\ IsFiniteSet(Down \cup {c})
          /\ Cardinality(Down \cup {c}) = IF c \in Down THEN Cardinality(Down)
                                         ELSE Cardinality(Down) + 1
      BY <2>1, FS_AddElement
    <3> DEFINE n == Cardinality(Down \cup {c})
               m == Cardinality(Down)
    <3>2. n \in Nat /\ m \in Nat /\ (n = m \/ n = m + 1)
      BY <2>1, <3>1, FS_CardinalityType
    <3> HIDE DEF n, m
    <3>3. n <= m + 1
      BY <3>2
    <3> QED
      BY <3>1, <3>2, <3>3 DEF n, m
  <2>4. Cardinality(Down') <= Cardinality(Down \cup {c}) /\ Cardinality(Down') \in Nat
    BY <2>2, <2>3, FS_Subset, FS_CardinalityType
  <2> QED
    BY <1>2, <2>1, <2>3, <2>4 DEF DropsCounted
<1>10. ConfirmedIsStored'
  BY <1>2 DEF Base, ConfirmedIsStored
<1> QED
  BY <1>6, <1>7, <1>8, <1>9, <1>10 DEF Base

\* The phase of a call changes and nothing else: it blocks, or its timeout expires.
PhaseOnly(c, r, phase) ==
  /\ call' = [d \in Client |-> IF d = c THEN [cmd |-> call[c].cmd, reply |-> r, phase |-> phase]
                                        ELSE call[d]]
  /\ phase = "waiting" => r = NullReply
  /\ phase = "answered" => r = NilReply

LEMMA PhaseShape ==
  ASSUME Base, NEW c \in Client, Block(c) \/ Expire(c)
  PROVE  /\ call[c].phase \in {"sent", "waiting"} /\ link[c] = "up" /\ InCall(c)
         /\ call[c].cmd.op \in Blocking
         /\ UNCHANGED <<lists, accepted, orphans, link, fate, got, unanswered, drops>>
         /\ \E r \in {NullReply, NilReply}, phase \in {"waiting", "answered"} :
              PhaseOnly(c, r, phase)
<1>1. /\ call[c] \in CallType /\ InCall(c) /\ TypeOK
  BY CallTypes DEF Base, Block, Expire
<1>2. UNCHANGED <<lists, accepted, orphans, link, fate, got, unanswered, drops>>
  BY DEF Block, Expire, serverVars, callerVars
<1>3. /\ \E r \in {NullReply, NilReply}, phase \in {"waiting", "answered"} :
              PhaseOnly(c, r, phase)
      /\ call[c].cmd.op \in Blocking
  <2>1. call[c] = [cmd |-> call[c].cmd, reply |-> call[c].reply, phase |-> call[c].phase]
    BY <1>1 DEF CallType
  <2>2. CASE Block(c)
    <3>1. call' = [d \in Client |-> IF d = c THEN [cmd |-> call[c].cmd, reply |-> call[c].reply,
                                                 phase |-> "waiting"]
                                            ELSE call[d]]
      <4>1. call' = [d \in Client |-> IF d = c THEN [call[c] EXCEPT !.phase = "waiting"]
                                              ELSE call[d]]
        BY <2>2, CallTypes DEF Block
      <4>2. [call[c] EXCEPT !.phase = "waiting"]
              = [cmd |-> call[c].cmd, reply |-> call[c].reply, phase |-> "waiting"]
        BY <1>1 DEF CallType
      <4> QED
        BY <4>1, <4>2
    <3>2. call[c].reply = NullReply
      BY <1>1, <2>2 DEF Block, InCall
    <3>3. call[c].cmd.op \in Blocking
      <4>1. call[c].cmd.op \in PopMethod \/ Effects(call[c].cmd) # {}
        <5>1. ASSUME call[c].cmd.op \notin PopMethod PROVE Effects(call[c].cmd) # {}
          <6>1. call[c].cmd.op \in Pushing \/ call[c].cmd.op = "lrem"
            BY <1>1, <5>1, MethodNames DEF InCall, Sendable
          <6>2. PushEffect(call[c].cmd) # {} /\ {RemoveEffect(call[c].cmd)} # {}
            BY DEF PushEffect
          <6> QED
            BY <6>1, <6>2 DEF Effects
        <5> QED
          BY <5>1
      <4>2. Effects(call[c].cmd) = {}
        BY <2>2 DEF Block
      <4> QED
        BY <4>1, <4>2, MethodNames DEF Effects
    <3> QED
      BY <3>1, <3>2, <3>3 DEF PhaseOnly
  <2>3. CASE Expire(c)
    <3> DEFINE a == [call EXCEPT ![c].phase = "answered"]
               b == [a EXCEPT ![c].reply = NilReply]
    <3>1. a = [d \in Client |-> IF d = c THEN [cmd |-> call[c].cmd, reply |-> call[c].reply,
                                              phase |-> "answered"]
                                         ELSE call[d]]
      BY <2>1, CallTypes
    <3>2. call' = b
      BY <2>3 DEF Expire
    <3>3. call[c].cmd.op \in Blocking
      BY <1>1, <2>3 DEF Expire, InCall
    <3> HIDE DEF a
    <3> QED
      BY <3>1, <3>2, <3>3 DEF PhaseOnly
  <2> QED
    BY <2>2, <2>3
<1>4. call[c].phase \in {"sent", "waiting"} /\ link[c] = "up"
  BY DEF Block, Expire
<1> QED
  BY <1>1, <1>2, <1>3, <1>4

LEMMA PhaseBase ==
  ASSUME Base, NEW c \in Client, Block(c) \/ Expire(c)
  PROVE  Base'
<1>1. /\ call[c] \in CallType /\ InCall(c) /\ TypeOK /\ call[c].cmd.op \in Blocking
  BY CallTypes, PhaseShape DEF Base
<1>2. UNCHANGED <<lists, accepted, orphans, link, fate, got, unanswered, drops, Received, Down>>
  BY PhaseShape DEF Received, Down
<1>3. PICK r \in {NullReply, NilReply}, phase \in {"waiting", "answered"} :
           PhaseOnly(c, r, phase)
  BY PhaseShape
<1>4. /\ call' \in [Client -> CallType]
      /\ call'[c] = [cmd |-> call[c].cmd, reply |-> r, phase |-> phase]
      /\ \A d \in Client \ {c} : call'[d] = call[d]
  <2>1. r \in Reply(Text)
    BY <1>3, ReplyTypes, IdleFields
  <2> QED
    BY <1>1, <1>3, <2>1, CallTypes DEF CallType, PhaseOnly
<1>5. TypeOK'
  BY <1>1, <1>2, <1>4 DEF TypeOK, CallType
<1>6. InCall(c)'
  <2>1. Cargo(c)' = <<>>
    BY <1>4, NoGoodReply DEF Cargo
  <2>2. ~Verdict(call[c].cmd.op, r)
    BY NoGoodReply
  <2>3. Sendable(call'[c].cmd, Received')
    BY <1>1, <1>2, <1>4 DEF InCall
  <2> QED
    BY <1>1, <1>2, <1>3, <1>4, <2>1, <2>2, <2>3 DEF InCall, PhaseOnly
<1>7. Calls'
  BY <1>2, <1>4, <1>6, OthersStay DEF Base
<1>8. Orphans' /\ DropsCounted' /\ ConfirmedIsStored'
  BY <1>2 DEF Base, Orphans, DropsCounted, ConfirmedIsStored
<1> QED
  BY <1>5, <1>7, <1>8 DEF Base

LEMMA InitBase == Init => Base
<1> SUFFICES ASSUME Init PROVE Base
  OBVIOUS
<1>1. TypeOK
  <2>1. <<>> \in Seq(Value) /\ ToSet(<<>>) = {}
    BY DEF ToSet
  <2>2. /\ lists \in [Key \cup {Joined} -> Seq(Value)] /\ got \in [Consumer -> Seq(Value)]
        /\ accepted \in Seq(Value) /\ Len(accepted) <= MaxAccepted
    BY <2>1, QueueAssumption DEF Init
  <2>3. unanswered \in 0 .. MaxDrops /\ drops \in 0 .. MaxDrops
    BY QueueAssumption DEF Init
  <2> QED
    BY <2>2, <2>3, IdleFields DEF Init, TypeOK
<1>2. Calls
  BY DEF Init, Calls
<1>3. Orphans
  BY FS_EmptySet DEF Init, Orphans
<1>4. DropsCounted
  <2>1. Down = {}
    BY DEF Init, Down, Client
  <2> QED
    BY <2>1, FS_EmptySet DEF Init, DropsCounted
<1>5. ConfirmedIsStored
  BY DEF Init, ConfirmedIsStored
<1> QED
  BY <1>1, <1>2, <1>3, <1>4, <1>5 DEF Base

LEMMA NextBase == Base /\ [Next]_vars => Base'
<1> SUFFICES ASSUME Base, [Next]_vars PROVE Base'
  OBVIOUS
<1>1. CASE UNCHANGED vars
  <2>1. UNCHANGED <<lists, accepted, orphans, call, link, fate, got, unanswered, drops>>
    BY <1>1 DEF vars, serverVars, callerVars
  <2>2. UNCHANGED <<Received, Down>>
    BY <2>1 DEF Received, Down
  <2>3. Calls'
    <3> SUFFICES ASSUME NEW c \in Client, call'[c] # Idle PROVE InCall(c)'
      BY DEF Calls
    <3>1. InCall(c) /\ call'[c] = call[c] /\ link'[c] # "broken"
      BY <2>1 DEF Base, Calls, InCall
    <3> QED
      BY <2>1, <2>2, <3>1, InCallStays
  <2>4. TypeOK' /\ Orphans' /\ DropsCounted' /\ ConfirmedIsStored'
    BY <2>1, <2>2 DEF Base, TypeOK, Orphans, DropsCounted, ConfirmedIsStored
  <2> QED
    BY <2>3, <2>4 DEF Base
<1>2. ASSUME NEW o \in orphans, Orphaned(o) PROVE Base'
  BY <1>2, OrphanedBase
<1>3. ASSUME NEW c \in Client, Apply(c) \/ Serve(c) PROVE Base'
  <2>1. Answer(c) /\ call[c].phase \in {"sent", "waiting"}
    BY <1>3 DEF Apply, Serve
  <2> QED
    BY <2>1, AnswerShape, AnswerBase
<1>4. ASSUME NEW c \in Client, Block(c) \/ Expire(c) PROVE Base'
  BY <1>4, PhaseBase
<1>5. ASSUME NEW c \in Client, Send(c) PROVE Base'
  BY <1>5, SendBase
<1>6. ASSUME NEW c \in Client, FailFast(c) PROVE Base'
  BY <1>6, FailFastBase
<1>7. ASSUME NEW c \in Client, Receive(c) PROVE Base'
  BY <1>7, ReceiveBase
<1>8. ASSUME NEW c \in Client, ReceiveNothing(c) PROVE Base'
  BY <1>8, ReceiveNothingBase
<1>9. ASSUME NEW c \in Client, Connect(c) PROVE Base'
  BY <1>9, ConnectBase
<1>10. ASSUME NEW c \in Client, LinkDrop(c) PROVE Base'
  BY <1>10, LinkDropBase
<1> QED
  BY <1>1, <1>2, <1>3, <1>4, <1>5, <1>6, <1>7, <1>8, <1>9, <1>10 DEF Next

\* Types hold, and no two withdrawals end without a reply for one ended connection.
THEOREM TypeCorrect == Spec => []TypeOK
<1>1. Base => TypeOK
  BY DEF Base
<1> QED
  BY InitBase, NextBase, <1>1, PTL DEF Spec

\* A push that reports success has stored its element, whoever pushes, however
\* often, and whichever connections end.
THEOREM ConfirmedPushIsStored == Spec => []ConfirmedIsStored
<1>1. Base => ConfirmedIsStored
  BY DEF Base
<1> QED
  BY InitBase, NextBase, <1>1, PTL DEF Spec

-----------------------------------------------------------------------------
(* Where an element is: on a list, or with the consumer that has been, or  *)
(* is about to be, given it.                                               *)

LEMMA HeldElements ==
  ASSUME Base, NEW c \in Consumer
  PROVE  /\ got[c] \in Seq(Value) /\ Cargo(c) \in AtMostOne /\ Held(c) \in Seq(Value)
         /\ ToSet(Held(c)) = ToSet(got[c]) \cup ToSet(Cargo(c))
         /\ \A i \in 1 .. Len(got[c]) : Held(c)[i] = got[c][i]
<1>1. got[c] \in Seq(Value)
  BY DEF Base, TypeOK
<1>2. Cargo(c) \in AtMostOne
  <2>1. CASE call[c] = Idle
    BY <2>1, IdleFields DEF Cargo, AtMostOne
  <2>2. CASE InCall(c)
    BY <2>2 DEF InCall, AtMostOne
  <2> QED
    BY <2>1, <2>2 DEF Base, Calls, Client
<1> QED
  BY <1>1, <1>2, ConcatElements DEF Held

LEMMA FoundElements ==
  ASSUME Base, NEW v
  PROVE  /\ v \in Stored <=> \E k \in Key : v \in ToSet(lists[k])
         /\ v \in InFlight \cup Received <=> \E c \in Consumer : v \in ToSet(Held(c))
<1>1. v \in Stored <=> \E k \in Key : v \in ToSet(lists[k])
  BY DEF Stored
<1>2. v \in InFlight <=> \E c \in Consumer : v \in ToSet(Cargo(c))
  <2>1. ToSet(<<>>) = {}
    BY DEF ToSet
  <2>2. ASSUME v \in InFlight PROVE \E c \in Consumer : v \in ToSet(Cargo(c))
    BY <2>2 DEF InFlight, Cargo
  <2>3. ASSUME NEW c \in Consumer, v \in ToSet(Cargo(c)) PROVE v \in InFlight
    <3>1. call[c].phase = "answered"
      BY <2>1, <2>3 DEF Cargo
    <3>2. v \in ToSet(Handed(call[c].cmd.op, call[c].reply))
      BY <2>3, <3>1 DEF Cargo
    <3> QED
      BY <3>1, <3>2 DEF InFlight
  <2> QED
    BY <2>2, <2>3
<1>3. v \in Received <=> \E c \in Consumer : v \in ToSet(got[c])
  BY DEF Received
<1>4. \A c \in Consumer : v \in ToSet(Held(c)) <=> v \in ToSet(got[c]) \/ v \in ToSet(Cargo(c))
  BY HeldElements
<1> QED
  BY <1>1, <1>2, <1>3, <1>4

Places ==
  /\ \A c \in Consumer : Held(c) \in Seq(Value)
  /\ \A v : v \in InFlight \cup Received <=> \E c \in Consumer : v \in ToSet(Held(c))

LEMMA PlacesNext == Base' => Places'
<1>1. Base => Places
  BY HeldElements, FoundElements DEF Places
<1> QED
  BY <1>1, PTL

\* The element a pop takes leaves one list; brpoplpush() puts it on another.
LEMMA TakenElements ==
  ASSUME TypeOK, NEW cmd, cmd.key \in Key \cup {Joined}, NEW r, NEW v \in Value, Takes(cmd, r, v)
  PROVE  /\ \A k \in Key \cup {Joined} : ToSet(lists[k]) \subseteq ToSet(lists'[k]) \cup {v}
         /\ cmd.op = "brpoplpush" => v \in ToSet(lists'[Processing])
<1> DEFINE rest == [lists EXCEPT ![cmd.key] = Removed(@, EndOf(cmd.op))]
<1>1. /\ lists \in [Key \cup {Joined} -> Seq(Value)] /\ Processing \in Key
      /\ lists[cmd.key] # <<>> /\ v = Element(lists[cmd.key], EndOf(cmd.op))
  BY QueueAssumption DEF TypeOK, Takes
<1>2. lists' = IF cmd.op = "brpoplpush" THEN [rest EXCEPT ![Processing] = <<v>> \o @] ELSE rest
  BY DEF Takes, Moved
<1>3. /\ Removed(lists[cmd.key], EndOf(cmd.op)) \in Seq(Value)
      /\ ToSet(lists[cmd.key]) = ToSet(Removed(lists[cmd.key], EndOf(cmd.op))) \cup {v}
  BY <1>1, RemovedElements
<1>4. /\ rest \in [Key \cup {Joined} -> Seq(Value)]
      /\ \A k \in Key \cup {Joined} : ToSet(lists[k]) \subseteq ToSet(rest[k]) \cup {v}
  BY <1>1, <1>3
<1> HIDE DEF rest
<1>5. CASE cmd.op = "brpoplpush"
  <2>1. <<v>> \o rest[Processing] = Added(rest[Processing], "L", v)
    BY DEF Added
  <2>2. ToSet(<<v>> \o rest[Processing]) = ToSet(rest[Processing]) \cup {v}
    <3>1. ToSet(Added(rest[Processing], "L", v)) = ToSet(rest[Processing]) \cup {v}
      BY <1>1, <1>4, AddedElements
    <3> QED
      BY <2>1, <3>1, Zenon
  <2>3. \A k \in Key \cup {Joined} :
          lists'[k] = IF k = Processing THEN <<v>> \o rest[Processing] ELSE rest[k]
    BY <1>1, <1>2, <1>4, <1>5
  <2> QED
    BY <1>1, <1>4, <2>2, <2>3
<1>6. CASE cmd.op # "brpoplpush"
  BY <1>2, <1>4, <1>6
<1> QED
  BY <1>5, <1>6

\* An element leaves the lists only for the client that pops it, or when
\* somebody has received it.
LEMMA CarriedElements ==
  ASSUME TypeOK, NEW cmd, Sendable(cmd, Received), NEW r, Carried(cmd, r)
  PROVE  /\ ToSet(accepted') \subseteq ToSet(accepted) \cup Stored'
         /\ \A w \in Stored :
              \/ w \in Stored' \cup Received
              \/ Handed(cmd.op, r) = <<w>> /\ cmd.op \in Withdrawing \ {"brpoplpush"}
<1>1. /\ lists \in [Key \cup {Joined} -> Seq(Value)] /\ accepted \in Seq(Value)
      /\ Queue \in Key /\ Processing \in Key
  BY QueueAssumption DEF TypeOK
<1>2. CASE Refuses(cmd, r)
  BY <1>2 DEF Refuses, Stored
<1>3. CASE Stores(cmd, r)
  <2> DEFINE list == Added(lists[Queue], EndOf(cmd.op), cmd.value)
  <2>1. ToSet(list) = ToSet(lists[Queue]) \cup {cmd.value}
    BY <1>1, <1>3, AddedElements DEF Stores
  <2>2. lists' = [lists EXCEPT ![Queue] = list]
    BY <1>3 DEF Stores
  <2> HIDE DEF list
  <2>3. /\ \A k \in Key : ToSet(lists[k]) \subseteq ToSet(lists'[k])
        /\ cmd.value \in ToSet(lists'[Queue])
    BY <1>1, <2>1, <2>2
  <2>4. Stored \subseteq Stored' /\ cmd.value \in Stored'
    BY <1>1, <2>3 DEF Stored
  <2>5. ToSet(accepted') = ToSet(accepted) \cup {cmd.value}
    BY <1>1, <1>3, AppendElements DEF Stores
  <2> QED
    BY <2>4, <2>5
<1>4. CASE Clears(cmd, r)
  <2> DEFINE list == Without(lists[Processing], cmd.value)
  <2>1. ToSet(lists[Processing]) \subseteq ToSet(list) \cup {cmd.value}
    BY <1>1, WithoutElements
  <2>2. lists' = [lists EXCEPT ![Processing] = list]
    BY <1>4 DEF Clears
  <2> HIDE DEF list
  <2>3. \A k \in Key : ToSet(lists[k]) \subseteq ToSet(lists'[k]) \cup {cmd.value}
    BY <1>1, <2>1, <2>2
  <2>4. Stored \subseteq Stored' \cup {cmd.value}
    BY <2>3 DEF Stored
  <2> QED
    BY <1>4, <2>4 DEF Clears
<1>5. ASSUME NEW v \in Value, Takes(cmd, r, v)
      PROVE  /\ accepted' = accepted
             /\ \A w \in Stored :
                  \/ w \in Stored'
                  \/ Handed(cmd.op, r) = <<w>> /\ cmd.op \in Withdrawing \ {"brpoplpush"}
  <2>1. /\ \A k \in Key \cup {Joined} : ToSet(lists[k]) \subseteq ToSet(lists'[k]) \cup {v}
        /\ cmd.op = "brpoplpush" => v \in ToSet(lists'[Processing])
    BY <1>5, NameOfKey, TakenElements
  <2>2. /\ Stored \subseteq Stored' \cup {v}
        /\ cmd.op = "brpoplpush" => v \in Stored'
    BY <1>1, <2>1, ZenonT(40) DEF Stored
  <2>3. accepted' = accepted /\ Handed(cmd.op, r) = <<v>> /\ cmd.op \in Withdrawing
    BY <1>5 DEF Takes
  <2> QED
    BY <2>2, <2>3
<1> QED
  BY <1>2, <1>3, <1>4, <1>5 DEF Carried

\* What each step does to what the consumers hold.
LEMMA HeldStays ==
  ASSUME NEW d, call'[d] = call[d], got'[d] = got[d]
  PROVE  Held(d)' = Held(d)
BY DEF Held, Cargo

LEMMA AnswerHeld ==
  ASSUME Base, NEW c \in Client, call[c].phase \in {"sent", "waiting"}, NEW r, Answered(c, r)
  PROVE  \A d \in Consumer :
           Held(d)' = IF d = c THEN Held(d) \o Handed(call[c].cmd.op, r) ELSE Held(d)
<1>1. /\ call'[c] = [cmd |-> call[c].cmd, reply |-> r, phase |-> "answered"]
      /\ \A d \in Client \ {c} : call'[d] = call[d]
      /\ got' = got
  BY DEF Answered, callerVars
<1>2. ASSUME NEW d \in Consumer, d # c PROVE Held(d)' = Held(d)
  BY <1>1, <1>2, HeldStays DEF Client
<1>3. ASSUME c \in Consumer PROVE Held(c)' = Held(c) \o Handed(call[c].cmd.op, r)
  <2>1. Cargo(c) = <<>> /\ got[c] \in Seq(Value)
    BY <1>3 DEF Cargo, Base, TypeOK
  <2>2. Held(c) = got[c]
    BY <2>1 DEF Held
  <2>3. Cargo(c)' = Handed(call[c].cmd.op, r)
    BY <1>1 DEF Cargo
  <2> QED
    BY <1>1, <2>2, <2>3 DEF Held
<1> QED
  BY <1>2, <1>3

LEMMA ReturnFields ==
  ASSUME Base, NEW c \in Client, NEW cmd, NEW r, Return(c, cmd, r)
  PROVE  /\ call' = [d \in Client |-> IF d = c THEN Idle ELSE call[d]]
         /\ \A d \in Consumer : got'[d] = IF d = c THEN got[d] \o Handed(cmd.op, r) ELSE got[d]
<1>1. call' = [d \in Client |-> IF d = c THEN Idle ELSE call[d]]
  BY CallTypes DEF Return
<1>2. \A d \in Consumer : got'[d] = IF d = c THEN got[d] \o Handed(cmd.op, r) ELSE got[d]
  BY DEF Base, TypeOK, Return
<1> QED
  BY <1>1, <1>2

LEMMA ReceiveHeld ==
  ASSUME Base, NEW c \in Client, Receive(c)
  PROVE  \A d \in Consumer : Held(d)' = Held(d)
<1>1. call[c].phase = "answered" /\ Return(c, call[c].cmd, call[c].reply)
  BY DEF Receive
<1>2. Cargo(c) = Handed(call[c].cmd.op, call[c].reply)
  BY <1>1 DEF Cargo
<1>3. /\ call' = [d \in Client |-> IF d = c THEN Idle ELSE call[d]]
      /\ \A d \in Consumer : got'[d] = IF d = c THEN got[d] \o Cargo(c) ELSE got[d]
  BY <1>1, <1>2, ReturnFields
<1>4. ASSUME NEW d \in Consumer, d # c PROVE Held(d)' = Held(d)
  BY <1>3, <1>4, HeldStays DEF Client
<1>5. ASSUME c \in Consumer PROVE Held(c)' = Held(c)
  <2>1. Cargo(c)' = <<>> /\ got'[c] = Held(c)
    BY <1>3, <1>5, IdleFields DEF Cargo, Held
  <2>2. Held(c) \in Seq(Value)
    BY <1>5, HeldElements
  <2> QED
    BY <2>1, <2>2 DEF Held
<1> QED
  BY <1>4, <1>5

LEMMA ReceiveNothingHeld ==
  ASSUME Base, NEW c \in Client, ReceiveNothing(c)
  PROVE  got' = got /\ \A d \in Consumer : Held(d)' = IF d = c THEN got[d] ELSE Held(d)
<1>1. Return(c, call[c].cmd, NullReply) /\ Handed(call[c].cmd.op, NullReply) = <<>>
  BY NoGoodReply DEF ReceiveNothing
<1>2. \A d \in Consumer : got'[d] = got[d]
  <2> DEFINE h == Handed(call[c].cmd.op, NullReply)
  <2>1. \A d \in Consumer : got'[d] = IF d = c THEN got[d] \o h ELSE got[d]
    BY <1>1, ReturnFields
  <2>2. h = <<>>
    BY <1>1
  <2> HIDE DEF h
  <2>3. \A d \in Consumer : got[d] \o h = got[d]
    BY <2>2 DEF Base, TypeOK
  <2> QED
    BY <2>1, <2>3
<1>3. call' = [d \in Client |-> IF d = c THEN Idle ELSE call[d]]
  BY <1>1, ReturnFields
<1>4. got' = got
  <2>1. got' = IF c \in Consumer
               THEN [got EXCEPT ![c] = @ \o Handed(call[c].cmd.op, NullReply)] ELSE got
    BY <1>1 DEF Return
  <2>2. got' = IF c \in Consumer THEN [got EXCEPT ![c] = @ \o <<>>] ELSE got
    BY <1>1, <2>1, Zenon
  <2>3. \A d \in Consumer : got[d] \o <<>> = got[d]
    BY DEF Base, TypeOK
  <2> QED
    BY <2>2, <2>3 DEF Base, TypeOK
<1>5. ASSUME NEW d \in Consumer, d # c PROVE Held(d)' = Held(d)
  BY <1>2, <1>3, <1>5, HeldStays DEF Client
<1>6. ASSUME c \in Consumer PROVE Held(c)' = got[c]
  <2>1. got[c] \in Seq(Value)
    BY <1>6 DEF Base, TypeOK
  <2>2. Cargo(c)' = <<>> /\ got'[c] = got[c]
    BY <1>2, <1>3, <1>6, IdleFields DEF Cargo
  <2> QED
    BY <2>1, <2>2 DEF Held
<1> QED
  BY <1>4, <1>5, <1>6

LEMMA FailFastShape ==
  ASSUME Base, NEW c \in Client, FailFast(c)
  PROVE  /\ call[c] = Idle
         /\ UNCHANGED <<lists, accepted, orphans, call, link, got, unanswered, drops>>
         /\ \E cmd \in Pushes(c) \cup Withdrawals(c) :
              /\ Sendable(cmd, Received)
              /\ c \in Producer <=> cmd.op \in Pushing
              /\ cmd.op \in Pushing => fate[cmd.value] \in Pushable
              /\ fate' = IF cmd.op \in Pushing THEN [fate EXCEPT ![cmd.value] = "denied"]
                                               ELSE fate
<1>1. PICK cmd \in Pushes(c) \cup Withdrawals(c) : Return(c, cmd, NullReply)
  BY DEF FailFast
<1>2. /\ call[c] = Idle /\ UNCHANGED <<lists, accepted, orphans, link, unanswered, drops>>
  BY DEF FailFast, serverVars
<1>3. /\ Sendable(cmd, Received)
      /\ c \in Producer <=> cmd.op \in Pushing
      /\ cmd.op \in Pushing => fate[cmd.value] \in Pushable
  BY CommandsSendable DEF Base
<1>4. ~Verdict(cmd.op, NullReply) /\ Handed(cmd.op, NullReply) = <<>>
  BY NoGoodReply
<1>5. call' = call
  BY <1>1, <1>2, ReturnFields, CallTypes
<1>6. got' = got
  <2>1. got' = IF c \in Consumer THEN [got EXCEPT ![c] = @ \o <<>>] ELSE got
    BY <1>1, <1>4 DEF Return
  <2>2. \A d \in Consumer : got[d] \o <<>> = got[d]
    BY DEF Base, TypeOK
  <2> QED
    BY <2>1, <2>2 DEF Base, TypeOK
<1>7. fate' = IF cmd.op \in Pushing THEN [fate EXCEPT ![cmd.value] = "denied"] ELSE fate
  BY <1>1, <1>4 DEF Return, Told
<1> QED
  BY <1>2, <1>3, <1>5, <1>6, <1>7

LEMMA OtherStepsHeld ==
  ASSUME Base, NEW c \in Client,
         Send(c) \/ FailFast(c) \/ Connect(c) \/ LinkDrop(c) \/ Block(c) \/ Expire(c)
  PROVE  UNCHANGED <<lists, accepted, got>> /\ \A d \in Consumer : Held(d)' = Held(d)
<1>1. UNCHANGED <<lists, accepted, got>>
  BY SendShape, FailFastShape, LinkDropShape, PhaseShape DEF Connect, serverVars, callerVars
<1>2. CASE UNCHANGED call
  BY <1>1, <1>2, HeldStays
<1>3. CASE Send(c)
  <2>1. PICK cmd \in Pushes(c) \cup Withdrawals(c) :
             call' = [d \in Client |->
                        IF d = c THEN [cmd |-> cmd, phase |-> "sent", reply |-> NullReply]
                                 ELSE call[d]]
    BY <1>3, SendShape, Zenon
  <2>2. call[c] = Idle
    BY <1>3, SendShape
  <2>3. Cargo(c) = <<>> /\ Cargo(c)' = <<>>
    BY <2>1, <2>2, IdleFields DEF Cargo
  <2>4. \A d \in Consumer : d # c => Held(d)' = Held(d)
    BY <1>1, <2>1, HeldStays DEF Client
  <2>5. Held(c)' = Held(c)
    BY <1>1, <2>3 DEF Held
  <2> QED
    BY <1>1, <2>4, <2>5
<1>4. CASE Block(c) \/ Expire(c)
  <2>1. PICK r \in {NullReply, NilReply}, phase \in {"waiting", "answered"} :
             PhaseOnly(c, r, phase)
    BY <1>4, PhaseShape
  <2>2. Cargo(c) = <<>> /\ Cargo(c)' = <<>>
    <3>1. call[c].phase \in {"sent", "waiting"}
      BY <1>4, PhaseShape
    <3>2. call'[c].cmd = call[c].cmd /\ call'[c].reply = r
      BY <2>1 DEF PhaseOnly
    <3>3. Handed(call[c].cmd.op, r) = <<>>
      BY NoGoodReply
    <3> QED
      BY <3>1, <3>2, <3>3 DEF Cargo
  <2>3. \A d \in Consumer : d # c => Held(d)' = Held(d)
    BY <1>1, <2>1, HeldStays DEF Client, PhaseOnly
  <2>4. Held(c)' = Held(c)
    BY <1>1, <2>2 DEF Held
  <2> QED
    BY <1>1, <2>3, <2>4
<1> QED
  BY <1>1, <1>2, <1>3, <1>4, FailFastShape, LinkDropShape DEF Connect

=============================================================================
