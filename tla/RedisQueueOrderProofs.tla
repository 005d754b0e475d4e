------------------------- MODULE RedisQueueOrderProofs -------------------------
(***************************************************************************)
(* Proofs about RedisQueue with consumers that pop: elements reach a       *)
(* consumer in the order the server accepted them, and, when no producer   *)
(* pushes an element again, at most once.  Such a queue implements         *)
(* DeliveryQueue.                                                          *)
(***************************************************************************)
EXTENDS RedisQueueCountProofs

-----------------------------------------------------------------------------
(* What the steps do to the queue and to what the consumers hold.          *)

OnlyPops == "brpoplpush" \notin PopMethod

\* No element is on a list other than the queue.
QueueOnly == \A k \in Key \cup {Joined} : k # Queue => lists[k] = <<>>

PushStep(op, v) ==
  /\ op \in PushMethod /\ v \in Value
  /\ lists' = [lists EXCEPT ![Queue] = Added(lists[Queue], EndOf(op), v)]
  /\ accepted' = Append(accepted, v)

PopStep(op, v) ==
  /\ op \in PopMethod /\ lists[Queue] # <<>>
  /\ v = Element(lists[Queue], EndOf(op))
  /\ lists' = [lists EXCEPT ![Queue] = Removed(lists[Queue], EndOf(op))]
  /\ accepted' = accepted

\* A command the server may carry out.
Sending(cmd) ==
  \/ \E c \in Client : call[c].phase \in {"sent", "waiting"} /\ link[c] = "up" /\ cmd = call[c].cmd
  \/ \E o \in orphans : cmd = o.cmd

\* A consumer keeps what it holds, or the reply that held an element is lost.
Keeping == \A c \in Consumer : Held(c)' = Held(c) \/ Held(c)' = got[c]

Gaining(v) ==
  \/ \A c \in Consumer : Held(c)' = Held(c)
  \/ \E d \in Consumer : /\ Held(d)' = Append(Held(d), v)
                         /\ \A c \in Consumer \ {d} : Held(c)' = Held(c)

LEMMA CarriedFlow ==
  ASSUME OnlyPops, Base, QueueOnly, NEW cmd, Sendable(cmd, Received), NEW r, Carried(cmd, r)
  PROVE  \/ UNCHANGED <<lists, accepted>> /\ Handed(cmd.op, r) = <<>>
         \/ PushStep(cmd.op, cmd.value) /\ Handed(cmd.op, r) = <<>>
         \/ \E v \in Value : PopStep(cmd.op, v) /\ Handed(cmd.op, r) = <<v>>
<1>1. CASE Refuses(cmd, r)
  BY <1>1 DEF Refuses
<1>2. CASE Stores(cmd, r)
  <2>1. cmd.op \in PushMethod
    BY <1>2, MethodNames DEF Stores, Sendable
  <2> QED
    BY <1>2, <2>1 DEF Stores, PushStep
<1>3. CASE Clears(cmd, r)
  BY <1>3, MethodNames DEF Clears, Sendable, OnlyPops
<1>4. ASSUME NEW v \in Value, Takes(cmd, r, v) PROVE PopStep(cmd.op, v) /\ Handed(cmd.op, r) = <<v>>
  <2>1. cmd.op \in PopMethod /\ cmd.op # "brpoplpush"
    BY <1>4, MethodNames DEF Takes, Sendable, OnlyPops
  <2>2. cmd.key = Queue
    BY <1>4, NameOfKey DEF Takes, QueueOnly
  <2> QED
    BY <1>4, <2>1, <2>2 DEF Takes, PopStep, Moved
<1> QED
  BY <1>1, <1>2, <1>3, <1>4 DEF Carried

LEMMA Flow ==
  ASSUME OnlyPops, Base, QueueOnly, [Next]_vars
  PROVE  \/ UNCHANGED <<lists, accepted>> /\ Keeping
         \/ /\ UNCHANGED got
            /\ \E cmd : /\ Sending(cmd) /\ Sendable(cmd, Received)
                        /\ PushStep(cmd.op, cmd.value)
                        /\ \A c \in Consumer : Held(c)' = Held(c)
         \/ UNCHANGED got /\ \E op \in PopMethod, v \in Value : PopStep(op, v) /\ Gaining(v)
<1> DEFINE Quiet == UNCHANGED <<lists, accepted>> /\ Keeping
           Pushed == /\ UNCHANGED got
                     /\ \E cmd : /\ Sending(cmd) /\ Sendable(cmd, Received)
                                 /\ PushStep(cmd.op, cmd.value)
                                 /\ \A c \in Consumer : Held(c)' = Held(c)
           Popped == UNCHANGED got /\ \E op \in PopMethod, v \in Value : PopStep(op, v) /\ Gaining(v)
<1>1. CASE UNCHANGED vars
  BY <1>1, HeldStays DEF vars, serverVars, callerVars, Keeping
<1>2. ASSUME NEW o \in orphans, Orphaned(o) PROVE Quiet \/ Pushed \/ Popped
  <2>1. UNCHANGED <<call, got>> /\ Sendable(o.cmd, Received) /\ Sending(o.cmd)
    BY <1>2, OrphanedShape DEF callerVars, Base, Orphans, Sending
  <2>2. \A c \in Consumer : Held(c)' = Held(c)
    BY <2>1, HeldStays
  <2>3. CASE UNCHANGED <<lists, accepted>>
    BY <2>2, <2>3 DEF Keeping
  <2>4. ASSUME NEW r, Carried(o.cmd, r) PROVE Quiet \/ Pushed \/ Popped
    <3>1. CASE UNCHANGED <<lists, accepted>>
      BY <2>2, <3>1 DEF Keeping
    <3>2. CASE PushStep(o.cmd.op, o.cmd.value)
      BY <2>1, <2>2, <3>2
    <3>3. ASSUME NEW v \in Value, PopStep(o.cmd.op, v) PROVE Popped
      BY <2>1, <2>2, <3>3 DEF Gaining, PopStep
    <3> QED
      BY <2>1, <2>4, <3>1, <3>2, <3>3, CarriedFlow
  <2> QED
    BY <1>2, <2>3, <2>4, OrphanedShape
<1>3. ASSUME NEW c \in Client, Apply(c) \/ Serve(c) PROVE Quiet \/ Pushed \/ Popped
  <2>1. Answer(c) /\ call[c].phase \in {"sent", "waiting"} /\ link[c] = "up"
    BY <1>3 DEF Apply, Serve
  <2>2. PICK r \in Reply(Text) : Carried(call[c].cmd, r) /\ Answered(c, r)
    BY <2>1, AnswerShape
  <2> DEFINE cmd == call[c].cmd
             h   == Handed(call[c].cmd.op, r)
  <2>3. InCall(c) /\ Sendable(cmd, Received) /\ Sending(cmd) /\ UNCHANGED got
    BY <2>1, <2>2, CallTypes DEF InCall, Sending, Answered, callerVars
  <2>4. \A d \in Consumer : Held(d)' = IF d = c THEN Held(d) \o h ELSE Held(d)
    BY <2>1, <2>2, AnswerHeld
  <2>5. ASSUME h = <<>> PROVE \A d \in Consumer : Held(d)' = Held(d)
    <3> HIDE DEF h
    <3>1. \A d \in Consumer : Held(d) \o h = Held(d)
      BY <2>5, HeldElements
    <3> QED
      BY <2>4, <3>1
  <2>6. CASE UNCHANGED <<lists, accepted>> /\ h = <<>>
    BY <2>5, <2>6 DEF Keeping
  <2>7. CASE PushStep(cmd.op, cmd.value) /\ h = <<>>
    BY <2>3, <2>5, <2>7
  <2>8. ASSUME NEW v \in Value, PopStep(cmd.op, v) /\ h = <<v>> PROVE Popped
    <3>1. c \in Consumer
      BY <2>3, <2>8, MethodNames DEF PopStep, InCall, Client
    <3> HIDE DEF h
    <3>2. Held(c) \o h = Append(Held(c), v)
      BY <2>8, <3>1, HeldElements
    <3>3. Gaining(v)
      BY <2>4, <3>1, <3>2 DEF Gaining
    <3> QED
      BY <2>3, <2>8, <3>3 DEF PopStep
  <2> QED
    BY <2>2, <2>3, <2>6, <2>7, <2>8, CarriedFlow
<1>4. ASSUME NEW c \in Client, Receive(c) PROVE Quiet
  BY <1>4, ReceiveHeld DEF Receive, serverVars, Keeping
<1>5. ASSUME NEW c \in Client, ReceiveNothing(c) PROVE Quiet
  BY <1>5, ReceiveNothingHeld DEF ReceiveNothing, serverVars, Keeping
<1>6. ASSUME NEW c \in Client,
             Send(c) \/ FailFast(c) \/ Connect(c) \/ LinkDrop(c) \/ Block(c) \/ Expire(c)
      PROVE  Quiet
  BY <1>6, OtherStepsHeld DEF Keeping
<1> QED
  BY <1>1, <1>2, <1>3, <1>4, <1>5, <1>6 DEF Next

LEMMA QueueOnlyNext ==
  ASSUME OnlyPops, Base, QueueOnly, [Next]_vars
  PROVE  QueueOnly'
<1>1. \A k \in Key \cup {Joined} : k # Queue => lists'[k] = lists[k]
  BY Flow DEF PushStep, PopStep, Base, TypeOK
<1> QED
  BY <1>1 DEF QueueOnly

-----------------------------------------------------------------------------
(* Order: producers push at one end and consumers pop at the other.        *)

FirstInFirstOut ==
  \/ PushMethod \subseteq {"lpush", "lpushx"} /\ PopMethod \subseteq {"rpop", "brpop"}
  \/ /\ PushMethod \subseteq {"rpush", "rpushx"} /\ PushMethod # {}
     /\ PopMethod \subseteq {"lpop", "blpop"}

\* The queue, oldest element first, is what the server accepted last.
QueueIsTail ==
  /\ Len(QueueOrder) <= Len(accepted)
  /\ \A i \in 1 .. Len(QueueOrder) :
       QueueOrder[i] = accepted[Len(accepted) - Len(QueueOrder) + i]

\* The place of each element a consumer holds, among those that have left the queue.
Located(c, f) ==
  /\ f \in [1 .. Len(Held(c)) -> 1 .. Len(accepted) - Len(QueueOrder)]
  /\ \A i, j \in 1 .. Len(Held(c)) : i < j => f[i] < f[j]
  /\ \A i \in 1 .. Len(Held(c)) : Held(c)[i] = accepted[f[i]]

InOrder == QueueOnly /\ QueueIsTail /\ \A c \in Consumer : \E f : Located(c, f)

LEMMA ReverseElements ==
  ASSUME NEW S, NEW s \in Seq(S)
  PROVE  /\ Reverse(s) \in Seq(S) /\ Len(Reverse(s)) = Len(s)
         /\ \A i \in 1 .. Len(s) : Reverse(s)[i] = s[Len(s) - i + 1]
<1>1. /\ Reverse(s) = [i \in 1 .. Len(s) |-> s[Len(s) - i + 1]] /\ Len(s) \in Nat
  BY DEF Reverse
<1>2. \A i \in 1 .. Len(s) : s[Len(s) - i + 1] \in S
  BY <1>1
<1> QED
  BY <1>1, <1>2

LEMMA OrderTypes ==
  ASSUME Base
  PROVE  /\ lists[Queue] \in Seq(Value) /\ Len(lists[Queue]) \in Nat
         /\ accepted \in Seq(Value) /\ Len(accepted) \in Nat
         /\ QueueOrder \in Seq(Value) /\ Len(QueueOrder) = Len(lists[Queue])
         /\ Queue \in DOMAIN lists
<1>1. /\ lists[Queue] \in Seq(Value) /\ accepted \in Seq(Value) /\ Queue \in DOMAIN lists
  BY QueueAssumption DEF Base, TypeOK
<1>2. QueueOrder \in Seq(Value) /\ Len(QueueOrder) = Len(lists[Queue])
  BY <1>1, ReverseElements DEF QueueOrder
<1> QED
  BY <1>1, <1>2, ElementsOfSeq

\* Sequences with the same length and the same elements are the same.
LEMMA SameSeq ==
  ASSUME NEW S, NEW s \in Seq(S), NEW t \in Seq(S), Len(s) = Len(t),
         \A i \in 1 .. Len(s) : s[i] = t[i]
  PROVE  s = t
BY SeqEqual

LEMMA PushOrder ==
  ASSUME FirstInFirstOut, Base, Base', NEW op, NEW v, PushStep(op, v)
  PROVE  QueueOrder' = Append(QueueOrder, v)
<1> DEFINE q == lists[Queue]
           p == lists'[Queue]
           n == Len(lists[Queue])
<1>1. /\ q \in Seq(Value) /\ n \in Nat /\ v \in Value
      /\ p = Added(q, EndOf(op), v)
  BY OrderTypes DEF PushStep
<1>2. QueueOrder = IF PushMethod \subseteq {"lpush", "lpushx"} THEN Reverse(q) ELSE q
  BY DEF QueueOrder
<1>3. QueueOrder' = IF PushMethod \subseteq {"lpush", "lpushx"} THEN Reverse(p) ELSE p
  BY DEF QueueOrder
<1> HIDE DEF q, p
<1>4. CASE PushMethod \subseteq {"lpush", "lpushx"}
  <2>1. EndOf(op) = "L"
    BY <1>4 DEF PushStep, EndOf
  <2>2. /\ p \in Seq(Value) /\ Len(p) = Len(q) + 1 /\ Len(q) \in Nat
        /\ \A i \in 1 .. Len(q) + 1 : p[i] = IF i = 1 THEN v ELSE q[i - 1]
    BY <1>1, <2>1, AddedElements, ElementsOfSeq
  <2>3. /\ Reverse(p) \in Seq(Value) /\ Len(Reverse(p)) = Len(p)
        /\ \A i \in 1 .. Len(p) : Reverse(p)[i] = p[Len(p) - i + 1]
        /\ Reverse(q) \in Seq(Value) /\ Len(Reverse(q)) = Len(q)
        /\ \A i \in 1 .. Len(q) : Reverse(q)[i] = q[Len(q) - i + 1]
    BY <1>1, <2>2, ReverseElements
  <2> DEFINE r == Reverse(q)
             s == Reverse(p)
             t == Append(Reverse(q), v)
  <2>4. /\ t \in Seq(Value) /\ Len(t) = Len(q) + 1 /\ t[Len(q) + 1] = v
        /\ \A i \in 1 .. Len(q) : t[i] = r[i]
    <3> HIDE DEF r
    <3> QED
      BY <1>1, <2>3, AppendElements DEF r
  <2> HIDE DEF r, s, t
  <2>5. \A i \in 1 .. Len(q) + 1 : s[i] = t[i]
    <3> SUFFICES ASSUME NEW i \in 1 .. Len(q) + 1 PROVE s[i] = t[i]
      OBVIOUS
    <3>1. s[i] = p[Len(q) + 1 - i + 1] /\ Len(q) + 1 - i + 1 \in 1 .. Len(q) + 1
      BY <2>2, <2>3 DEF s
    <3>2. CASE i = Len(q) + 1
      BY <2>2, <2>4, <3>1, <3>2
    <3>3. CASE i # Len(q) + 1
      <4>1. i \in 1 .. Len(q) /\ Len(q) + 1 - i + 1 # 1 /\ Len(q) + 1 - i + 1 - 1 = Len(q) - i + 1
        BY <2>2, <3>3
      <4>2. s[i] = q[Len(q) - i + 1] /\ t[i] = r[i] /\ r[i] = q[Len(q) - i + 1]
        BY <2>2, <2>3, <2>4, <3>1, <4>1 DEF r
      <4> QED
        BY <4>2
    <3> QED
      BY <3>2, <3>3
  <2>6. s = t
    <3>1. s \in Seq(Value) /\ Len(s) = Len(q) + 1
      BY <2>2, <2>3 DEF s
    <3>2. Len(s) = Len(t) /\ \A i \in 1 .. Len(s) : s[i] = t[i]
      BY <2>4, <2>5, <3>1
    <3> QED
      BY <2>4, <3>1, <3>2, SameSeq
  <2> QED
    BY <1>2, <1>3, <1>4, <2>6 DEF r, s, t
<1>5. CASE ~(PushMethod \subseteq {"lpush", "lpushx"})
  <2>1. EndOf(op) # "L"
    BY <1>5 DEF FirstInFirstOut, PushStep, EndOf
  <2> QED
    BY <1>1, <1>2, <1>3, <1>5, <2>1 DEF Added
<1> QED
  BY <1>4, <1>5

LEMMA PopOrder ==
  ASSUME FirstInFirstOut, Base, Base', NEW op, NEW v, PopStep(op, v)
  PROVE  QueueOrder # <<>> /\ v = Head(QueueOrder) /\ QueueOrder' = Tail(QueueOrder)
<1> DEFINE q == lists[Queue]
           p == lists'[Queue]
<1>1. /\ q \in Seq(Value) /\ q # <<>> /\ Len(q) \in Nat /\ Len(q) # 0
      /\ p = Removed(q, EndOf(op)) /\ v = Element(q, EndOf(op))
  <2>1. q \in Seq(Value) /\ q # <<>>
    BY OrderTypes DEF PopStep
  <2>2. p = Removed(q, EndOf(op)) /\ v = Element(q, EndOf(op))
    BY OrderTypes DEF PopStep
  <2> HIDE DEF q
  <2> QED
    BY <2>1, <2>2, ElementsOfSeq
<1>2. QueueOrder = IF PushMethod \subseteq {"lpush", "lpushx"} THEN Reverse(q) ELSE q
  BY DEF QueueOrder
<1>3. QueueOrder' = IF PushMethod \subseteq {"lpush", "lpushx"} THEN Reverse(p) ELSE p
  BY DEF QueueOrder
<1> HIDE DEF q, p
<1>4. CASE PushMethod \subseteq {"lpush", "lpushx"}
  <2>1. EndOf(op) # "L"
    BY <1>4 DEF FirstInFirstOut, PopStep, EndOf
  <2>2. /\ p \in Seq(Value) /\ Len(p) = Len(q) - 1 /\ v = q[Len(q)]
        /\ \A i \in 1 .. Len(q) - 1 : p[i] = q[i]
    BY <1>1, <2>1, RemovedElements
  <2> DEFINE r == Reverse(q)
             s == Reverse(p)
  <2>3. /\ s \in Seq(Value) /\ Len(s) = Len(p)
        /\ \A i \in 1 .. Len(p) : s[i] = p[Len(p) - i + 1]
        /\ r \in Seq(Value) /\ Len(r) = Len(q)
        /\ \A i \in 1 .. Len(q) : r[i] = q[Len(q) - i + 1]
    <3>1. q \in Seq(Value) /\ p \in Seq(Value)
      BY <1>1, <2>2
    <3>2. /\ s \in Seq(Value) /\ Len(s) = Len(p)
          /\ \A i \in 1 .. Len(p) : s[i] = p[Len(p) - i + 1]
      BY <3>1, ReverseElements, Zenon
    <3>3. /\ r \in Seq(Value) /\ Len(r) = Len(q)
          /\ \A i \in 1 .. Len(q) : r[i] = q[Len(q) - i + 1]
      BY <3>1, ReverseElements, Zenon
    <3> QED
      BY <3>2, <3>3, Zenon
  <2> HIDE DEF r, s
  <2>4. r # <<>> /\ Head(r) = v
    BY <1>1, <2>2, <2>3
  <2>5. /\ Tail(r) \in Seq(Value) /\ Len(Tail(r)) = Len(q) - 1
        /\ \A i \in 1 .. Len(q) - 1 : Tail(r)[i] = r[i + 1]
    BY <1>1, <2>3, <2>4
  <2>6. ASSUME NEW i \in 1 .. Len(q) - 1 PROVE s[i] = Tail(r)[i]
    <3>1. s[i] = p[Len(q) - 1 - i + 1] /\ Len(q) - 1 - i + 1 \in 1 .. Len(q) - 1
      BY <1>1, <2>2, <2>3
    <3>2. s[i] = q[Len(q) - 1 - i + 1]
      BY <2>2, <3>1
    <3>3. r[i + 1] = q[Len(q) - (i + 1) + 1] /\ Len(q) - (i + 1) + 1 = Len(q) - 1 - i + 1
      BY <1>1, <2>3
    <3> QED
      BY <2>5, <3>2, <3>3
  <2>7. s = Tail(r)
    BY <2>2, <2>3, <2>5, <2>6, SameSeq
  <2> QED
    BY <1>2, <1>3, <1>4, <2>4, <2>7 DEF r, s
<1>5. CASE ~(PushMethod \subseteq {"lpush", "lpushx"})
  <2>1. EndOf(op) = "L"
    BY <1>5 DEF FirstInFirstOut, PopStep, EndOf
  <2> QED
    BY <1>1, <1>2, <1>3, <1>5, <2>1 DEF Removed, Element
<1> QED
  BY <1>4, <1>5

LEMMA PopType ==
  ASSUME Base, NEW op, NEW v, PopStep(op, v)
  PROVE  v \in Value
<1> DEFINE q == lists[Queue]
<1>1. q \in Seq(Value) /\ q # <<>> /\ v = Element(q, EndOf(op))
  BY OrderTypes DEF PopStep
<1> HIDE DEF q
<1> QED
  BY <1>1, RemovedElements

LEMMA OrderPush ==
  ASSUME FirstInFirstOut, Base, Base', InOrder, NEW op, NEW v, PushStep(op, v),
         \A c \in Consumer : Held(c)' = Held(c)
  PROVE  QueueIsTail' /\ \A c \in Consumer : \E f : Located(c, f)'
<1> DEFINE n == Len(accepted)
           m == Len(QueueOrder)
           Old == QueueOrder
           New == QueueOrder'
           acc == accepted'
<1>1. /\ n \in Nat /\ m \in Nat /\ m <= n /\ v \in Value
      /\ Old \in Seq(Value) /\ accepted \in Seq(Value)
      /\ \A i \in 1 .. m : Old[i] = accepted[n - m + i]
  BY OrderTypes DEF InOrder, QueueIsTail, PushStep
<1>2. New = Append(Old, v) /\ acc = Append(accepted, v)
  BY PushOrder DEF PushStep
<1> HIDE DEF New, acc
<1>3. /\ Len(New) = m + 1 /\ \A i \in 1 .. m : New[i] = Old[i]
      /\ New[m + 1] = v
  <2> HIDE DEF Old
  <2>1. Len(Old) \in Nat /\ Append(Old, v) \in Seq(Value) /\ Len(Append(Old, v)) = Len(Old) + 1
        /\ (\A i \in 1 .. Len(Old) : Append(Old, v)[i] = Old[i])
        /\ Append(Old, v)[Len(Old) + 1] = v
    BY <1>1, AppendElements
  <2> QED
    BY <1>2, <2>1, Zenon DEF Old
<1>4. /\ Len(acc) = n + 1 /\ \A i \in 1 .. n : acc[i] = accepted[i]
      /\ acc[n + 1] = v
  <2>1. /\ Len(Append(accepted, v)) = Len(accepted) + 1
        /\ \A i \in 1 .. Len(accepted) : Append(accepted, v)[i] = accepted[i]
        /\ Append(accepted, v)[Len(accepted) + 1] = v
    BY <1>1, AppendElements
  <2> QED
    BY <1>2, <2>1, Zenon
<1> HIDE DEF n, m, Old
<1>5. QueueIsTail'
  <2>1. Len(New) <= Len(acc)
    BY <1>1, <1>3, <1>4
  <2>2. ASSUME NEW i \in 1 .. Len(New) PROVE New[i] = acc[Len(acc) - Len(New) + i]
    <3>1. Len(acc) - Len(New) + i = n - m + i
      BY <1>1, <1>3, <1>4
    <3>2. CASE i = m + 1
      <4>1. n - m + i = n + 1
        BY <1>1, <3>2
      <4> QED
        BY <1>3, <1>4, <3>1, <3>2, <4>1
    <3>3. CASE i # m + 1
      <4>1. i \in 1 .. m /\ n - m + i \in 1 .. n
        BY <1>1, <1>3, <3>3
      <4> QED
        BY <1>1, <1>3, <1>4, <3>1, <4>1
    <3> QED
      BY <3>2, <3>3
  <2> QED
    BY <2>1, <2>2 DEF QueueIsTail, New, acc
<1>6. ASSUME NEW c \in Consumer PROVE \E f : Located(c, f)'
  <2>1. PICK f : Located(c, f)
    BY DEF InOrder
  <2>2. Len(acc) - Len(New) = n - m
    BY <1>1, <1>3, <1>4
  <2>3. \A i \in 1 .. n - m : acc[i] = accepted[i]
    BY <1>1, <1>4
  <2>4. /\ f \in [1 .. Len(Held(c)) -> 1 .. n - m]
        /\ \A i, j \in 1 .. Len(Held(c)) : i < j => f[i] < f[j]
        /\ \A i \in 1 .. Len(Held(c)) : Held(c)[i] = accepted[f[i]]
    BY <2>1 DEF Located, n, m
  <2> DEFINE h == Held(c)
  <2>5. Held(c)' = h
    OBVIOUS
  <2> HIDE DEF h
  <2>6. /\ f \in [1 .. Len(h) -> 1 .. Len(acc) - Len(New)]
        /\ \A i, j \in 1 .. Len(h) : i < j => f[i] < f[j]
        /\ \A i \in 1 .. Len(h) : h[i] = acc[f[i]]
    BY <2>2, <2>3, <2>4 DEF h
  <2>7. Located(c, f)'
    BY <2>5, <2>6 DEF Located, New, acc
  <2> QED
    BY <2>7
<1> QED
  BY <1>5, <1>6

LEMMA OrderPop ==
  ASSUME FirstInFirstOut, Base, Base', InOrder, NEW op, NEW v, PopStep(op, v), Gaining(v)
  PROVE  QueueIsTail' /\ \A c \in Consumer : \E f : Located(c, f)'
<1> DEFINE n == Len(accepted)
           m == Len(QueueOrder)
           Old == QueueOrder
           New == QueueOrder'
<1>0. v \in Value
  BY PopType
<1>1. /\ n \in Nat /\ m \in Nat /\ m <= n
      /\ Old \in Seq(Value) /\ accepted \in Seq(Value)
      /\ \A i \in 1 .. m : Old[i] = accepted[n - m + i]
  BY OrderTypes DEF InOrder, QueueIsTail
<1>2. Old # <<>> /\ v = Head(Old) /\ New = Tail(Old) /\ accepted' = accepted
  <2>1. accepted' = accepted
    BY DEF PopStep
  <2>2. QueueOrder # <<>> /\ v = Head(QueueOrder) /\ QueueOrder' = Tail(QueueOrder)
    BY PopOrder
  <2> QED
    BY <2>1, <2>2, Zenon
<1> HIDE DEF New
<1>3. /\ m # 0 /\ Len(New) = m - 1 /\ \A i \in 1 .. m - 1 : New[i] = Old[i + 1]
      /\ v = Old[1]
  <2> HIDE DEF Old
  <2>1. Len(Old) # 0 /\ Len(Tail(Old)) = Len(Old) - 1 /\ Head(Old) = Old[1]
        /\ \A i \in 1 .. Len(Old) - 1 : Tail(Old)[i] = Old[i + 1]
    BY <1>1, <1>2
  <2> QED
    BY <1>2, <2>1, Zenon DEF Old
<1> HIDE DEF n, m, Old
<1>4. v = accepted[n - m + 1]
  <2>1. 1 \in 1 .. m
    BY <1>1, <1>3
  <2>2. Old[1] = accepted[n - m + 1]
    BY <1>1, <2>1
  <2> QED
    BY <1>3, <2>2
<1>5. QueueIsTail'
  <2>1. Len(New) <= n
    BY <1>1, <1>3
  <2>2. ASSUME NEW i \in 1 .. Len(New) PROVE New[i] = accepted[n - Len(New) + i]
    <3>1. i \in 1 .. m - 1 /\ i + 1 \in 1 .. m /\ n - Len(New) + i = n - m + (i + 1)
      BY <1>1, <1>3
    <3>2. New[i] = Old[i + 1] /\ Old[i + 1] = accepted[n - m + (i + 1)]
      BY <1>1, <1>3, <3>1
    <3> QED
      BY <3>1, <3>2
  <2> QED
    BY <1>2, <2>1, <2>2 DEF QueueIsTail, New, n
<1>6. ASSUME NEW c \in Consumer PROVE \E f : Located(c, f)'
  <2> DEFINE h == Held(c)
             k == Len(Held(c))
  <2>1. PICK f : /\ f \in [1 .. k -> 1 .. n - m]
                 /\ \A i, j \in 1 .. k : i < j => f[i] < f[j]
                 /\ \A i \in 1 .. k : h[i] = accepted[f[i]]
    BY DEF InOrder, Located, n, m
  <2>2. n - Len(New) = n - m + 1
    BY <1>1, <1>3
  <2>3. h \in Seq(Value) /\ k \in Nat /\ k = Len(h)
    BY HeldElements, ElementsOfSeq
  <2> HIDE DEF h, k
  <2>4. CASE Held(c)' = h
    <3>1. /\ f \in [1 .. Len(h) -> 1 .. n - Len(New)]
          /\ \A i, j \in 1 .. Len(h) : i < j => f[i] < f[j]
          /\ \A i \in 1 .. Len(h) : h[i] = accepted[f[i]]
      BY <1>1, <2>1, <2>2, <2>3
    <3>2. Located(c, f)'
      BY <1>2, <2>4, <3>1 DEF Located, New, n
    <3> QED
      BY <3>2
  <2>5. CASE Held(c)' = Append(h, v)
    <3> DEFINE g == [i \in 1 .. k + 1 |-> IF i = k + 1 THEN n - m + 1 ELSE f[i]]
               t == Append(h, v)
    <3>1. /\ Len(t) = k + 1 /\ t[k + 1] = v /\ \A i \in 1 .. k : t[i] = h[i]
      <4>1. /\ Len(Append(h, v)) = Len(h) + 1 /\ Append(h, v)[Len(h) + 1] = v
            /\ \A i \in 1 .. Len(h) : Append(h, v)[i] = h[i]
        BY <1>0, <2>3, AppendElements
      <4> QED
        BY <2>3, <4>1, Zenon
    <3>2. /\ g \in [1 .. k + 1 -> 1 .. n - m + 1]
          /\ \A i, j \in 1 .. k + 1 : i < j => g[i] < g[j]
          /\ \A i \in 1 .. k + 1 : i # k + 1 => i \in 1 .. k /\ g[i] = f[i]
          /\ g[k + 1] = n - m + 1
      <4>1. \A i \in 1 .. k + 1 : i # k + 1 => i \in 1 .. k
        BY <2>3
      <4>2. \A i \in 1 .. k : f[i] \in 1 .. n - m
        BY <2>1
      <4>3. g \in [1 .. k + 1 -> 1 .. n - m + 1]
        BY <1>1, <1>3, <2>3, <4>1, <4>2, SMTT(20)
      <4>4. /\ \A i \in 1 .. k + 1 : i # k + 1 => i \in 1 .. k /\ g[i] = f[i]
            /\ g[k + 1] = n - m + 1
        BY <2>3, <4>1
      <4> HIDE DEF g
      <4>5. ASSUME NEW i \in 1 .. k + 1, NEW j \in 1 .. k + 1, i < j PROVE g[i] < g[j]
        <5>1. i \in 1 .. k /\ g[i] = f[i] /\ f[i] \in 1 .. n - m
          BY <2>3, <4>2, <4>4, <4>5
        <5>2. CASE j = k + 1
          BY <1>1, <4>4, <5>1, <5>2
        <5>3. CASE j # k + 1
          BY <2>1, <4>4, <4>5, <5>1, <5>3
        <5> QED
          BY <5>2, <5>3
      <4> QED
        BY <4>3, <4>4, <4>5
    <3> HIDE DEF g, t
    <3>3. \A i \in 1 .. k + 1 : t[i] = accepted[g[i]]
      <4> SUFFICES ASSUME NEW i \in 1 .. k + 1 PROVE t[i] = accepted[g[i]]
        OBVIOUS
      <4>1. CASE i = k + 1
        BY <1>4, <3>1, <3>2, <4>1
      <4>2. CASE i # k + 1
        BY <2>1, <3>1, <3>2, <4>2
      <4> QED
        BY <4>1, <4>2
    <3>4. /\ g \in [1 .. Len(t) -> 1 .. n - Len(New)]
          /\ \A i, j \in 1 .. Len(t) : i < j => g[i] < g[j]
          /\ \A i \in 1 .. Len(t) : t[i] = accepted[g[i]]
      BY <2>2, <3>1, <3>2, <3>3
    <3>5. PICK e : e = g
      OBVIOUS
    <3>6. Located(c, e)'
      <4>1. Held(c)' = t
        BY <2>5 DEF t
      <4>2. n = Len(accepted') /\ accepted = accepted'
        BY <1>2 DEF n
      <4>3. /\ e \in [1 .. Len(Held(c)') -> 1 .. Len(accepted') - Len(New)]
            /\ \A i, j \in 1 .. Len(Held(c)') : i < j => e[i] < e[j]
            /\ \A i \in 1 .. Len(Held(c)') : Held(c)'[i] = accepted'[e[i]]
        BY <3>4, <3>5, <4>1, <4>2
      <4> QED
        BY <4>3, Zenon DEF Located, New
    <3> QED
      BY <3>6
  <2> QED
    BY <2>4, <2>5 DEF Gaining, h
<1> QED
  BY <1>5, <1>6

\* What a consumer has received is the beginning of what it holds.
LEMMA GotWithin ==
  ASSUME Base, NEW c \in Consumer
  PROVE  /\ Len(got[c]) \in Nat /\ Len(Held(c)) \in Nat /\ Len(got[c]) <= Len(Held(c))
         /\ DOMAIN got[c] = 1 .. Len(got[c])
         /\ \A i \in 1 .. Len(got[c]) : i \in 1 .. Len(Held(c)) /\ Held(c)[i] = got[c][i]
<1> DEFINE g == got[c]
           t == Cargo(c)
<1>1. /\ g \in Seq(Value) /\ t \in AtMostOne /\ Held(c) = g \o t
      /\ \A i \in 1 .. Len(g) : Held(c)[i] = g[i]
  BY HeldElements DEF Held
<1> HIDE DEF g, t
<1>2. t \in Seq(Value)
  <2>1. \A v \in Value : <<v>> \in Seq(Value)
    OBVIOUS
  <2>2. <<>> \in Seq(Value)
    OBVIOUS
  <2> QED
    BY <1>1, <2>1, <2>2, Zenon DEF AtMostOne
<1>3. Len(g \o t) = Len(g) + Len(t) /\ Len(g) \in Nat /\ Len(t) \in Nat
  BY <1>1, <1>2
<1>4. /\ Len(g) \in Nat /\ Len(Held(c)) \in Nat /\ Len(g) <= Len(Held(c))
      /\ DOMAIN g = 1 .. Len(g)
  BY <1>1, <1>3, ElementsOfSeq
<1>5. \A i \in 1 .. Len(g) : i \in 1 .. Len(Held(c))
  BY <1>4
<1> QED
  BY <1>1, <1>4, <1>5 DEF g

LEMMA OrderQuiet ==
  ASSUME Base, InOrder, UNCHANGED <<lists, accepted>>, Keeping
  PROVE  QueueIsTail' /\ \A c \in Consumer : \E f : Located(c, f)'
<1>1. QueueOrder' = QueueOrder /\ accepted' = accepted
  BY DEF QueueOrder
<1>2. QueueIsTail'
  BY <1>1 DEF InOrder, QueueIsTail
<1>3. ASSUME NEW c \in Consumer PROVE \E f : Located(c, f)'
  <2> DEFINE D == 1 .. Len(accepted) - Len(QueueOrder)
  <2>1. PICK f : /\ f \in [1 .. Len(Held(c)) -> D]
                 /\ \A i, j \in 1 .. Len(Held(c)) : i < j => f[i] < f[j]
                 /\ \A i \in 1 .. Len(Held(c)) : Held(c)[i] = accepted[f[i]]
    BY DEF InOrder, Located
  <2> HIDE DEF D
  <2>2. PICK h : h = Held(c)'
    OBVIOUS
  <2>3. h = Held(c) \/ h = got[c]
    BY <2>2 DEF Keeping
  <2>4. \A i \in 1 .. Len(h) : i \in 1 .. Len(Held(c)) /\ h[i] = Held(c)[i]
    BY <2>3, GotWithin
  <2>5. PICK e : e = [i \in 1 .. Len(h) |-> f[i]]
    OBVIOUS
  <2>6. /\ e \in [1 .. Len(h) -> D]
        /\ \A i, j \in 1 .. Len(h) : i < j => e[i] < e[j]
        /\ \A i \in 1 .. Len(h) : h[i] = accepted[e[i]]
    BY <2>1, <2>4, <2>5
  <2>7. Located(c, e)'
    <3>1. /\ e \in [1 .. Len(h) -> 1 .. Len(accepted') - Len(QueueOrder')]
          /\ \A i \in 1 .. Len(h) : h[i] = accepted'[e[i]]
      BY <1>1, <2>6 DEF D
    <3> QED
      BY <2>2, <2>6, <3>1 DEF Located
  <2> QED
    BY <2>7
<1> QED
  BY <1>2, <1>3

LEMMA InOrderNext ==
  ASSUME FirstInFirstOut, Base, Base', InOrder, [Next]_vars
  PROVE  InOrder'
<1>1. OnlyPops
  BY DEF FirstInFirstOut, OnlyPops
<1>2. QueueOnly'
  BY <1>1, QueueOnlyNext DEF InOrder
<1> DEFINE Rest == QueueIsTail' /\ \A c \in Consumer : \E f : Located(c, f)'
<1>3. ASSUME UNCHANGED <<lists, accepted>> /\ Keeping PROVE Rest
  BY <1>3, OrderQuiet
<1>4. ASSUME NEW op, NEW v, PushStep(op, v), \A c \in Consumer : Held(c)' = Held(c)
      PROVE  Rest
  BY <1>4, OrderPush
<1>5. ASSUME NEW op, NEW v, PopStep(op, v), Gaining(v) PROVE Rest
  BY <1>5, OrderPop
<1>6. Rest
  <2> HIDE DEF Rest
  <2>1. InOrder => QueueOnly
    BY DEF InOrder
  <2> QED
    BY <1>1, <1>3, <1>4, <1>5, <2>1, Flow
<1> QED
  BY <1>2, <1>6 DEF InOrder

LEMMA InOrderInit == Init => InOrder
<1> SUFFICES ASSUME Init PROVE InOrder
  OBVIOUS
<1>1. lists[Queue] = <<>> /\ accepted = <<>>
  BY QueueAssumption DEF Init
<1>2. QueueOrder = <<>>
  BY <1>1 DEF QueueOrder, Reverse
<1>3. QueueOnly
  BY DEF Init, QueueOnly
<1>4. QueueIsTail
  BY <1>1, <1>2 DEF QueueIsTail
<1>5. ASSUME NEW c \in Consumer PROVE Located(c, <<>>)
  <2>1. got[c] = <<>> /\ call[c] = Idle
    BY DEF Init, Client
  <2>2. Held(c) = <<>>
    BY <2>1, IdleFields DEF Held, Cargo
  <2> QED
    BY <1>1, <1>2, <2>2 DEF Located
<1> QED
  BY <1>3, <1>4, <1>5 DEF InOrder

\* Pushes at one end and pops at the other: each consumer's elements come in the
\* order the server accepted them, however many producers, consumers and orphaned
\* commands there are.
THEOREM ElementsArriveInOrder ==
  ASSUME FirstInFirstOut
  PROVE  Spec => []OrderKept
<1>1. Base /\ Base' /\ InOrder /\ [Next]_vars => InOrder'
  BY InOrderNext
<1>2. Base /\ InOrder => OrderKept
  <2> SUFFICES ASSUME Base, InOrder, NEW c \in Consumer,
                      NEW i \in DOMAIN got[c], NEW j \in DOMAIN got[c], i < j
               PROVE  \E a, b \in DOMAIN accepted :
                        a < b /\ accepted[a] = got[c][i] /\ accepted[b] = got[c][j]
    BY DEF OrderKept
  <2> DEFINE D == 1 .. Len(accepted) - Len(QueueOrder)
  <2>1. PICK f : /\ f \in [1 .. Len(Held(c)) -> D]
                 /\ \A k, l \in 1 .. Len(Held(c)) : k < l => f[k] < f[l]
                 /\ \A k \in 1 .. Len(Held(c)) : Held(c)[k] = accepted[f[k]]
    BY DEF InOrder, Located
  <2>2. /\ i \in 1 .. Len(Held(c)) /\ Held(c)[i] = got[c][i]
        /\ j \in 1 .. Len(Held(c)) /\ Held(c)[j] = got[c][j]
    BY GotWithin
  <2>3. D \subseteq DOMAIN accepted
    BY OrderTypes, ElementsOfSeq
  <2> HIDE DEF D
  <2>4. f[i] \in DOMAIN accepted /\ f[j] \in DOMAIN accepted /\ f[i] < f[j]
    BY <2>1, <2>2, <2>3
  <2> QED
    BY <2>1, <2>2, <2>4
<1> QED
  BY InitBase, NextBase, InOrderInit, <1>1, <1>2, PTL DEF Spec

-----------------------------------------------------------------------------
(* Once: producers that never push an element again.                       *)

\* The server may still carry out the command of c.
Pending(c) == call[c].phase \in {"sent", "waiting"} /\ link[c] = "up"

\* An element has one way into the queue: its producer's call, a push that has
\* outlived its connection, or none as it is stored already.
PushedOnce ==
  /\ \A v \in ToSet(accepted) : fate[v] # "fresh"
  /\ \A o \in PushOrphans :
       /\ fate[o.cmd.value] # "fresh" /\ o.cmd.value \notin ToSet(accepted)
       /\ \A q \in PushOrphans : q.cmd.value = o.cmd.value => q = o
  /\ \A p \in Producer : Pending(p) =>
       /\ call[p].cmd.value \notin ToSet(accepted)
       /\ \A o \in PushOrphans : o.cmd.value # call[p].cmd.value

FreshBefore == \A w \in Value : fate'[w] = "fresh" => fate[w] = "fresh"

LEMMA OnceTypes ==
  ASSUME Base
  PROVE  /\ ToSet(accepted) \subseteq Value
         /\ \A o \in PushOrphans : o.cmd.value \in Value
         /\ \A p \in Producer : call[p] # Idle => call[p].cmd.value \in Value
         /\ \A p \in Producer : Pending(p) => call[p] # Idle
<1>1. ToSet(accepted) \subseteq Value
  BY DupTypes
<1>2. \A o \in PushOrphans : o.cmd.value \in Value
  BY MethodNames DEF PushOrphans, Base, Orphans, Sendable
<1>3. \A p \in Producer : call[p] # Idle => call[p].cmd.value \in Value
  BY PushedValue DEF Client
<1>4. \A p \in Producer : Pending(p) => call[p] # Idle
  BY IdleFields DEF Pending
<1> QED
  BY <1>1, <1>2, <1>3, <1>4

\* Steps that send no push and store nothing.
LEMMA OnceStays ==
  ASSUME Base, PushedOnce, FreshBefore, accepted' = accepted, PushOrphans' \subseteq PushOrphans,
         \A p \in Producer : Pending(p)' => Pending(p) /\ call'[p].cmd = call[p].cmd
  PROVE  PushedOnce'
<1>1. \A v \in ToSet(accepted') : fate'[v] # "fresh"
  BY OnceTypes DEF PushedOnce, FreshBefore
<1>2. \A o \in PushOrphans' :
        /\ fate'[o.cmd.value] # "fresh" /\ o.cmd.value \notin ToSet(accepted')
        /\ \A q \in PushOrphans' : q.cmd.value = o.cmd.value => q = o
  BY OnceTypes DEF PushedOnce, FreshBefore
<1>3. \A p \in Producer : Pending(p)' =>
        /\ call'[p].cmd.value \notin ToSet(accepted')
        /\ \A o \in PushOrphans' : o.cmd.value # call'[p].cmd.value
  BY DEF PushedOnce
<1> QED
  BY <1>1, <1>2, <1>3 DEF PushedOnce

LEMMA OnceStored ==
  ASSUME Base, PushedOnce, NEW v \in Value, fate' = fate, fate[v] # "fresh",
         ToSet(accepted') = ToSet(accepted) \cup {v},
         PushOrphans' \subseteq PushOrphans, \A o \in PushOrphans' : o.cmd.value # v,
         \A p \in Producer : Pending(p)' => /\ Pending(p) /\ call'[p].cmd = call[p].cmd
                                            /\ call[p].cmd.value # v
  PROVE  PushedOnce'
<1>1. \A w \in ToSet(accepted') : fate'[w] # "fresh"
  BY DEF PushedOnce
<1>2. \A o \in PushOrphans' :
        /\ fate'[o.cmd.value] # "fresh" /\ o.cmd.value \notin ToSet(accepted')
        /\ \A q \in PushOrphans' : q.cmd.value = o.cmd.value => q = o
  BY DEF PushedOnce
<1>3. \A p \in Producer : Pending(p)' =>
        /\ call'[p].cmd.value \notin ToSet(accepted')
        /\ \A o \in PushOrphans' : o.cmd.value # call'[p].cmd.value
  BY DEF PushedOnce
<1> QED
  BY <1>1, <1>2, <1>3 DEF PushedOnce

LEMMA AnswerOnce ==
  ASSUME Base, OnePush, PushedOnce, NEW c \in Client, Apply(c) \/ Serve(c)
  PROVE  PushedOnce'
<1>1. Answer(c) /\ Pending(c) /\ call[c].phase \in {"sent", "waiting"}
  BY DEF Apply, Serve, Pending
<1>2. PICK r \in Reply(Text) : Carried(call[c].cmd, r) /\ Answered(c, r)
  BY <1>1, AnswerShape
<1>3. /\ UNCHANGED <<orphans, link, fate>>
      /\ call'[c].phase = "answered"
      /\ \A d \in Client : d # c => call'[d] = call[d]
  BY <1>2 DEF Answered, callerVars
<1>4. PushOrphans' = PushOrphans /\ FreshBefore
  BY <1>3 DEF PushOrphans, FreshBefore
<1>5. \A p \in Producer : Pending(p)' => p # c /\ Pending(p) /\ call'[p].cmd = call[p].cmd
  BY <1>3 DEF Pending, Client
<1>6. CASE accepted' = accepted
  BY <1>4, <1>5, <1>6, OnceStays
<1>7. CASE Stores(call[c].cmd, r)
  <2> DEFINE v == call[c].cmd.value
  <2>1. call[c] # Idle /\ c \in Producer
    BY <1>1, <1>7, PushedValue, IdleFields DEF Stores
  <2>2. v \in Value /\ fate[v] # "fresh"
    BY <2>1, OnceTypes DEF OnePush
  <2>3. ToSet(accepted') = ToSet(accepted) \cup {v}
    BY <1>7, StoredAgain
  <2>4. \A o \in PushOrphans : o.cmd.value # v
    BY <1>1, <2>1 DEF PushedOnce
  <2>5. \A p \in Producer : p # c /\ Pending(p) => call[p].cmd.value # v
    BY <2>1, OnceTypes DEF OnePush
  <2> HIDE DEF v
  <2> QED
    BY <1>3, <1>4, <1>5, <2>2, <2>3, <2>4, <2>5, OnceStored
<1> QED
  BY <1>2, <1>6, <1>7 DEF Carried, Refuses, Clears, Takes

LEMMA OrphanedOnce ==
  ASSUME Base, OnePush, PushedOnce, NEW o \in orphans, Orphaned(o)
  PROVE  PushedOnce'
<1>1. orphans' = orphans \ {o} /\ UNCHANGED <<call, link, fate>>
  BY OrphanedShape DEF callerVars
<1>2. PushOrphans' = PushOrphans \ {o} /\ FreshBefore
  BY <1>1 DEF PushOrphans, FreshBefore
<1>3. \A p \in Producer : Pending(p)' => Pending(p) /\ call'[p].cmd = call[p].cmd
  BY <1>1 DEF Pending
<1>4. CASE accepted' = accepted
  BY <1>2, <1>3, <1>4, OnceStays
<1>5. ASSUME NEW r, Stores(o.cmd, r) PROVE PushedOnce'
  <2> DEFINE v == o.cmd.value
  <2>1. o \in PushOrphans
    BY <1>5 DEF Stores, PushOrphans
  <2>2. v \in Value /\ fate[v] # "fresh"
    BY <2>1, OnceTypes DEF PushedOnce
  <2>3. ToSet(accepted') = ToSet(accepted) \cup {v}
    BY <1>5, StoredAgain
  <2>4. \A q \in PushOrphans \ {o} : q.cmd.value # v
    BY <2>1 DEF PushedOnce
  <2>5. \A p \in Producer : Pending(p) => call[p].cmd.value # v
    BY <2>1 DEF PushedOnce
  <2> HIDE DEF v
  <2> QED
    BY <1>1, <1>2, <1>3, <2>2, <2>3, <2>4, <2>5, OnceStored
<1> QED
  BY <1>4, <1>5, OrphanedShape DEF Carried, Refuses, Clears, Takes

LEMMA LinkDropOnce ==
  ASSUME Base, OnePush, PushedOnce, NEW c \in Client, LinkDrop(c)
  PROVE  PushedOnce'
<1> DEFINE new == [cmd |-> call[c].cmd, n |-> drops]
<1>1. /\ UNCHANGED <<accepted, call, fate>> /\ link[c] = "up" /\ link'[c] = "down"
      /\ \A d \in Client : d # c => link'[d] = link[d]
      /\ \/ orphans' = orphans
         \/ call[c].phase \in {"sent", "waiting"} /\ orphans' = orphans \cup {new}
  BY CallTypes, LinkDropShape
<1>2. FreshBefore
  BY <1>1 DEF FreshBefore
<1>3. \A p \in Producer : Pending(p)' => p # c /\ Pending(p) /\ call'[p].cmd = call[p].cmd
  BY <1>1 DEF Pending, Client
<1>4. CASE PushOrphans' \subseteq PushOrphans
  BY <1>1, <1>2, <1>3, <1>4, OnceStays
<1>5. CASE ~(PushOrphans' \subseteq PushOrphans)
  <2> DEFINE v == call[c].cmd.value
  <2>1. /\ Pending(c) /\ call[c].cmd.op \in Pushing
        /\ PushOrphans' = PushOrphans \cup {new}
    BY <1>1, <1>5 DEF PushOrphans, Pending
  <2>2. call[c] # Idle /\ c \in Producer
    BY <2>1, PushedValue, IdleFields DEF Pending
  <2>3. /\ fate[v] = "pushing" /\ v \notin ToSet(accepted)
        /\ \A o \in PushOrphans : o.cmd.value # v
    BY <2>1, <2>2 DEF OnePush, PushedOnce
  <2>4. \A p \in Producer : p # c /\ Pending(p) => call[p].cmd.value # v
    BY <2>2, OnceTypes DEF OnePush
  <2>5. new.cmd.value = v
    OBVIOUS
  <2> HIDE DEF v, new
  <2>6. \A o \in PushOrphans' :
          /\ fate'[o.cmd.value] # "fresh" /\ o.cmd.value \notin ToSet(accepted')
          /\ \A q \in PushOrphans' : q.cmd.value = o.cmd.value => q = o
    BY <1>1, <2>1, <2>3, <2>5 DEF PushedOnce
  <2>7. \A p \in Producer : Pending(p)' =>
          /\ call'[p].cmd.value \notin ToSet(accepted')
          /\ \A o \in PushOrphans' : o.cmd.value # call'[p].cmd.value
    BY <1>1, <1>3, <2>1, <2>4, <2>5 DEF PushedOnce
  <2>8. \A w \in ToSet(accepted') : fate'[w] # "fresh"
    BY <1>1 DEF PushedOnce
  <2> QED
    BY <2>6, <2>7, <2>8 DEF PushedOnce
<1> QED
  BY <1>4, <1>5

LEMMA SendOnce ==
  ASSUME ~Retries, Base, OnePush, PushedOnce, NEW c \in Client, Send(c)
  PROVE  PushedOnce'
<1>1. PICK cmd \in Pushes(c) \cup Withdrawals(c) :
           /\ Sendable(cmd, Received)
           /\ c \in Producer <=> cmd.op \in Pushing
           /\ cmd.op \in Pushing => fate[cmd.value] \in Pushable
           /\ call' = [d \in Client |->
                        IF d = c THEN [cmd |-> cmd, phase |-> "sent", reply |-> NullReply]
                                 ELSE call[d]]
           /\ fate' = IF cmd.op \in Pushing THEN [fate EXCEPT ![cmd.value] = "pushing"] ELSE fate
  BY SendShape, Zenon
<1>2. link' = link /\ accepted' = accepted /\ PushOrphans' = PushOrphans
  BY SendShape DEF PushOrphans
<1>3. call'[c].cmd = cmd /\ \A p \in Producer : p # c => call'[p] = call[p]
  BY <1>1 DEF Client
<1>4. FreshBefore
  BY <1>1 DEF FreshBefore, Base, TypeOK
<1>5. CASE c \notin Producer
  <2>1. \A p \in Producer : Pending(p)' => Pending(p) /\ call'[p].cmd = call[p].cmd
    BY <1>2, <1>3, <1>5 DEF Pending
  <2> QED
    BY <1>2, <1>4, <2>1, OnceStays
<1>6. CASE c \in Producer
  <2> DEFINE v == cmd.value
  <2>1. v \in Value /\ fate[v] = "fresh"
    BY <1>1, <1>6, MethodNames DEF Sendable, Pushable
  <2>2. v \notin ToSet(accepted) /\ \A o \in PushOrphans : o.cmd.value # v
    BY <2>1 DEF PushedOnce
  <2> HIDE DEF v
  <2>3. \A p \in Producer : Pending(p)' =>
          /\ call'[p].cmd.value \notin ToSet(accepted')
          /\ \A o \in PushOrphans' : o.cmd.value # call'[p].cmd.value
    <3> SUFFICES ASSUME NEW p \in Producer, Pending(p)'
                 PROVE  /\ call'[p].cmd.value \notin ToSet(accepted)
                        /\ \A o \in PushOrphans : o.cmd.value # call'[p].cmd.value
      BY <1>2
    <3>1. CASE p = c
      BY <1>3, <2>2, <3>1 DEF v
    <3>2. CASE p # c
      BY <1>2, <1>3, <3>2 DEF Pending, PushedOnce
    <3> QED
      BY <3>1, <3>2
  <2>4. /\ \A w \in ToSet(accepted') : fate'[w] # "fresh"
        /\ \A o \in PushOrphans' :
             /\ fate'[o.cmd.value] # "fresh" /\ o.cmd.value \notin ToSet(accepted')
             /\ \A q \in PushOrphans' : q.cmd.value = o.cmd.value => q = o
    BY <1>2, <1>4, OnceTypes DEF PushedOnce, FreshBefore
  <2> QED
    BY <2>3, <2>4 DEF PushedOnce
<1> QED
  BY <1>5, <1>6

LEMMA OnceNext ==
  ASSUME ~Retries, Base, OnePush, PushedOnce, [Next]_vars
  PROVE  PushedOnce'
<1>1. CASE UNCHANGED vars
  BY <1>1 DEF vars, serverVars, callerVars, PushedOnce, PushOrphans, Pending
<1>2. ASSUME NEW o \in orphans, Orphaned(o) PROVE PushedOnce'
  BY <1>2, OrphanedOnce
<1>3. ASSUME NEW c \in Client, Apply(c) \/ Serve(c) PROVE PushedOnce'
  BY <1>3, AnswerOnce
<1>4. ASSUME NEW c \in Client, LinkDrop(c) PROVE PushedOnce'
  BY <1>4, LinkDropOnce
<1>5. ASSUME NEW c \in Client, Send(c) PROVE PushedOnce'
  BY <1>5, SendOnce
<1>6. ASSUME NEW c \in Client, Receive(c) \/ ReceiveNothing(c) PROVE PushedOnce'
  <2>1. PICK r : Return(c, call[c].cmd, r)
    BY <1>6 DEF Receive, ReceiveNothing
  <2>2. UNCHANGED <<accepted, orphans>> /\ \A d \in Client : d # c => link'[d] = link[d]
    BY <1>6, CallTypes DEF Receive, ReceiveNothing, serverVars
  <2>3. call'[c] = Idle /\ \A d \in Client : d # c => call'[d] = call[d]
    BY <2>1, ReturnFields
  <2>4. FreshBefore
    BY <2>1 DEF FreshBefore, Return, Told, Base, TypeOK
  <2>5. \A p \in Producer : Pending(p)' => Pending(p) /\ call'[p].cmd = call[p].cmd
    BY <2>2, <2>3, IdleFields DEF Pending, Client
  <2>6. PushOrphans' = PushOrphans
    BY <2>2 DEF PushOrphans
  <2> QED
    BY <2>2, <2>4, <2>5, <2>6, OnceStays
<1>7. ASSUME NEW c \in Client, FailFast(c) PROVE PushedOnce'
  <2>1. UNCHANGED <<accepted, orphans, call, link>>
    BY <1>7, FailFastShape
  <2>2. FreshBefore
    BY <1>7, FailFastShape DEF FreshBefore, Base, TypeOK
  <2>3. PushOrphans' = PushOrphans /\ \A p \in Producer : Pending(p)' => Pending(p)
    BY <2>1 DEF PushOrphans, Pending
  <2> QED
    BY <2>1, <2>2, <2>3, OnceStays
<1>8. ASSUME NEW c \in Client, Connect(c) \/ Block(c) \/ Expire(c) PROVE PushedOnce'
  <2>1. UNCHANGED <<accepted, orphans, fate>>
    BY <1>8, PhaseShape DEF Connect, serverVars, callerVars
  <2>2. \A p \in Producer : call'[p] = call[p] /\ (Pending(p)' => Pending(p))
    <3>1. CASE Connect(c)
      BY <3>1, CallTypes, IdleFields DEF Connect, Pending, Client
    <3>2. CASE Block(c) \/ Expire(c)
      <4>1. c \notin Producer /\ link' = link
        BY <3>2, PhaseShape, MethodNames DEF InCall
      <4>2. \A d \in Client : d # c => call'[d] = call[d]
        BY <3>2, PhaseShape DEF PhaseOnly
      <4> QED
        BY <4>1, <4>2 DEF Client, Pending
    <3> QED
      BY <1>8, <3>1, <3>2
  <2>3. PushOrphans' = PushOrphans /\ FreshBefore
    BY <2>1 DEF PushOrphans, FreshBefore
  <2> QED
    BY <2>1, <2>2, <2>3, OnceStays
<1> QED
  BY <1>1, <1>2, <1>3, <1>4, <1>5, <1>6, <1>7, <1>8 DEF Next

LEMMA PushIsNew ==
  ASSUME Base, PushedOnce, NEW cmd, Sending(cmd), cmd.op \in PushMethod
  PROVE  cmd.value \notin ToSet(accepted)
<1>1. ASSUME NEW c \in Client, Pending(c), cmd = call[c].cmd
      PROVE  cmd.value \notin ToSet(accepted)
  <2>1. c \in Producer
    BY <1>1, PushedValue, MethodNames, IdleFields DEF Pending
  <2> QED
    BY <1>1, <2>1 DEF PushedOnce
<1>2. ASSUME NEW o \in orphans, cmd = o.cmd PROVE cmd.value \notin ToSet(accepted)
  BY <1>2, MethodNames DEF PushedOnce, PushOrphans
<1> QED
  BY <1>1, <1>2 DEF Sending, Pending

Distinct(s) == \A i, j \in 1 .. Len(s) : s[i] = s[j] => i = j

LEMMA AddedDistinct ==
  ASSUME NEW S, NEW s \in Seq(S), NEW v \in S, NEW end, Distinct(s), v \notin ToSet(s)
  PROVE  Distinct(Added(s, end, v))
<1> DEFINE t == Added(s, end, v)
<1>1. /\ Len(t) = Len(s) + 1 /\ Len(s) \in Nat
      /\ \A i \in 1 .. Len(s) + 1 : t[i] = IF end = "L" THEN IF i = 1 THEN v ELSE s[i - 1]
                                         ELSE IF i = Len(s) + 1 THEN v ELSE s[i]
  BY AddedElements, ElementsOfSeq
<1>2. \A i \in 1 .. Len(s) : s[i] # v
  BY ElementsOfSeq
<1> HIDE DEF t
<1>3. CASE end = "L"
  <2>1. t[1] = v /\ \A i \in 2 .. Len(s) + 1 : i - 1 \in 1 .. Len(s) /\ t[i] = s[i - 1]
    BY <1>1, <1>3
  <2>2. \A i \in 1 .. Len(s) + 1 : i = 1 \/ i \in 2 .. Len(s) + 1
    BY <1>1
  <2>3. ASSUME NEW i \in 1 .. Len(s) + 1, NEW j \in 1 .. Len(s) + 1, t[i] = t[j] PROVE i = j
    BY <1>1, <1>2, <2>1, <2>2, <2>3 DEF Distinct
  <2> QED
    BY <1>1, <2>3 DEF Distinct, t
<1>4. CASE end # "L"
  <2>1. t[Len(s) + 1] = v /\ \A i \in 1 .. Len(s) : t[i] = s[i]
    BY <1>1, <1>4
  <2>2. \A i \in 1 .. Len(s) + 1 : i = Len(s) + 1 \/ i \in 1 .. Len(s)
    BY <1>1
  <2>3. ASSUME NEW i \in 1 .. Len(s) + 1, NEW j \in 1 .. Len(s) + 1, t[i] = t[j] PROVE i = j
    BY <1>1, <1>2, <2>1, <2>2, <2>3 DEF Distinct
  <2> QED
    BY <1>1, <2>3 DEF Distinct, t
<1> QED
  BY <1>3, <1>4

LEMMA RemovedDistinct ==
  ASSUME NEW S, NEW s \in Seq(S), s # <<>>, NEW end, Distinct(s)
  PROVE  /\ Distinct(Removed(s, end))
         /\ ToSet(Removed(s, end)) = ToSet(s) \ {Element(s, end)}
         /\ Element(s, end) \in ToSet(s)
<1> DEFINE t == Removed(s, end)
           v == Element(s, end)
<1>1. /\ t \in Seq(S) /\ Len(t) = Len(s) - 1 /\ Len(s) \in Nat /\ Len(s) # 0
      /\ \A i \in 1 .. Len(s) - 1 : t[i] = IF end = "L" THEN s[i + 1] ELSE s[i]
      /\ v = s[IF end = "L" THEN 1 ELSE Len(s)]
      /\ ToSet(s) = ToSet(t) \cup {v}
  BY RemovedElements, ElementsOfSeq
<1> HIDE DEF t, v
<1>2. Distinct(t) /\ \A i \in 1 .. Len(t) : t[i] # v
  <2>1. CASE end = "L"
    <3>1. \A i \in 1 .. Len(t) : i + 1 \in 1 .. Len(s) /\ t[i] = s[i + 1] /\ i + 1 # 1
      BY <1>1, <2>1
    <3>2. 1 \in 1 .. Len(s) /\ v = s[1]
      BY <1>1, <2>1
    <3>3. \A i, j \in 1 .. Len(t) : i + 1 = j + 1 => i = j
      BY <1>1
    <3> QED
      BY <3>1, <3>2, <3>3, Zenon DEF Distinct
  <2>2. CASE end # "L"
    <3>1. \A i \in 1 .. Len(t) : i \in 1 .. Len(s) /\ t[i] = s[i] /\ i # Len(s)
      BY <1>1, <2>2
    <3>2. Len(s) \in 1 .. Len(s) /\ v = s[Len(s)]
      BY <1>1, <2>2
    <3> QED
      BY <3>1, <3>2, Zenon DEF Distinct
  <2> QED
    BY <2>1, <2>2
<1>3. v \notin ToSet(t)
  BY <1>1, <1>2, ElementsOfSeq, SMTT(20)
<1>4. ToSet(t) = ToSet(s) \ {v} /\ v \in ToSet(s)
  BY <1>1, <1>3
<1> QED
  BY <1>2, <1>4 DEF t, v

\* An element has one place: in the queue, or with one consumer, once.
OnePlace ==
  /\ QueueOnly
  /\ Distinct(lists[Queue]) /\ ToSet(lists[Queue]) \subseteq ToSet(accepted)
  /\ \A c \in Consumer : \A i \in 1 .. Len(Held(c)) :
       Held(c)[i] \in ToSet(accepted) \ ToSet(lists[Queue])
  /\ \A c, d \in Consumer : \A i \in 1 .. Len(Held(c)), j \in 1 .. Len(Held(d)) :
       Held(c)[i] = Held(d)[j] => c = d /\ i = j

LEMMA PlaceStays ==
  ASSUME Base, OnePlace, UNCHANGED <<lists, accepted>>, Keeping
  PROVE  OnePlace'
<1>1. \A c \in Consumer : \A i \in 1 .. Len(Held(c)') :
        i \in 1 .. Len(Held(c)) /\ Held(c)'[i] = Held(c)[i]
  BY GotWithin DEF Keeping
<1>2. /\ QueueOnly'
      /\ Distinct(lists'[Queue]) /\ ToSet(lists'[Queue]) \subseteq ToSet(accepted')
  BY DEF OnePlace, QueueOnly
<1>3. \A c \in Consumer : \A i \in 1 .. Len(Held(c)') :
        Held(c)'[i] \in ToSet(accepted') \ ToSet(lists'[Queue])
  BY <1>1 DEF OnePlace
<1>4. \A c, d \in Consumer : \A i \in 1 .. Len(Held(c)'), j \in 1 .. Len(Held(d)') :
        Held(c)'[i] = Held(d)'[j] => c = d /\ i = j
  BY <1>1 DEF OnePlace
<1> QED
  BY <1>2, <1>3, <1>4 DEF OnePlace

LEMMA PlacePush ==
  ASSUME Base, OnePlace, QueueOnly', NEW op, NEW v, PushStep(op, v), v \notin ToSet(accepted),
         \A c \in Consumer : Held(c)' = Held(c)
  PROVE  OnePlace'
<1> DEFINE q == lists[Queue]
           p == lists'[Queue]
<1>1. /\ q \in Seq(Value) /\ v \in Value /\ p = Added(q, EndOf(op), v)
      /\ Distinct(q) /\ ToSet(q) \subseteq ToSet(accepted)
  BY OrderTypes DEF PushStep, OnePlace
<1>2. ToSet(accepted') = ToSet(accepted) \cup {v}
  <2>1. accepted \in Seq(Value) /\ accepted' = Append(accepted, v)
    BY OrderTypes DEF PushStep
  <2> QED
    BY <1>1, <2>1, AppendElements
<1> HIDE DEF q, p
<1>3. Distinct(p) /\ ToSet(p) = ToSet(q) \cup {v}
  BY <1>1, AddedDistinct, AddedElements
<1>4. ToSet(p) \subseteq ToSet(accepted')
  BY <1>1, <1>2, <1>3
<1>5. \A c \in Consumer : \A i \in 1 .. Len(Held(c)) :
        Held(c)[i] \in ToSet(accepted') \ ToSet(p)
  BY <1>2, <1>3 DEF OnePlace, q
<1> QED
  BY <1>3, <1>4, <1>5 DEF OnePlace, p

LEMMA PlacePop ==
  ASSUME Base, OnePlace, QueueOnly', NEW op, NEW v, PopStep(op, v), Gaining(v)
  PROVE  OnePlace'
<1> DEFINE q == lists[Queue]
           p == lists'[Queue]
<1>1. /\ q \in Seq(Value) /\ q # <<>> /\ p = Removed(q, EndOf(op)) /\ v = Element(q, EndOf(op))
      /\ Distinct(q) /\ ToSet(q) \subseteq ToSet(accepted) /\ accepted' = accepted
  BY OrderTypes DEF PopStep, OnePlace
<1> HIDE DEF q, p
<1>2. Distinct(p) /\ ToSet(p) = ToSet(q) \ {v} /\ v \in ToSet(q)
  BY <1>1, RemovedDistinct
<1>3. \A c \in Consumer : \A i \in 1 .. Len(Held(c)) :
        Held(c)[i] \in ToSet(accepted) \ ToSet(p) /\ Held(c)[i] # v
  BY <1>2 DEF OnePlace, q
<1>4. v \in ToSet(accepted) \ ToSet(p) /\ ToSet(p) \subseteq ToSet(accepted) /\ v \in Value
  BY <1>1, <1>2, ElementsOfSeq
<1> DEFINE Apart == /\ \A c \in Consumer : \A i \in 1 .. Len(Held(c)') :
                         Held(c)'[i] \in ToSet(accepted) \ ToSet(p)
                    /\ \A c, d \in Consumer : \A i \in 1 .. Len(Held(c)'), j \in 1 .. Len(Held(d)') :
                         Held(c)'[i] = Held(d)'[j] => c = d /\ i = j
<1>5. ASSUME \A c \in Consumer : Held(c)' = Held(c) PROVE Apart
  BY <1>3, <1>5 DEF OnePlace
<1>6. ASSUME NEW e \in Consumer, Held(e)' = Append(Held(e), v),
             \A c \in Consumer \ {e} : Held(c)' = Held(c)
      PROVE  Apart
  <2> DEFINE n == Len(Held(e))
  <2>1. Held(e) \in Seq(Value) /\ n \in Nat
    BY HeldElements, ElementsOfSeq
  <2>2. Len(Held(e)') = n + 1 /\ Held(e)'[n + 1] = v /\ \A i \in 1 .. n : Held(e)'[i] = Held(e)[i]
    BY <1>4, <1>6, <2>1, AppendElements
  <2>3. \A i \in 1 .. Len(Held(e)') : i = n + 1 \/ i \in 1 .. n
    BY <2>1, <2>2
  <2>4. \A c \in Consumer : \A i \in 1 .. Len(Held(c)') :
          \/ c = e /\ i = n + 1 /\ Held(c)'[i] = v
          \/ i \in 1 .. Len(Held(c)) /\ Held(c)'[i] = Held(c)[i]
    BY <1>6, <2>2, <2>3
  <2> HIDE DEF n
  <2>5. \A c \in Consumer : \A i \in 1 .. Len(Held(c)') :
          Held(c)'[i] \in ToSet(accepted) \ ToSet(p)
    BY <1>3, <1>4, <2>4
  <2>6. ASSUME NEW c \in Consumer, NEW d \in Consumer, NEW i \in 1 .. Len(Held(c)'),
               NEW j \in 1 .. Len(Held(d)'), Held(c)'[i] = Held(d)'[j]
        PROVE  c = d /\ i = j
    BY <1>3, <2>4, <2>6, SMTT(20) DEF OnePlace
  <2> QED
    BY <2>5, <2>6
<1>7. Apart
  <2> HIDE DEF Apart
  <2> QED
    BY <1>5, <1>6 DEF Gaining
<1> QED
  BY <1>1, <1>2, <1>4, <1>7 DEF OnePlace, p

LEMMA PlaceNext ==
  ASSUME OnlyPops, Base, PushedOnce, OnePlace, [Next]_vars
  PROVE  OnePlace'
<1>1. QueueOnly /\ QueueOnly'
  BY QueueOnlyNext DEF OnePlace
<1>2. ASSUME UNCHANGED <<lists, accepted>> /\ Keeping PROVE OnePlace'
  BY <1>2, PlaceStays
<1>3. ASSUME NEW cmd, Sending(cmd), PushStep(cmd.op, cmd.value),
             \A c \in Consumer : Held(c)' = Held(c)
      PROVE  OnePlace'
  <2>1. cmd.value \notin ToSet(accepted)
    BY <1>3, PushIsNew DEF PushStep
  <2> QED
    BY <1>1, <1>3, <2>1, PlacePush
<1>4. ASSUME NEW op, NEW v, PopStep(op, v), Gaining(v) PROVE OnePlace'
  BY <1>1, <1>4, PlacePop
<1> QED
  BY <1>1, <1>2, <1>3, <1>4, Flow

LEMMA OnceInit == Init => PushedOnce /\ OnePlace
<1> SUFFICES ASSUME Init PROVE PushedOnce /\ OnePlace
  OBVIOUS
<1>1. /\ lists[Queue] = <<>> /\ accepted = <<>> /\ orphans = {}
      /\ \A c \in Consumer : got[c] = <<>> /\ call[c] = Idle
      /\ \A p \in Producer : call[p] = Idle
  BY QueueAssumption DEF Init, Client
<1>2. ToSet(<<>>) = {}
  BY DEF ToSet
<1>3. PushedOnce
  BY <1>1, <1>2, IdleFields DEF PushedOnce, PushOrphans, Pending
<1>4. QueueOnly
  BY DEF Init, QueueOnly
<1>5. \A c \in Consumer : Held(c) = <<>>
  BY <1>1, IdleFields DEF Held, Cargo
<1> QED
  BY <1>1, <1>2, <1>3, <1>4, <1>5 DEF OnePlace, Distinct

\* Producers that never push an element again and consumers that pop: no element
\* reaches two consumers, or one consumer twice, whichever connections end, and
\* whether the commands they leave behind are carried out or forgotten.
THEOREM ElementsArriveOnce ==
  ASSUME ~Retries, OnlyPops
  PROVE  Spec => []AtMostOnce
<1>1. Base /\ DupCounted /\ PushedOnce /\ OnePlace /\ [Next]_vars => PushedOnce' /\ OnePlace'
  BY OnceNext, PlaceNext DEF DupCounted
<1>2. Base /\ OnePlace => AtMostOnce
  <2> SUFFICES ASSUME Base, OnePlace, NEW c \in Consumer, NEW d \in Consumer,
                      NEW i \in DOMAIN got[c], NEW j \in DOMAIN got[d], got[c][i] = got[d][j]
               PROVE  c = d /\ i = j
    BY DEF AtMostOnce
  <2>1. /\ i \in 1 .. Len(Held(c)) /\ Held(c)[i] = got[c][i]
        /\ j \in 1 .. Len(Held(d)) /\ Held(d)[j] = got[d][j]
    BY GotWithin
  <2> QED
    BY <2>1 DEF OnePlace
<1> QED
  BY InitBase, NextBase, DupInit, DupNext, OnceInit, <1>1, <1>2, PTL DEF Spec

-----------------------------------------------------------------------------
(* The queue implements DeliveryQueue.                                     *)

\* Elements that have left the queue and that nobody has received.
InTransit == ToSet(accepted) \ (ToSet(lists[Queue]) \cup Received)

LEMMA OrderElements ==
  ASSUME Base
  PROVE  \A i \in DOMAIN QueueOrder : QueueOrder[i] \in ToSet(lists[Queue])
<1> DEFINE q == lists[Queue]
<1>1. q \in Seq(Value) /\ Len(q) \in Nat
  BY OrderTypes
<1>2. QueueOrder = Reverse(q) \/ QueueOrder = q
  BY DEF QueueOrder
<1> HIDE DEF q
<1>3. \A i \in DOMAIN Reverse(q) : Reverse(q)[i] \in ToSet(q)
  <2> DEFINE r == Reverse(q)
  <2>1. /\ r \in Seq(Value) /\ Len(r) = Len(q)
        /\ \A i \in 1 .. Len(q) : r[i] = q[Len(q) - i + 1]
    BY <1>1, ReverseElements
  <2> HIDE DEF r
  <2>2. DOMAIN r = 1 .. Len(q) /\ \A i \in 1 .. Len(q) : Len(q) - i + 1 \in 1 .. Len(q)
    BY <1>1, <2>1, ElementsOfSeq
  <2>3. \A i \in 1 .. Len(q) : q[i] \in ToSet(q)
    BY <1>1, ElementsOfSeq
  <2>4. \A i \in DOMAIN r : r[i] \in ToSet(q)
    BY <2>1, <2>2, <2>3
  <2> QED
    BY <2>4 DEF r
<1>4. \A i \in DOMAIN q : q[i] \in ToSet(q)
  BY <1>1, ElementsOfSeq
<1> QED
  BY <1>2, <1>3, <1>4 DEF q

LEMMA ReceivedElements ==
  ASSUME Base, NEW v
  PROVE  /\ v \in Received <=> \E c \in Consumer : v \in ToSet(got[c])
         /\ v \in Received => \E c \in Consumer : \E i \in 1 .. Len(got[c]) : got[c][i] = v
<1>1. \A c \in Consumer : got[c] \in Seq(Value)
  BY DEF Base, TypeOK
<1> QED
  BY <1>1, ElementsOfSeq DEF Received

\* What the steps do to what the consumers have received.
LEMMA Receiving ==
  ASSUME Base, [Next]_vars
  PROVE  \/ got' = got
         \/ /\ UNCHANGED <<lists, accepted>>
            /\ \E c \in Consumer, v \in Value :
                 Cargo(c) = <<v>> /\ got' = [got EXCEPT ![c] = Append(got[c], v)]
<1> DEFINE Given == /\ UNCHANGED <<lists, accepted>>
                    /\ \E c \in Consumer, v \in Value :
                         Cargo(c) = <<v>> /\ got' = [got EXCEPT ![c] = Append(got[c], v)]
<1>1. ASSUME UNCHANGED vars PROVE got' = got
  BY <1>1 DEF vars, callerVars
<1>2. ASSUME NEW o \in orphans, Orphaned(o) PROVE got' = got
  BY <1>2 DEF Orphaned, callerVars
<1>3. ASSUME NEW c \in Client, Apply(c) \/ Serve(c) PROVE got' = got
  BY <1>3 DEF Apply, Serve, Answer, callerVars
<1>4. ASSUME NEW c \in Client, Receive(c) PROVE got' = got \/ Given
  <2>1. /\ UNCHANGED <<lists, accepted>>
        /\ call[c].phase = "answered"
        /\ got' = IF c \in Consumer
                  THEN [got EXCEPT ![c] = got[c] \o Handed(call[c].cmd.op, call[c].reply)]
                  ELSE got
    BY <1>4 DEF Receive, Return, serverVars
  <2>2. CASE c \notin Consumer
    BY <2>1, <2>2
  <2>3. CASE c \in Consumer
    <3> DEFINE h == Cargo(c)
    <3>1. h \in AtMostOne /\ got[c] \in Seq(Value)
      BY <2>3, HeldElements
    <3>2. got' = [got EXCEPT ![c] = got[c] \o h]
      BY <2>1, <2>3 DEF Cargo
    <3> HIDE DEF h
    <3>3. CASE h = <<>>
      <4>1. got[c] \o h = got[c]
        BY <3>1, <3>3
      <4> QED
        BY <3>2, <4>1 DEF Base, TypeOK
    <3>4. ASSUME NEW v \in Value, h = <<v>> PROVE Given
      <4>1. got[c] \o h = Append(got[c], v)
        BY <3>1, <3>4, ConcatElements
      <4>2. got' = [got EXCEPT ![c] = Append(got[c], v)]
        BY <3>2, <4>1, Zenon
      <4> QED
        BY <2>1, <2>3, <3>4, <4>2, Zenon DEF h
    <3> HIDE DEF Given
    <3> QED
      BY <3>1, <3>3, <3>4 DEF AtMostOne
  <2> QED
    BY <2>2, <2>3
<1>5. ASSUME NEW c \in Client, ReceiveNothing(c) PROVE got' = got
  BY <1>5, ReceiveNothingHeld
<1>6. ASSUME NEW c \in Client,
             Send(c) \/ FailFast(c) \/ Connect(c) \/ LinkDrop(c) \/ Block(c) \/ Expire(c)
      PROVE  got' = got
  BY <1>6, OtherStepsHeld
<1> HIDE DEF Given
<1>7. got' = got \/ Given
  BY <1>1, <1>2, <1>3, <1>4, <1>5, <1>6 DEF Next
<1> QED
  BY <1>7 DEF Given

LEMMA DeliverStep ==
  ASSUME Base, OnePlace, UNCHANGED <<lists, accepted>>, NEW c \in Consumer, NEW v \in Value,
         Cargo(c) = <<v>>, got' = [got EXCEPT ![c] = Append(got[c], v)]
  PROVE  Delivery!Deliver(c, v)
<1> DEFINE n == Len(got[c])
<1>1. got[c] \in Seq(Value) /\ Held(c) = Append(got[c], v)
  BY HeldElements, ConcatElements DEF Held
<1>2. n \in Nat /\ Len(Held(c)) = n + 1 /\ Held(c)[n + 1] = v /\ n + 1 \in 1 .. n + 1
  BY <1>1, AppendElements, ElementsOfSeq
<1>3. v \in ToSet(accepted) \ ToSet(lists[Queue])
  BY <1>2 DEF OnePlace
<1>4. v \notin Received
  <2> SUFFICES ASSUME NEW d \in Consumer, NEW i \in 1 .. Len(got[d]), got[d][i] = v PROVE FALSE
    BY ReceivedElements
  <2>1. i \in 1 .. Len(Held(d)) /\ Held(d)[i] = v
    BY GotWithin
  <2>2. d = c /\ i = n + 1
    BY <1>2, <2>1 DEF OnePlace
  <2> QED
    BY <1>2, <2>2
<1>5. Received' = Received \cup {v}
  <2>1. ToSet(got'[c]) = ToSet(got[c]) \cup {v} /\ \A d \in Consumer \ {c} : got'[d] = got[d]
    BY <1>1, AppendElements DEF Base, TypeOK
  <2> QED
    BY <2>1 DEF Received
<1>6. v \in InTransit /\ InTransit' = InTransit \ {v}
  BY <1>3, <1>4, <1>5 DEF InTransit
<1>7. QueueOrder' = QueueOrder
  BY DEF QueueOrder
<1> QED
  BY <1>6, <1>7 DEF Delivery!Deliver, InTransit

LEMMA AcceptStep ==
  ASSUME FirstInFirstOut, Base, Base', OnePlace, NEW op, NEW v, PushStep(op, v), got' = got,
         v \notin ToSet(accepted)
  PROVE  Delivery!Accept(v)
<1>1. QueueOrder' = Append(QueueOrder, v)
  BY PushOrder
<1>2. \A i \in DOMAIN QueueOrder : QueueOrder[i] # v
  BY OrderElements DEF OnePlace
<1>3. \A c \in Consumer : \A i \in DOMAIN got[c] : got[c][i] # v
  BY GotWithin DEF OnePlace
<1>4. v \notin Received /\ Received' = Received
  BY <1>3 DEF Received, ToSet
<1>5. ToSet(accepted') = ToSet(accepted) \cup {v} /\ ToSet(lists'[Queue]) = ToSet(lists[Queue]) \cup {v}
  <2>1. /\ accepted \in Seq(Value) /\ lists[Queue] \in Seq(Value) /\ v \in Value
        /\ accepted' = Append(accepted, v)
        /\ lists'[Queue] = Added(lists[Queue], EndOf(op), v)
    BY OrderTypes DEF PushStep
  <2> QED
    BY <2>1, AppendElements, AddedElements
<1>6. v \notin InTransit /\ InTransit' = InTransit
  BY <1>4, <1>5 DEF InTransit
<1> QED
  BY <1>1, <1>2, <1>3, <1>6 DEF Delivery!Accept, InTransit

LEMMA WithdrawStep ==
  ASSUME FirstInFirstOut, Base, Base', OnePlace, NEW op, NEW v, PopStep(op, v), got' = got
  PROVE  Delivery!Withdraw
<1>1. QueueOrder # <<>> /\ v = Head(QueueOrder) /\ QueueOrder' = Tail(QueueOrder)
  BY PopOrder
<1>2. Received' = Received
  BY DEF Received
<1>3. /\ accepted' = accepted /\ ToSet(lists'[Queue]) = ToSet(lists[Queue]) \ {v}
      /\ v \in ToSet(lists[Queue])
  <2>1. /\ lists[Queue] \in Seq(Value) /\ lists[Queue] # <<>> /\ Distinct(lists[Queue])
        /\ lists'[Queue] = Removed(lists[Queue], EndOf(op))
        /\ v = Element(lists[Queue], EndOf(op)) /\ accepted' = accepted
    BY OrderTypes DEF PopStep, OnePlace
  <2> QED
    BY <2>1, RemovedDistinct
<1>4. v \notin Received
  <2> SUFFICES ASSUME NEW d \in Consumer, NEW i \in 1 .. Len(got[d]), got[d][i] = v PROVE FALSE
    BY ReceivedElements
  <2>1. i \in 1 .. Len(Held(d)) /\ Held(d)[i] = v
    BY GotWithin
  <2> QED
    BY <1>3, <2>1 DEF OnePlace
<1>5. v \in ToSet(accepted)
  BY <1>3 DEF OnePlace
<1>6. InTransit' = InTransit \cup {v}
  BY <1>2, <1>3, <1>4, <1>5 DEF InTransit
<1> QED
  BY <1>1, <1>6 DEF Delivery!Withdraw, InTransit

LEMMA DeliveryNext ==
  ASSUME FirstInFirstOut, Base, Base', PushedOnce, OnePlace, [Next]_vars
  PROVE  [Delivery!Next]_(Delivery!vars)
<1>1. OnlyPops /\ QueueOnly
  BY DEF FirstInFirstOut, OnlyPops, OnePlace
<1>2. ASSUME UNCHANGED <<lists, accepted>>,
             NEW c \in Consumer, NEW v \in Value, Cargo(c) = <<v>>,
             got' = [got EXCEPT ![c] = Append(got[c], v)]
      PROVE  Delivery!Next
  BY <1>2, DeliverStep DEF Delivery!Next
<1>3. ASSUME got' = got PROVE [Delivery!Next]_(Delivery!vars)
  <2>1. ASSUME UNCHANGED <<lists, accepted>> PROVE UNCHANGED Delivery!vars
    <3>1. QueueOrder' = QueueOrder /\ Received' = Received
      BY <1>3, <2>1 DEF QueueOrder, Received
    <3> QED
      BY <1>3, <2>1, <3>1 DEF Delivery!vars
  <2>2. ASSUME NEW cmd, Sending(cmd), PushStep(cmd.op, cmd.value) PROVE Delivery!Next
    <3>1. cmd.value \notin ToSet(accepted) /\ cmd.value \in Value
      BY <2>2, PushIsNew DEF PushStep
    <3> QED
      BY <1>3, <2>2, <3>1, AcceptStep DEF Delivery!Next
  <2>3. ASSUME NEW op, NEW v, PopStep(op, v) PROVE Delivery!Next
    BY <1>3, <2>3, WithdrawStep DEF Delivery!Next
  <2> QED
    BY <1>1, <2>1, <2>2, <2>3, Flow
<1> QED
  BY <1>2, <1>3, Receiving

LEMMA DeliveryInit == Init => Delivery!Init
<1> SUFFICES ASSUME Init PROVE Delivery!Init
  OBVIOUS
<1>1. lists[Queue] = <<>> /\ accepted = <<>> /\ got = [c \in Consumer |-> <<>>]
  BY QueueAssumption DEF Init
<1>2. QueueOrder = <<>>
  BY <1>1 DEF QueueOrder, Reverse
<1>3. ToSet(accepted) \ (ToSet(lists[Queue]) \cup Received) = {}
  BY <1>1 DEF ToSet
<1> QED
  BY <1>1, <1>2, <1>3 DEF Delivery!Init

\* Producers that never push an element again, at one end, and consumers that pop at
\* the other: the server, its clients and their connections together behave like one
\* queue whose elements leave in order and arrive once or not at all.
THEOREM QueueImplementsDelivery ==
  ASSUME ~Retries, FirstInFirstOut
  PROVE  Spec => DeliverySpec
<1>1. OnlyPops
  BY DEF FirstInFirstOut, OnlyPops
<1>2. Base /\ DupCounted /\ PushedOnce /\ OnePlace /\ [Next]_vars => PushedOnce' /\ OnePlace'
  BY <1>1, OnceNext, PlaceNext DEF DupCounted
<1>3. Base /\ Base' /\ PushedOnce /\ OnePlace /\ [Next]_vars => [Delivery!Next]_(Delivery!vars)
  BY DeliveryNext
<1> QED
  BY InitBase, NextBase, DupInit, DupNext, OnceInit, DeliveryInit, <1>2, <1>3, PTL
     DEF Spec, DeliverySpec, Delivery!Spec

=============================================================================
