------------------------- MODULE RedisQueueCountProofs -------------------------
(***************************************************************************)
(* Proofs about RedisQueue that count: no more elements are lost than      *)
(* withdrawals end without a reply, and the server holds no more elements  *)
(* twice than connections have ended.                                      *)
(***************************************************************************)
EXTENDS RedisQueueProofs

-----------------------------------------------------------------------------
(* Elements that are lost.                                                 *)

\* Withdrawals the server may still carry out for nobody.
PopOrphans == { o \in orphans : o.cmd.op \in Withdrawing }

\* Consumers that wait for a reply that will not come.
Waiting == { c \in Failing : call[c].phase # "answered" }

\* A withdrawal that has outlived its connection has a caller that still waits
\* for its reply or has been told that there is none.
LossCounted ==
  Cardinality(Lost) + Cardinality(PopOrphans) <= unanswered + Cardinality(Waiting)

LEMMA ElementsFinite ==
  ASSUME NEW S, NEW s \in Seq(S)
  PROVE  IsFiniteSet(ToSet(s)) /\ Cardinality(ToSet(s)) \in Nat
<1>1. IsFiniteSet(1 .. Len(s))
  <2>1. Len(s) \in Int /\ 1 \in Int
    BY ElementsOfSeq
  <2> QED
    BY <2>1, FS_Interval
<1>2. s \in Surjection(1 .. Len(s), ToSet(s))
  <2>1. s \in [1 .. Len(s) -> ToSet(s)]
    BY ElementsOfSeq
  <2>2. \A v \in ToSet(s) : \E i \in 1 .. Len(s) : s[i] = v
    BY ElementsOfSeq
  <2> QED
    BY <2>1, <2>2 DEF Surjection
<1>3. IsFiniteSet(ToSet(s))
  BY <1>1, <1>2, FS_Surjection
<1> QED
  BY <1>3, FS_CardinalityType

\* A set that gains at most one element, or loses one.
LEMMA CountUp ==
  ASSUME NEW S, IsFiniteSet(S), NEW x, NEW T \in SUBSET (S \cup {x})
  PROVE  /\ IsFiniteSet(T) /\ Cardinality(T) \in Nat /\ Cardinality(S) \in Nat
         /\ Cardinality(T) <= Cardinality(S) + 1
         /\ T \subseteq S => Cardinality(T) <= Cardinality(S)
         /\ T = S \cup {x} /\ x \notin S => Cardinality(T) = Cardinality(S) + 1
<1>1. /\ IsFiniteSet(S \cup {x})
      /\ Cardinality(S \cup {x}) = IF x \in S THEN Cardinality(S) ELSE Cardinality(S) + 1
  BY FS_AddElement
<1>2. IsFiniteSet(T) /\ Cardinality(T) <= Cardinality(S \cup {x})
  BY <1>1, FS_Subset
<1>3. Cardinality(T) \in Nat /\ Cardinality(S) \in Nat
  BY <1>2, FS_CardinalityType
<1>4. T \subseteq S => Cardinality(T) <= Cardinality(S)
  BY FS_Subset
<1> DEFINE t == Cardinality(T)
           s == Cardinality(S)
           u == Cardinality(S \cup {x})
<1>5. t <= u /\ (u = s \/ u = s + 1) /\ t \in Nat /\ s \in Nat
  BY <1>1, <1>2, <1>3
<1>6. T = S \cup {x} /\ x \notin S => t = s + 1
  BY <1>1
<1> HIDE DEF t, s, u
<1>7. t <= s + 1
  BY <1>5
<1> QED
  BY <1>2, <1>3, <1>4, <1>6, <1>7 DEF t, s

LEMMA CountDown ==
  ASSUME NEW S, IsFiniteSet(S), NEW x \in S, NEW T, T = S \ {x}
  PROVE  /\ IsFiniteSet(T) /\ Cardinality(T) \in Nat /\ Cardinality(S) \in Nat
         /\ Cardinality(T) + 1 = Cardinality(S)
<1>1. IsFiniteSet(T) /\ Cardinality(T) = Cardinality(S) - 1
  BY FS_RemoveElement
<1>2. Cardinality(S) \in Nat /\ Cardinality(T) \in Nat
  BY <1>1, FS_CardinalityType
<1> QED
  BY <1>1, <1>2

LEMMA LossTypes ==
  ASSUME Base
  PROVE  /\ IsFiniteSet(Lost) /\ Cardinality(Lost) \in Nat
         /\ IsFiniteSet(PopOrphans) /\ Cardinality(PopOrphans) \in Nat
         /\ IsFiniteSet(Waiting) /\ Cardinality(Waiting) \in Nat
         /\ IsFiniteSet(Failing) /\ Cardinality(Failing) \in Nat
         /\ unanswered \in Nat /\ drops \in Nat
<1>1. IsFiniteSet(ToSet(accepted)) /\ Lost \in SUBSET ToSet(accepted)
  BY ElementsFinite DEF Base, TypeOK, Lost
<1>2. IsFiniteSet(orphans) /\ PopOrphans \in SUBSET orphans
  BY DEF Base, Orphans, PopOrphans
<1>3. IsFiniteSet(Consumer) /\ Waiting \in SUBSET Consumer /\ Failing \in SUBSET Consumer
  BY QueueAssumption DEF Waiting, Failing
<1>4. IsFiniteSet(Lost) /\ IsFiniteSet(PopOrphans) /\ IsFiniteSet(Waiting) /\ IsFiniteSet(Failing)
  BY <1>1, <1>2, <1>3, FS_Subset
<1>5. unanswered \in Nat /\ drops \in Nat
  BY QueueAssumption DEF Base, TypeOK
<1> QED
  BY <1>4, <1>5, FS_CardinalityType

\* An element is in the same place as before, unless a list or a consumer lost it.
LEMMA LostGrows ==
  ASSUME Base, Base', NEW L,
         ToSet(accepted') \subseteq ToSet(accepted) \cup Stored',
         \A w \in Stored : w \in Stored' \cup InFlight' \cup Received' \cup L,
         \A c \in Consumer : \A w \in ToSet(Held(c)) :
            w \in L \/ \E d \in Consumer : w \in ToSet(Held(d)')
  PROVE  Lost' \subseteq Lost \cup L
<1> SUFFICES ASSUME NEW w \in Lost', w \notin L PROVE w \in Lost
  OBVIOUS
<1>1. w \in ToSet(accepted') /\ w \notin Stored' \cup InFlight' \cup Received'
  BY DEF Lost
<1>2. w \in ToSet(accepted) /\ w \notin Stored
  BY <1>1
<1>3. \A d \in Consumer : w \notin ToSet(Held(d)')
  <2>1. w \in InFlight' \cup Received' <=> \E c \in Consumer : w \in ToSet(Held(c)')
    BY PlacesNext DEF Places
  <2> QED
    BY <1>1, <2>1
<1>4. w \notin InFlight \cup Received
  BY <1>3, FoundElements
<1> QED
  BY <1>2, <1>4 DEF Lost

LEMMA QuietLost ==
  ASSUME Base, Base', UNCHANGED <<lists, accepted>>, \A d \in Consumer : Held(d)' = Held(d)
  PROVE  Lost' \subseteq Lost
<1>1. Stored' = Stored
  BY DEF Stored
<1>2. Lost' \subseteq Lost \cup {}
  BY <1>1, LostGrows
<1> QED
  BY <1>2

\* A client that is there gets what is taken off a list.
LEMMA AnswerLost ==
  ASSUME Base, Base', NEW c \in Client, call[c].phase \in {"sent", "waiting"},
         NEW r \in Reply(Text), Carried(call[c].cmd, r), Answered(c, r)
  PROVE  Lost' \subseteq Lost
<1> DEFINE h == Handed(call[c].cmd.op, r)
<1>1. /\ InCall(c) /\ TypeOK /\ Sendable(call[c].cmd, Received)
  BY CallTypes DEF Base, InCall
<1>2. /\ ToSet(accepted') \subseteq ToSet(accepted) \cup Stored'
      /\ \A w \in Stored :
           \/ w \in Stored' \cup Received
           \/ h = <<w>> /\ call[c].cmd.op \in Withdrawing
  BY <1>1, CarriedElements
<1>3. \A d \in Consumer : Held(d)' = IF d = c THEN Held(d) \o h ELSE Held(d)
  BY AnswerHeld
<1>4. Received' = Received
  BY DEF Answered, callerVars, Received
<1>5. h \in AtMostOne
  BY <1>1, CarriedTypes
<1> HIDE DEF h
<1>6. \A d \in Consumer : \A w \in ToSet(Held(d)) : w \in ToSet(Held(d)')
  <2> SUFFICES ASSUME NEW d \in Consumer PROVE ToSet(Held(d)) \subseteq ToSet(Held(d)')
    OBVIOUS
  <2>1. ToSet(Held(d) \o h) = ToSet(Held(d)) \cup ToSet(h)
    BY <1>5, HeldElements, ConcatElements
  <2>2. CASE d = c
    BY <1>3, <2>1, <2>2
  <2>3. CASE d # c
    BY <1>3, <2>3
  <2> QED
    BY <2>2, <2>3
<1>7. ASSUME NEW w \in Stored, w \notin Stored' \cup Received PROVE w \in InFlight' \cup Received'
  <2>1. h = <<w>> /\ c \in Consumer
    BY <1>1, <1>2, <1>7, MethodNames DEF InCall, Client
  <2>2. ToSet(Held(c) \o h) = ToSet(Held(c)) \cup ToSet(h)
    BY <1>5, <2>1, HeldElements, ConcatElements
  <2>3. w \in ToSet(h)
    <3>1. DOMAIN <<w>> = {1} /\ <<w>>[1] = w
      OBVIOUS
    <3> QED
      BY <2>1, <3>1 DEF ToSet
  <2>4. w \in ToSet(Held(c)')
    BY <1>3, <2>1, <2>2, <2>3
  <2> QED
    BY <2>1, <2>4, PlacesNext DEF Places
<1>8. Lost' \subseteq Lost \cup {}
  BY <1>2, <1>4, <1>6, <1>7, LostGrows
<1> QED
  BY <1>8

\* What is taken off a list for nobody is lost, one element at a time.
LEMMA OrphanedLost ==
  ASSUME Base, Base', NEW o \in orphans, Orphaned(o)
  PROVE  /\ o.cmd.op \notin Withdrawing => Lost' \subseteq Lost
         /\ \E w : Lost' \subseteq Lost \cup {w}
<1>1. UNCHANGED <<call, got>> /\ TypeOK /\ Sendable(o.cmd, Received)
  BY OrphanedShape DEF callerVars, Base, Orphans
<1>2. (\A d \in Consumer : Held(d)' = Held(d)) /\ Received' = Received
  BY <1>1, HeldStays DEF Received
<1>3. CASE UNCHANGED <<lists, accepted>>
  BY <1>2, <1>3, QuietLost
<1>4. ASSUME NEW r, Carried(o.cmd, r)
      PROVE  /\ o.cmd.op \notin Withdrawing => Lost' \subseteq Lost
             /\ \E w : Lost' \subseteq Lost \cup {w}
  <2> DEFINE h == Handed(o.cmd.op, r)
             L == { w \in Stored : h = <<w>> /\ o.cmd.op \in Withdrawing }
  <2>1. /\ ToSet(accepted') \subseteq ToSet(accepted) \cup Stored'
        /\ \A w \in Stored : w \in Stored' \cup Received \/ w \in L
    BY <1>1, <1>4, CarriedElements
  <2>2. Lost' \subseteq Lost \cup L
    <3> HIDE DEF L
    <3> QED
      BY <1>2, <2>1, LostGrows
  <2>3. o.cmd.op \notin Withdrawing => L = {}
    OBVIOUS
  <2>4. \E w : L \subseteq {w}
    <3>1. \A x, y : <<x>> = <<y>> => x = y
      OBVIOUS
    <3>2. \A x, y \in L : x = y
      BY <3>1
    <3> HIDE DEF L
    <3> QED
      BY <3>2
  <2> HIDE DEF L
  <2> QED
    BY <2>2, <2>3, <2>4
<1> QED
  BY <1>3, <1>4, OrphanedShape

LEMMA ReceiveNothingLost ==
  ASSUME Base, Base', NEW c \in Client, ReceiveNothing(c)
  PROVE  /\ call[c].phase # "answered" => Lost' \subseteq Lost
         /\ call[c].cmd.op \notin Withdrawing => Lost' \subseteq Lost
         /\ \E w : Lost' \subseteq Lost \cup {w}
<1>1. /\ UNCHANGED <<lists, accepted, got>>
      /\ \A d \in Consumer : Held(d)' = IF d = c THEN got[d] ELSE Held(d)
  BY ReceiveNothingHeld DEF ReceiveNothing, serverVars
<1> DEFINE L == ToSet(Cargo(c))
<1>2. ToSet(<<>>) = {}
  BY DEF ToSet
<1>3. /\ call[c].phase # "answered" => L = {}
      /\ call[c].cmd.op \notin Withdrawing => L = {}
  BY <1>2, GoodReplies DEF Cargo
<1>4. \E w : L \subseteq {w}
  <2>1. Cargo(c) \in AtMostOne
    BY CallTypes DEF ReceiveNothing, InCall, AtMostOne
  <2>2. ASSUME NEW w, Cargo(c) = <<w>> PROVE L \subseteq {w}
    <3>1. DOMAIN <<w>> = {1} /\ <<w>>[1] = w
      OBVIOUS
    <3> QED
      BY <2>2, <3>1 DEF ToSet
  <2> HIDE DEF L
  <2>3. Cargo(c) = <<>> => L = {}
    BY <1>2 DEF L
  <2> QED
    BY <2>1, <2>2, <2>3 DEF AtMostOne
<1>5. Lost' \subseteq Lost \cup L
  <2>1. Stored' = Stored
    BY <1>1 DEF Stored
  <2>2. \A d \in Consumer : \A w \in ToSet(Held(d)) :
          w \in L \/ \E e \in Consumer : w \in ToSet(Held(e)')
    <3> SUFFICES ASSUME NEW d \in Consumer, NEW w \in ToSet(Held(d)), w \notin L
                 PROVE  w \in ToSet(Held(d)')
      OBVIOUS
    <3>1. ToSet(Held(d)) = ToSet(got[d]) \cup ToSet(Cargo(d))
      BY HeldElements
    <3> QED
      BY <1>1, <3>1
  <2> HIDE DEF L
  <2> QED
    BY <1>1, <2>1, <2>2, LostGrows
<1> HIDE DEF L
<1> QED
  BY <1>3, <1>4, <1>5

\* Steps that lose nothing.
LEMMA LossStays ==
  ASSUME Base, LossCounted, Lost' \in SUBSET Lost, PopOrphans' = PopOrphans,
         unanswered' = unanswered, Waiting' = Waiting
  PROVE  LossCounted'
<1>1. Cardinality(Lost') <= Cardinality(Lost) /\ Cardinality(Lost') \in Nat
  BY LossTypes, CountUp
<1> QED
  BY <1>1, LossTypes DEF LossCounted

LEMMA AnswerLoss ==
  ASSUME Base, Base', LossCounted, NEW c \in Client, Apply(c) \/ Serve(c)
  PROVE  LossCounted'
<1>1. Answer(c) /\ call[c].phase \in {"sent", "waiting"} /\ link[c] = "up"
  BY DEF Apply, Serve
<1>2. PICK r \in Reply(Text) : Carried(call[c].cmd, r) /\ Answered(c, r)
  BY <1>1, AnswerShape
<1>3. Lost' \subseteq Lost
  BY <1>1, <1>2, AnswerLost
<1>4. /\ UNCHANGED <<orphans, link, unanswered>>
      /\ \A d \in Client : d # c => call'[d] = call[d]
  BY <1>2 DEF Answered, callerVars
<1>5. PopOrphans' = PopOrphans /\ Waiting' = Waiting
  BY <1>1, <1>4 DEF PopOrphans, Waiting, Failing, Client
<1> QED
  BY <1>3, <1>4, <1>5, LossStays

LEMMA OrphanedLoss ==
  ASSUME Base, Base', LossCounted, NEW o \in orphans, Orphaned(o)
  PROVE  LossCounted'
<1>1. orphans' = orphans \ {o} /\ UNCHANGED <<call, link, unanswered>>
  BY OrphanedShape DEF callerVars
<1>2. Waiting' = Waiting
  BY <1>1 DEF Waiting, Failing
<1>3. CASE o.cmd.op \notin Withdrawing
  <2>1. PopOrphans' = PopOrphans
    BY <1>1, <1>3 DEF PopOrphans
  <2> QED
    BY <1>1, <1>2, <1>3, <2>1, OrphanedLost, LossStays
<1>4. CASE o.cmd.op \in Withdrawing
  <2>1. o \in PopOrphans /\ PopOrphans' = PopOrphans \ {o}
    BY <1>1, <1>4 DEF PopOrphans
  <2>2. Cardinality(PopOrphans') + 1 = Cardinality(PopOrphans) /\ Cardinality(PopOrphans') \in Nat
    BY <2>1, LossTypes, CountDown
  <2>3. Cardinality(Lost') <= Cardinality(Lost) + 1 /\ Cardinality(Lost') \in Nat
    BY OrphanedLost, LossTypes, CountUp
  <2> QED
    BY <1>1, <1>2, <2>2, <2>3, LossTypes DEF LossCounted
<1> QED
  BY <1>3, <1>4

LEMMA ReceiveNothingLoss ==
  ASSUME Base, Base', LossCounted, NEW c \in Client, ReceiveNothing(c)
  PROVE  LossCounted'
<1>1. /\ InCall(c) /\ link[c] = "down" /\ UNCHANGED orphans
      /\ unanswered' = IF call[c].cmd.op \in Withdrawing THEN unanswered + 1 ELSE unanswered
      /\ link' = [d \in Client |-> IF d = c THEN "broken" ELSE link[d]]
      /\ call' = [d \in Client |-> IF d = c THEN Idle ELSE call[d]]
  BY CallTypes, ReturnFields DEF ReceiveNothing, serverVars
<1>2. PopOrphans' = PopOrphans
  BY <1>1 DEF PopOrphans
<1>3. Waiting' = Waiting \ {c}
  BY <1>1 DEF Waiting, Failing, Client
<1>4. CASE call[c].cmd.op \notin Withdrawing
  <2>1. c \notin Waiting
    BY <1>4 DEF Waiting, Failing
  <2> QED
    BY <1>1, <1>2, <1>3, <1>4, <2>1, ReceiveNothingLost, LossStays
<1>5. CASE call[c].cmd.op \in Withdrawing /\ call[c].phase = "answered"
  <2>1. c \notin Waiting
    BY <1>5 DEF Waiting
  <2>2. Waiting' = Waiting
    BY <1>3, <2>1
  <2>3. Cardinality(Lost') <= Cardinality(Lost) + 1 /\ Cardinality(Lost') \in Nat
    BY ReceiveNothingLost, LossTypes, CountUp
  <2> QED
    BY <1>1, <1>2, <1>5, <2>2, <2>3, LossTypes DEF LossCounted
<1>6. CASE call[c].cmd.op \in Withdrawing /\ call[c].phase # "answered"
  <2>1. c \in Waiting
    BY <1>1, <1>6, MethodNames DEF Waiting, Failing, InCall, Client
  <2>2. Cardinality(Waiting') + 1 = Cardinality(Waiting) /\ Cardinality(Waiting') \in Nat
    BY <1>3, <2>1, LossTypes, CountDown
  <2>3. Cardinality(Lost') <= Cardinality(Lost) /\ Cardinality(Lost') \in Nat
    BY <1>6, ReceiveNothingLost, LossTypes, CountUp
  <2> QED
    BY <1>1, <1>2, <1>6, <2>2, <2>3, LossTypes DEF LossCounted
<1> QED
  BY <1>4, <1>5, <1>6

LEMMA LinkDropLoss ==
  ASSUME Base, Base', LossCounted, NEW c \in Client, LinkDrop(c)
  PROVE  LossCounted'
<1>1. /\ UNCHANGED <<call, unanswered>> /\ link[c] = "up"
      /\ link' = [d \in Client |-> IF d = c THEN "down" ELSE link[d]]
  BY LinkDropShape
<1>2. Lost' \subseteq Lost
  BY OtherStepsHeld, QuietLost
<1>3. CASE /\ orphans' = orphans \cup {[cmd |-> call[c].cmd, n |-> drops]}
           /\ call[c].phase \in {"sent", "waiting"} /\ call[c].cmd.op \in Withdrawing
  <2>1. PopOrphans' \subseteq PopOrphans \cup {[cmd |-> call[c].cmd, n |-> drops]}
    BY <1>3 DEF PopOrphans
  <2>2. Cardinality(PopOrphans') <= Cardinality(PopOrphans) + 1 /\ Cardinality(PopOrphans') \in Nat
    BY <2>1, LossTypes, CountUp
  <2>3. c \in Consumer
    BY <1>3, CallTypes, MethodNames DEF InCall, Client
  <2>4. Waiting' = Waiting \cup {c} /\ c \notin Waiting
    BY <1>1, <1>3, <2>3 DEF Waiting, Failing, Client
  <2>5. Cardinality(Waiting') = Cardinality(Waiting) + 1
    BY <2>4, LossTypes, CountUp
  <2>6. Cardinality(Lost') <= Cardinality(Lost) /\ Cardinality(Lost') \in Nat
    BY <1>2, LossTypes, CountUp
  <2> QED
    BY <1>1, <2>2, <2>5, <2>6, LossTypes DEF LossCounted
<1>4. CASE PopOrphans' = PopOrphans
  <2>1. Waiting' \in SUBSET (Waiting \cup {c}) /\ Waiting \in SUBSET Waiting'
    BY <1>1 DEF Waiting, Failing, Client
  <2>2. IsFiniteSet(Waiting')
    BY <2>1, LossTypes, CountUp
  <2>3. Cardinality(Waiting) <= Cardinality(Waiting') /\ Cardinality(Waiting') \in Nat
    BY <2>1, <2>2, FS_Subset, FS_CardinalityType
  <2>4. Cardinality(Lost') <= Cardinality(Lost) /\ Cardinality(Lost') \in Nat
    BY <1>2, LossTypes, CountUp
  <2> QED
    BY <1>1, <1>4, <2>3, <2>4, LossTypes DEF LossCounted
<1>5. \/ PopOrphans' = PopOrphans
      \/ /\ orphans' = orphans \cup {[cmd |-> call[c].cmd, n |-> drops]}
         /\ call[c].phase \in {"sent", "waiting"} /\ call[c].cmd.op \in Withdrawing
  BY LinkDropShape DEF PopOrphans
<1> QED
  BY <1>3, <1>4, <1>5

\* A client that sends on a connection that has ended starts to wait.
LEMMA SendLoss ==
  ASSUME Base, Base', LossCounted, NEW c \in Client, Send(c)
  PROVE  LossCounted'
<1>1. UNCHANGED <<orphans, link, unanswered>> /\ call[c] = Idle
  BY SendShape
<1>2. \A d \in Client : d # c => call'[d] = call[d]
  BY SendShape
<1>3. PopOrphans' = PopOrphans
  BY <1>1 DEF PopOrphans
<1>4. Waiting' \in SUBSET (Waiting \cup {c}) /\ Waiting \in SUBSET Waiting'
  BY <1>1, <1>2, IdleFields, MethodNames DEF Waiting, Failing, Client
<1>5. IsFiniteSet(Waiting')
  BY <1>4, LossTypes, CountUp
<1>6. Cardinality(Waiting) <= Cardinality(Waiting') /\ Cardinality(Waiting') \in Nat
  BY <1>4, <1>5, FS_Subset, FS_CardinalityType
<1>7. Cardinality(Lost') <= Cardinality(Lost) /\ Cardinality(Lost') \in Nat
  BY OtherStepsHeld, QuietLost, LossTypes, CountUp
<1> QED
  BY <1>1, <1>3, <1>6, <1>7, LossTypes DEF LossCounted

\* The remaining steps change neither who waits nor what has been taken.
LEMMA OtherStepsLoss ==
  ASSUME Base, Base', LossCounted, NEW c \in Client,
         Receive(c) \/ FailFast(c) \/ Connect(c) \/ Block(c) \/ Expire(c)
  PROVE  LossCounted'
<1>1. /\ UNCHANGED <<lists, accepted, orphans, unanswered>>
      /\ \A d \in Consumer : Held(d)' = Held(d)
  BY OtherStepsHeld, ReceiveHeld, FailFastShape, PhaseShape DEF Receive, Connect, serverVars, callerVars
<1>2. Lost' \subseteq Lost /\ PopOrphans' = PopOrphans
  BY <1>1, QuietLost DEF PopOrphans
<1>3. Waiting' = Waiting
  <2>1. \A d \in Client : d # c => call'[d] = call[d] /\ link'[d] = link[d]
    BY ReturnFields, CallTypes, FailFastShape, PhaseShape
    DEF Receive, Connect, PhaseOnly
  <2>2. c \notin Waiting /\ c \notin Waiting'
    <3>1. CASE Receive(c)
      <4>1. call[c].phase = "answered" /\ call'[c] = Idle
        BY <3>1, ReturnFields DEF Receive
      <4> QED
        BY <4>1, IdleFields, MethodNames DEF Waiting, Failing
    <3>2. CASE FailFast(c) \/ Connect(c)
      <4>1. call[c] = Idle /\ call'[c] = Idle
        BY <3>2, FailFastShape DEF Connect
      <4> QED
        BY <4>1, IdleFields, MethodNames DEF Waiting, Failing
    <3>3. CASE Block(c) \/ Expire(c)
      BY <3>3, PhaseShape DEF Waiting, Failing
    <3> QED
      BY <3>1, <3>2, <3>3
  <2> QED
    BY <2>1, <2>2 DEF Waiting, Failing, Client
<1> QED
  BY <1>1, <1>2, <1>3, LossStays

LEMMA LossNext == Base /\ LossCounted /\ [Next]_vars => LossCounted'
<1> SUFFICES ASSUME Base, LossCounted, [Next]_vars PROVE LossCounted'
  OBVIOUS
<1>1. Base'
  BY NextBase
<1>2. CASE UNCHANGED vars
  BY <1>2 DEF vars, serverVars, callerVars, LossCounted, Lost, Stored, InFlight, Received,
     PopOrphans, Waiting, Failing
<1>3. CASE Next
  BY <1>1, <1>3, AnswerLoss, OrphanedLoss, ReceiveNothingLoss, LinkDropLoss, SendLoss,
     OtherStepsLoss DEF Next
<1> QED
  BY <1>2, <1>3

LEMMA LossInit == Init => LossCounted
<1> SUFFICES ASSUME Init PROVE LossCounted
  OBVIOUS
<1>1. Lost = {} /\ PopOrphans = {}
  BY DEF Init, Lost, PopOrphans, ToSet
<1>2. Base
  BY InitBase
<1>3. Cardinality(Lost) = 0 /\ Cardinality(PopOrphans) = 0
  BY <1>1, FS_EmptySet
<1> QED
  BY <1>2, <1>3, LossTypes DEF LossCounted

\* At most one element is lost for every withdrawal that ends without a reply,
\* so that no consumer loses an element unawares.
THEOREM EveryLossIsReported == Spec => []LossIsReported
<1>1. Base /\ LossCounted => LossIsReported
  <2> SUFFICES ASSUME Base, LossCounted PROVE LossIsReported
    OBVIOUS
  <2>1. Waiting \in SUBSET Failing
    BY DEF Waiting
  <2>2. Cardinality(Waiting) <= Cardinality(Failing)
    BY <2>1, LossTypes, FS_Subset
  <2> QED
    BY <2>2, LossTypes DEF LossCounted, LossIsReported
<1> QED
  BY InitBase, NextBase, LossInit, LossNext, <1>1, PTL DEF Spec

-----------------------------------------------------------------------------
(* Consumers that use brpoplpush() and lrem() what they have received.     *)

\* An element the server has accepted stays on a list until somebody has it.
Kept == ToSet(accepted) \subseteq Stored \cup Received

\* No other consumer pops.
OnlyMoves == PopMethod \subseteq {"brpoplpush"}

LEMMA MovesKeep ==
  ASSUME TypeOK, OnlyMoves, Kept, NEW cmd, Sendable(cmd, Received), NEW r, Carried(cmd, r),
         Received' = Received
  PROVE  Kept'
<1>1. cmd.op \notin Withdrawing \ {"brpoplpush"}
  BY MethodNames DEF Sendable, OnlyMoves
<1>2. /\ ToSet(accepted') \subseteq ToSet(accepted) \cup Stored'
      /\ \A w \in Stored : w \in Stored' \cup Received
  BY <1>1, CarriedElements
<1> QED
  BY <1>2 DEF Kept

LEMMA KeptNext == OnlyMoves /\ Base /\ Kept /\ [Next]_vars => Kept'
<1> SUFFICES ASSUME OnlyMoves, Base, Kept, [Next]_vars PROVE Kept'
  OBVIOUS
<1>1. ASSUME UNCHANGED <<lists, accepted>>, Received \subseteq Received' PROVE Kept'
  <2>1. Stored' = Stored
    BY <1>1 DEF Stored
  <2> QED
    BY <1>1, <2>1 DEF Kept
<1>2. CASE UNCHANGED vars
  BY <1>1, <1>2 DEF vars, serverVars, callerVars, Received
<1>3. ASSUME NEW o \in orphans, Orphaned(o) PROVE Kept'
  <2>1. TypeOK /\ Sendable(o.cmd, Received) /\ Received' = Received
    BY <1>3, OrphanedShape DEF Base, Orphans, callerVars, Received
  <2> QED
    BY <1>1, <1>3, <2>1, OrphanedShape, MovesKeep
<1>4. ASSUME NEW c \in Client, Apply(c) \/ Serve(c) PROVE Kept'
  <2>1. Answer(c) /\ call[c].phase \in {"sent", "waiting"}
    BY <1>4 DEF Apply, Serve
  <2>2. PICK r \in Reply(Text) : Carried(call[c].cmd, r) /\ Answered(c, r)
    BY <2>1, AnswerShape
  <2>3. TypeOK /\ Sendable(call[c].cmd, Received) /\ Received' = Received
    BY <2>1, <2>2, CallTypes DEF Base, InCall, Answered, callerVars, Received
  <2> QED
    BY <2>2, <2>3, MovesKeep
<1>5. ASSUME NEW c \in Client, Receive(c) PROVE Kept'
  <2>1. Return(c, call[c].cmd, call[c].reply) /\ UNCHANGED <<lists, accepted>> /\ InCall(c)
    BY <1>5, CallTypes DEF Receive, serverVars
  <2>2. \A d \in Consumer : ToSet(got[d]) \subseteq ToSet(got'[d])
    <3> SUFFICES ASSUME NEW d \in Consumer PROVE ToSet(got[d]) \subseteq ToSet(got'[d])
      OBVIOUS
    <3>1. got'[d] = IF d = c THEN got[d] \o Handed(call[c].cmd.op, call[c].reply) ELSE got[d]
      BY <2>1, ReturnFields
    <3>2. got[d] \in Seq(Value) /\ (d = c => Handed(call[c].cmd.op, call[c].reply) \in AtMostOne)
      BY <1>5, HeldElements DEF Receive, Cargo
    <3>3. CASE d = c
      <4>1. ToSet(got[d] \o Handed(call[c].cmd.op, call[c].reply))
              = ToSet(got[d]) \cup ToSet(Handed(call[c].cmd.op, call[c].reply))
        BY <3>2, <3>3, ConcatElements
      <4> QED
        BY <3>1, <3>3, <4>1
    <3>4. CASE d # c
      BY <3>1, <3>4
    <3> QED
      BY <3>3, <3>4
  <2>3. Received \subseteq Received'
    BY <2>2 DEF Received
  <2> QED
    BY <1>1, <2>1, <2>3
<1>6. ASSUME NEW c \in Client, ReceiveNothing(c) PROVE Kept'
  BY <1>1, <1>6, ReceiveNothingHeld DEF ReceiveNothing, serverVars, Received
<1>7. ASSUME NEW c \in Client,
             Send(c) \/ FailFast(c) \/ Connect(c) \/ LinkDrop(c) \/ Block(c) \/ Expire(c)
      PROVE  Kept'
  BY <1>1, <1>7, OtherStepsHeld DEF Received
<1> QED
  BY <1>2, <1>3, <1>4, <1>5, <1>6, <1>7 DEF Next

\* When every consumer moves what it takes to the processing list, and takes it off
\* that list only after it has received it, no element is ever lost, whichever
\* connections end and however replies are lost.
THEOREM ProcessingListLosesNothing ==
  ASSUME OnlyMoves
  PROVE  Spec => []NothingLost
<1>1. Init => Kept
  BY DEF Init, Kept, ToSet
<1>2. Base /\ Kept /\ [Next]_vars => Kept'
  BY KeptNext
<1>3. Kept => NothingLost
  BY DEF Kept, NothingLost, Lost
<1> QED
  BY InitBase, NextBase, <1>1, <1>2, <1>3, PTL DEF Spec

-----------------------------------------------------------------------------
(* Elements the server holds twice.                                        *)

\* Pushes the server may still carry out for nobody.
PushOrphans == { o \in orphans : o.cmd.op \in Pushing }

\* v will not be pushed again: its producer knows, or is about to learn, that it
\* is stored.
SafePush(v) ==
  \/ fate[v] = "confirmed"
  \/ \E p \in Producer : /\ call[p].phase = "answered" /\ link[p] = "up"
                         /\ call[p].cmd.value = v
                         /\ Verdict(call[p].cmd.op, call[p].reply)

AtRisk == { v \in ToSet(accepted) : ~SafePush(v) }

\* An element is pushed by one producer at a time.
OnePush ==
  \A p, q \in Producer :
    call[p] # Idle =>
      /\ fate[call[p].cmd.value] = "pushing"
      /\ call[q] # Idle /\ call[p].cmd.value = call[q].cmd.value => p = q

\* Every connection that has ended accounts for one element stored twice, one
\* push on its way, or one stored element whose producer may push it again.
DupCounted ==
  /\ OnePush
  /\ Len(accepted) + Cardinality(PushOrphans) + Cardinality(AtRisk)
       <= drops + Cardinality(ToSet(accepted))

LEMMA DupTypes ==
  ASSUME Base
  PROVE  /\ IsFiniteSet(PushOrphans) /\ Cardinality(PushOrphans) \in Nat
         /\ IsFiniteSet(AtRisk) /\ Cardinality(AtRisk) \in Nat
         /\ IsFiniteSet(ToSet(accepted)) /\ Cardinality(ToSet(accepted)) \in Nat
         /\ Len(accepted) \in Nat /\ drops \in Nat
         /\ ToSet(accepted) \subseteq Value
<1>1. accepted \in Seq(Value) /\ drops \in Nat
  BY QueueAssumption DEF Base, TypeOK
<1>2. IsFiniteSet(ToSet(accepted)) /\ AtRisk \in SUBSET ToSet(accepted)
  BY <1>1, ElementsFinite DEF AtRisk
<1>3. IsFiniteSet(orphans) /\ PushOrphans \in SUBSET orphans
  BY DEF Base, Orphans, PushOrphans
<1>4. IsFiniteSet(PushOrphans) /\ IsFiniteSet(AtRisk)
  BY <1>2, <1>3, FS_Subset
<1> QED
  BY <1>1, <1>2, <1>4, FS_CardinalityType, ElementsOfSeq

\* What a producer in a call pushes.
LEMMA PushedValue ==
  ASSUME Base, NEW c \in Client, call[c] # Idle
  PROVE  /\ InCall(c)
         /\ c \in Producer <=> call[c].cmd.op \in Pushing
         /\ c \in Producer => call[c].cmd.value \in Value
<1>1. InCall(c)
  BY CallTypes
<1>2. c \in Producer <=> call[c].cmd.op \in Pushing
  BY <1>1 DEF InCall
<1>3. call[c].cmd.op \in Pushing => call[c].cmd.value \in Value
  BY <1>1, MethodNames DEF InCall, Sendable
<1> QED
  BY <1>1, <1>2, <1>3

SafeStays == \A w \in Value : SafePush(w) => SafePush(w)'

\* A call of c ends; its producer has not learnt less than it was told.
LEMMA ReturnSafe ==
  ASSUME Base, OnePush, NEW c \in Client, call[c] # Idle, NEW r, Return(c, call[c].cmd, r),
         \A d \in Client : d # c => link'[d] = link[d],
         link[c] = "up" => r = call[c].reply
  PROVE  OnePush' /\ SafeStays
<1> DEFINE v == call[c].cmd.value
<1>1. /\ InCall(c)
      /\ c \in Producer <=> call[c].cmd.op \in Pushing
      /\ c \in Producer => v \in Value
  BY PushedValue
<1>2. /\ call'[c] = Idle
      /\ \A d \in Client : d # c => call'[d] = call[d]
  BY ReturnFields
<1>3. CASE c \notin Producer
  <2>1. fate' = fate
    BY <1>1, <1>3 DEF Return
  <2>2. \A p \in Producer : call'[p] = call[p] /\ link'[p] = link[p]
    BY <1>2, <1>3 DEF Client
  <2>3. OnePush'
    BY <2>1, <2>2 DEF OnePush
  <2>4. SafeStays
    BY <2>1, <2>2 DEF SafeStays, SafePush
  <2> QED
    BY <2>3, <2>4
<1>4. CASE c \in Producer
  <2>1. fate[v] = "pushing" /\ v \in Value
    BY <1>1, <1>4 DEF OnePush
  <2>2. \A p \in Producer : call[p] # Idle /\ call[p].cmd.value = v => p = c
    BY <1>4 DEF OnePush
  <2>3. fate' = [fate EXCEPT ![v] = Told(call[c].cmd, r)]
    BY <1>1, <1>4 DEF Return
  <2>4. (\A w \in Value : w # v => fate'[w] = fate[w]) /\ fate'[v] = Told(call[c].cmd, r)
    BY <2>1, <2>3 DEF Base, TypeOK
  <2>5. \A p \in Producer : p # c => p \in Client /\ call'[p] = call[p] /\ link'[p] = link[p]
    BY <1>2 DEF Client
  <2>6. OnePush'
    <3> SUFFICES ASSUME NEW p \in Producer, NEW q \in Producer, call'[p] # Idle
                 PROVE  /\ fate'[call'[p].cmd.value] = "pushing"
                        /\ call'[q] # Idle /\ call'[p].cmd.value = call'[q].cmd.value => p = q
      BY DEF OnePush
    <3>1. p # c /\ call'[p] = call[p] /\ p \in Client
      BY <1>2, <2>5
    <3>2. call[p].cmd.value \in Value /\ call[p].cmd.value # v
      BY <2>2, <3>1, PushedValue
    <3>3. fate'[call[p].cmd.value] = "pushing"
      BY <2>4, <3>1, <3>2 DEF OnePush
    <3>4. call'[q] # Idle => q # c /\ call'[q] = call[q]
      BY <1>2, <2>5
    <3> QED
      BY <3>1, <3>3, <3>4 DEF OnePush
  <2>7. SafeStays
    <3> SUFFICES ASSUME NEW w \in Value, SafePush(w) PROVE SafePush(w)'
      BY DEF SafeStays
    <3>1. CASE w # v
      <4>1. CASE fate[w] = "confirmed"
        BY <2>4, <3>1, <4>1 DEF SafePush
      <4>2. ASSUME NEW p \in Producer, call[p].phase = "answered", link[p] = "up",
                   call[p].cmd.value = w, Verdict(call[p].cmd.op, call[p].reply)
            PROVE  SafePush(w)'
        BY <2>5, <3>1, <4>2 DEF SafePush
      <4> QED
        BY <4>1, <4>2 DEF SafePush
    <3>2. CASE w = v
      <4>1. PICK p \in Producer : /\ call[p].phase = "answered" /\ link[p] = "up"
                                  /\ call[p].cmd.value = v
                                  /\ Verdict(call[p].cmd.op, call[p].reply)
        BY <2>1, <3>2 DEF SafePush
      <4>2. p = c
        BY <2>2, <4>1, IdleFields
      <4>3. Told(call[c].cmd, r) = "confirmed"
        BY <4>1, <4>2 DEF Told
      <4> QED
        BY <2>4, <3>2, <4>3 DEF SafePush
    <3> QED
      BY <3>1, <3>2
  <2> QED
    BY <2>6, <2>7
<1> QED
  BY <1>3, <1>4

\* A producer turns to an element that is fresh, or that it was denied: no other
\* producer pushes it and nobody knows it to be stored.
LEMMA FreshIsUnsafe ==
  ASSUME Base, OnePush, NEW v \in Value, fate[v] \in Pushable
  PROVE  ~SafePush(v) /\ \A p \in Producer : call[p] # Idle => call[p].cmd.value # v
<1>1. fate[v] # "pushing" /\ fate[v] # "confirmed"
  BY DEF Pushable
<1>2. \A p \in Producer : call[p] # Idle => call[p].cmd.value # v
  BY <1>1 DEF OnePush
<1>3. \A p \in Producer : call[p].phase = "answered" => call[p] # Idle
  BY IdleFields
<1> QED
  BY <1>1, <1>2, <1>3 DEF SafePush

LEMMA SendSafe ==
  ASSUME Base, OnePush, NEW c \in Client, Send(c)
  PROVE  OnePush' /\ SafeStays
<1>1. PICK cmd \in Pushes(c) \cup Withdrawals(c) :
           /\ Sendable(cmd, Received)
           /\ c \in Producer <=> cmd.op \in Pushing
           /\ cmd.op \in Pushing => fate[cmd.value] \in Pushable
           /\ call' = [d \in Client |->
                        IF d = c THEN [cmd |-> cmd, phase |-> "sent", reply |-> NullReply]
                                 ELSE call[d]]
           /\ fate' = IF cmd.op \in Pushing THEN [fate EXCEPT ![cmd.value] = "pushing"] ELSE fate
  BY SendShape, Zenon
<1>2. link' = link /\ call[c] = Idle
  BY SendShape
<1>3. call'[c].cmd = cmd /\ \A d \in Client : d # c => call'[d] = call[d]
  BY <1>1
<1>4. \A p \in Producer : p \in Client /\ (p # c => call'[p] = call[p])
  BY <1>3 DEF Client
<1>5. CASE c \notin Producer
  <2>1. fate' = fate /\ \A p \in Producer : call'[p] = call[p]
    BY <1>1, <1>4, <1>5
  <2> QED
    BY <1>2, <2>1 DEF OnePush, SafeStays, SafePush
<1>6. CASE c \in Producer
  <2> DEFINE v == cmd.value
  <2>1. v \in Value /\ fate[v] \in Pushable /\ fate' = [fate EXCEPT ![v] = "pushing"]
    BY <1>1, <1>6, MethodNames DEF Sendable
  <2> HIDE DEF v
  <2>2. (\A w \in Value : w # v => fate'[w] = fate[w]) /\ fate'[v] = "pushing"
    BY <2>1 DEF Base, TypeOK
  <2>3. ~SafePush(v) /\ \A p \in Producer : call[p] # Idle => call[p].cmd.value # v
    BY <2>1, FreshIsUnsafe
  <2>4. OnePush'
    <3> SUFFICES ASSUME NEW p \in Producer, NEW q \in Producer, call'[p] # Idle
                 PROVE  /\ fate'[call'[p].cmd.value] = "pushing"
                        /\ call'[q] # Idle /\ call'[p].cmd.value = call'[q].cmd.value => p = q
      BY DEF OnePush
    <3>1. \A a \in Producer : a # c /\ call'[a] # Idle =>
             /\ call'[a] = call[a] /\ call[a].cmd.value # v /\ call[a].cmd.value \in Value
             /\ fate[call[a].cmd.value] = "pushing"
      BY <1>4, <2>3, PushedValue DEF OnePush
    <3>2. call'[c].cmd.value = v
      BY <1>3 DEF v
    <3>3. fate'[call'[p].cmd.value] = "pushing"
      BY <2>2, <3>1, <3>2
    <3>4. call'[q] # Idle /\ call'[p].cmd.value = call'[q].cmd.value => p = q
      BY <3>1, <3>2 DEF OnePush
    <3> QED
      BY <3>3, <3>4
  <2>5. SafeStays
    <3> SUFFICES ASSUME NEW w \in Value, SafePush(w) PROVE SafePush(w)'
      BY DEF SafeStays
    <3>1. w # v /\ fate'[w] = fate[w]
      BY <2>2, <2>3
    <3>2. \A p \in Producer : call[p].phase = "answered" => call'[p] = call[p]
      BY <1>2, <1>4, IdleFields
    <3> QED
      BY <1>2, <3>1, <3>2 DEF SafePush
  <2> QED
    BY <2>4, <2>5
<1> QED
  BY <1>5, <1>6

LEMMA FailFastSafe ==
  ASSUME Base, OnePush, NEW c \in Client, FailFast(c)
  PROVE  OnePush' /\ SafeStays
<1>1. PICK cmd \in Pushes(c) \cup Withdrawals(c) :
           /\ Sendable(cmd, Received)
           /\ cmd.op \in Pushing => fate[cmd.value] \in Pushable
           /\ fate' = IF cmd.op \in Pushing THEN [fate EXCEPT ![cmd.value] = "denied"] ELSE fate
  BY FailFastShape, Zenon
<1>2. link' = link /\ call' = call
  BY FailFastShape
<1>3. CASE fate' = fate
  BY <1>2, <1>3 DEF OnePush, SafeStays, SafePush
<1>4. CASE cmd.op \in Pushing
  <2> DEFINE v == cmd.value
  <2>1. v \in Value /\ fate[v] \in Pushable /\ fate' = [fate EXCEPT ![v] = "denied"]
    BY <1>1, <1>4, MethodNames DEF Sendable
  <2> HIDE DEF v
  <2>2. \A w \in Value : w # v => fate'[w] = fate[w]
    BY <2>1 DEF Base, TypeOK
  <2>3. ~SafePush(v) /\ \A p \in Producer : call[p] # Idle => call[p].cmd.value # v
    BY <2>1, FreshIsUnsafe
  <2>4. \A p \in Producer : call[p] # Idle => fate'[call[p].cmd.value] = fate[call[p].cmd.value]
    BY <2>2, <2>3, PushedValue DEF Client
  <2>5. OnePush'
    BY <1>2, <2>4 DEF OnePush
  <2>6. SafeStays
    BY <1>2, <2>2, <2>3 DEF SafeStays, SafePush
  <2> QED
    BY <2>5, <2>6
<1> QED
  BY <1>1, <1>3, <1>4

\* The steps that touch no producer's call, or only its phase.
LEMMA OtherStepsSafe ==
  ASSUME Base, OnePush, NEW c \in Client, Connect(c) \/ Block(c) \/ Expire(c)
  PROVE  OnePush' /\ SafeStays
<1>1. fate' = fate /\ \A p \in Producer : link[p] = "up" => link'[p] = "up"
  <2>1. CASE Connect(c)
    BY <2>1, CallTypes DEF Connect, callerVars, Client
  <2>2. CASE Block(c) \/ Expire(c)
    BY <2>2, PhaseShape
  <2> QED
    BY <2>1, <2>2
<1>2. \A p \in Producer : call'[p] = call[p]
  <2>1. CASE Connect(c)
    BY <2>1 DEF Connect
  <2>2. CASE Block(c) \/ Expire(c)
    <3>1. c \notin Producer
      BY <2>2, PhaseShape, MethodNames DEF InCall
    <3>2. \A d \in Client : d # c => call'[d] = call[d]
      BY <2>2, PhaseShape DEF PhaseOnly
    <3> QED
      BY <3>1, <3>2 DEF Client
  <2> QED
    BY <2>1, <2>2
<1> QED
  BY <1>1, <1>2 DEF OnePush, SafeStays, SafePush

\* Steps in which nothing is stored and no connection ends.
LEMMA DupStays ==
  ASSUME Base, DupCounted, OnePush', SafeStays, accepted' = accepted, drops' = drops,
         PushOrphans' \in SUBSET PushOrphans
  PROVE  DupCounted'
<1>1. AtRisk' \in SUBSET AtRisk
  BY DupTypes DEF AtRisk, SafeStays
<1>2. Cardinality(AtRisk') <= Cardinality(AtRisk) /\ Cardinality(AtRisk') \in Nat
  BY <1>1, DupTypes, CountUp
<1>3. Cardinality(PushOrphans') <= Cardinality(PushOrphans) /\ Cardinality(PushOrphans') \in Nat
  BY DupTypes, CountUp
<1> QED
  BY <1>2, <1>3, DupTypes DEF DupCounted

\* An element is stored: once more, or for the first time.
LEMMA StoredAgain ==
  ASSUME Base, NEW cmd, NEW r, Stores(cmd, r)
  PROVE  /\ ToSet(accepted') = ToSet(accepted) \cup {cmd.value}
         /\ Len(accepted') = Len(accepted) + 1
         /\ cmd.value \in ToSet(accepted)
              => Cardinality(ToSet(accepted')) = Cardinality(ToSet(accepted))
         /\ cmd.value \notin ToSet(accepted)
              => Cardinality(ToSet(accepted')) = Cardinality(ToSet(accepted)) + 1
<1>1. ToSet(accepted') = ToSet(accepted) \cup {cmd.value} /\ Len(accepted') = Len(accepted) + 1
  BY AppendElements DEF Stores, Base, TypeOK
<1>2. cmd.value \notin ToSet(accepted)
        => Cardinality(ToSet(accepted')) = Cardinality(ToSet(accepted)) + 1
  BY <1>1, DupTypes, CountUp
<1>3. cmd.value \in ToSet(accepted) => ToSet(accepted') = ToSet(accepted)
  BY <1>1
<1> QED
  BY <1>1, <1>2, <1>3, Zenon

LEMMA AnswerDup ==
  ASSUME Base, DupCounted, NEW c \in Client, Apply(c) \/ Serve(c)
  PROVE  DupCounted'
<1>1. Answer(c) /\ call[c].phase \in {"sent", "waiting"} /\ link[c] = "up"
  BY DEF Apply, Serve
<1>2. PICK r \in Reply(Text) : Carried(call[c].cmd, r) /\ Answered(c, r)
  BY <1>1, AnswerShape
<1>3. /\ UNCHANGED <<orphans, link, fate, drops>>
      /\ call'[c] = [cmd |-> call[c].cmd, reply |-> r, phase |-> "answered"]
      /\ \A d \in Client : d # c => call'[d] = call[d]
  BY <1>2 DEF Answered, callerVars
<1>4. call[c] # Idle /\ PushOrphans' = PushOrphans
  BY <1>1, <1>3, IdleFields DEF PushOrphans
<1>5. OnePush'
  <2>1. \A p \in Producer : call'[p].cmd = call[p].cmd /\ (call'[p] # Idle => call[p] # Idle)
    BY <1>3, <1>4 DEF Client
  <2> QED
    BY <1>3, <2>1 DEF OnePush, DupCounted
<1>6. SafeStays
  <2>1. \A p \in Producer : call[p].phase = "answered" => call'[p] = call[p]
    BY <1>1, <1>3 DEF Client
  <2> QED
    BY <1>3, <2>1 DEF SafeStays, SafePush
<1>7. CASE accepted' = accepted
  BY <1>3, <1>4, <1>5, <1>6, <1>7, DupStays
<1>8. CASE Stores(call[c].cmd, r)
  <2>1. c \in Producer /\ call[c].cmd.value \in Value
    BY <1>4, <1>8, PushedValue DEF Stores
  <2> PICK v \in Value : v = call[c].cmd.value
    BY <2>1
  <2>2. SafePush(v)'
    <3>1. /\ call'[c].phase = "answered" /\ call'[c].cmd = call[c].cmd /\ call'[c].reply = r
          /\ link'[c] = "up" /\ Verdict(call[c].cmd.op, r)
      BY <1>1, <1>3, <1>8 DEF Stores
    <3> QED
      BY <2>1, <3>1 DEF SafePush
  <2>3. ~SafePush(v)
    <3>1. fate[v] = "pushing" /\ \A p \in Producer : call[p] # Idle /\ call[p].cmd.value = v => p = c
      BY <1>4, <2>1 DEF DupCounted, OnePush
    <3>2. \A p \in Producer : call[p].phase = "answered" => call[p] # Idle /\ p # c
      BY <1>1, IdleFields
    <3> QED
      BY <3>1, <3>2 DEF SafePush
  <2>4. /\ ToSet(accepted') = ToSet(accepted) \cup {v}
        /\ Len(accepted') = Len(accepted) + 1
        /\ v \in ToSet(accepted)
             => Cardinality(ToSet(accepted')) = Cardinality(ToSet(accepted))
        /\ v \notin ToSet(accepted)
             => Cardinality(ToSet(accepted')) = Cardinality(ToSet(accepted)) + 1
    BY <1>8, StoredAgain
  <2>5. AtRisk' \subseteq AtRisk \ {v}
    <3> SUFFICES ASSUME NEW w \in AtRisk' PROVE w \in AtRisk /\ w # v
      OBVIOUS
    <3>1. w \in ToSet(accepted') /\ ~SafePush(w)'
      BY DEF AtRisk
    <3>2. w # v
      BY <2>2, <3>1
    <3>3. w \in ToSet(accepted) /\ w \in Value
      BY <2>4, <3>1, <3>2, DupTypes
    <3>4. ~SafePush(w)
      BY <1>6, <3>1, <3>3 DEF SafeStays
    <3> QED
      BY <3>2, <3>3, <3>4 DEF AtRisk
  <2>6. CASE v \in ToSet(accepted)
    <3>1. v \in AtRisk
      BY <2>3, <2>6 DEF AtRisk
    <3> DEFINE Less == AtRisk \ {v}
    <3>2. IsFiniteSet(Less) /\ Cardinality(Less) + 1 = Cardinality(AtRisk) /\ Cardinality(Less) \in Nat
      BY <3>1, DupTypes, CountDown
    <3>3. Cardinality(AtRisk') <= Cardinality(Less) /\ Cardinality(AtRisk') \in Nat
      <4>1. AtRisk' \in SUBSET Less
        BY <2>5
      <4> HIDE DEF Less
      <4> QED
        BY <3>2, <4>1, CountUp
    <3> HIDE DEF Less
    <3> QED
      <4>1. /\ Cardinality(AtRisk') + 1 <= Cardinality(AtRisk)
            /\ Cardinality(PushOrphans') = Cardinality(PushOrphans)
        BY <1>4, <3>2, <3>3, DupTypes
      <4> QED
        BY <1>3, <1>5, <2>4, <2>6, <3>3, <4>1, DupTypes DEF DupCounted
  <2>7. CASE v \notin ToSet(accepted)
    <3>1. Cardinality(AtRisk') <= Cardinality(AtRisk) /\ Cardinality(AtRisk') \in Nat
      <4>1. AtRisk' \in SUBSET AtRisk
        BY <2>5
      <4> QED
        BY <4>1, DupTypes, CountUp
    <3> QED
      BY <1>3, <1>4, <1>5, <2>4, <2>7, <3>1, DupTypes DEF DupCounted
  <2> QED
    BY <2>6, <2>7
<1> QED
  BY <1>2, <1>7, <1>8 DEF Carried, Refuses, Clears, Takes

LEMMA SumOfStep ==
  ASSUME NEW n \in Nat, NEW po \in Nat, NEW ar \in Nat, NEW d \in Nat, NEW sa \in Nat,
         NEW pp \in Nat, NEW aa \in Nat, n + po + ar <= d + sa, pp + 1 = po, aa <= ar + 1
  PROVE  (n + 1) + pp + aa <= d + (sa + 1)
OBVIOUS

LEMMA OrphanedDup ==
  ASSUME Base, DupCounted, NEW o \in orphans, Orphaned(o)
  PROVE  DupCounted'
<1>1. orphans' = orphans \ {o} /\ UNCHANGED <<call, link, fate, drops>>
  BY OrphanedShape DEF callerVars
<1>2. OnePush' /\ SafeStays
  BY <1>1 DEF DupCounted, OnePush, SafeStays, SafePush
<1>3. CASE accepted' = accepted
  <2>1. PushOrphans' \in SUBSET PushOrphans
    BY <1>1 DEF PushOrphans
  <2> QED
    BY <1>1, <1>2, <1>3, <2>1, DupStays
<1>4. ASSUME NEW r, Stores(o.cmd, r) PROVE DupCounted'
  <2> DEFINE v == o.cmd.value
  <2>1. o \in PushOrphans /\ PushOrphans' = PushOrphans \ {o}
    BY <1>1, <1>4 DEF PushOrphans, Stores
  <2>2. Cardinality(PushOrphans') + 1 = Cardinality(PushOrphans) /\ Cardinality(PushOrphans') \in Nat
    BY <2>1, DupTypes, CountDown
  <2>3. /\ ToSet(accepted') = ToSet(accepted) \cup {v}
        /\ Len(accepted') = Len(accepted) + 1
        /\ v \in ToSet(accepted)
             => Cardinality(ToSet(accepted')) = Cardinality(ToSet(accepted))
        /\ v \notin ToSet(accepted)
             => Cardinality(ToSet(accepted')) = Cardinality(ToSet(accepted)) + 1
    BY <1>4, StoredAgain
  <2> HIDE DEF v
  <2>4. AtRisk' \subseteq AtRisk \cup {v} /\ (v \in ToSet(accepted) => AtRisk' \subseteq AtRisk)
    BY <1>2, <2>3, DupTypes DEF AtRisk, SafeStays
  <2>5. /\ Cardinality(AtRisk') <= Cardinality(AtRisk) + 1 /\ Cardinality(AtRisk') \in Nat
        /\ v \in ToSet(accepted) => Cardinality(AtRisk') <= Cardinality(AtRisk)
    <3>1. AtRisk' \in SUBSET (AtRisk \cup {v})
      BY <2>4
    <3> QED
      BY <2>4, <3>1, DupTypes, CountUp
  <2>6. CASE v \in ToSet(accepted)
    BY <1>1, <1>2, <2>2, <2>3, <2>5, <2>6, DupTypes, SMTT(20) DEF DupCounted
  <2>7. CASE v \notin ToSet(accepted)
    <3>1. /\ Cardinality(ToSet(accepted')) = Cardinality(ToSet(accepted)) + 1
          /\ Len(accepted') = Len(accepted) + 1
      BY <2>3, <2>7
    <3> DEFINE po == Cardinality(PushOrphans)
               ar == Cardinality(AtRisk)
               sa == Cardinality(ToSet(accepted))
               n  == Len(accepted)
    <3>2. /\ n + po + ar <= drops + sa
          /\ n \in Nat /\ po \in Nat /\ ar \in Nat /\ sa \in Nat /\ drops \in Nat
      BY DupTypes DEF DupCounted
    <3>3. /\ n' = n + 1 /\ sa' = sa + 1 /\ drops' = drops
          /\ po' + 1 = po /\ po' \in Nat /\ ar' <= ar + 1 /\ ar' \in Nat
      BY <1>1, <2>2, <2>5, <3>1
    <3> HIDE DEF po, ar, sa, n
    <3>4. n' + po' + ar' <= drops' + sa'
      BY <3>2, <3>3, SumOfStep
    <3> QED
      BY <1>2, <3>4 DEF DupCounted, po, ar, sa, n
  <2> QED
    BY <2>6, <2>7
<1> QED
  BY <1>3, <1>4, OrphanedShape DEF Carried, Refuses, Clears, Takes

LEMMA LinkDropDup ==
  ASSUME Base, DupCounted, NEW c \in Client, LinkDrop(c)
  PROVE  DupCounted'
<1>1. /\ UNCHANGED <<accepted, call, fate>> /\ drops' = drops + 1
      /\ \A d \in Client : d # c => link'[d] = link[d]
  BY CallTypes, LinkDropShape
<1>2. OnePush'
  BY <1>1 DEF DupCounted, OnePush
<1> DEFINE v == call[c].cmd.value
<1>3. ASSUME NEW w, SafePush(w), w # v \/ call[c].phase # "answered" PROVE SafePush(w)'
  <2>1. CASE fate[w] = "confirmed"
    BY <1>1, <2>1 DEF SafePush
  <2>2. ASSUME NEW p \in Producer, call[p].phase = "answered", link[p] = "up",
               call[p].cmd.value = w, Verdict(call[p].cmd.op, call[p].reply)
        PROVE  SafePush(w)'
    <3>1. p # c /\ link'[p] = "up"
      BY <1>1, <1>3, <2>2 DEF Client
    <3> QED
      BY <1>1, <2>2, <3>1 DEF SafePush
  <2> QED
    BY <1>3, <2>1, <2>2 DEF SafePush
<1>4. AtRisk' \subseteq AtRisk \cup {v} /\ (call[c].phase # "answered" => AtRisk' \subseteq AtRisk)
  <2> HIDE DEF v
  <2> QED
    BY <1>1, <1>3 DEF AtRisk
<1>5. /\ Cardinality(AtRisk') <= Cardinality(AtRisk) + 1 /\ Cardinality(AtRisk') \in Nat
      /\ call[c].phase # "answered" => Cardinality(AtRisk') <= Cardinality(AtRisk)
  <2>1. AtRisk' \in SUBSET (AtRisk \cup {v})
    BY <1>4
  <2> HIDE DEF v
  <2> QED
    BY <1>4, <2>1, DupTypes, CountUp
<1> HIDE DEF v
<1>6. /\ Cardinality(PushOrphans') <= Cardinality(PushOrphans) + 1
      /\ Cardinality(PushOrphans') \in Nat
      /\ call[c].phase = "answered" => Cardinality(PushOrphans') <= Cardinality(PushOrphans)
  <2> DEFINE o == [cmd |-> call[c].cmd, n |-> drops]
  <2>1. \/ orphans' = orphans
        \/ call[c].phase \in {"sent", "waiting"} /\ orphans' = orphans \cup {o}
    BY LinkDropShape
  <2> HIDE DEF o
  <2>2. /\ PushOrphans' \in SUBSET (PushOrphans \cup {o})
        /\ call[c].phase = "answered" => PushOrphans' \subseteq PushOrphans
    BY <2>1 DEF PushOrphans
  <2> QED
    BY <2>2, DupTypes, CountUp
<1>7. Len(accepted') = Len(accepted) /\ ToSet(accepted') = ToSet(accepted)
  BY <1>1
<1>8. Cardinality(ToSet(accepted')) = Cardinality(ToSet(accepted))
  BY <1>7, Zenon
<1>9. Cardinality(PushOrphans') + Cardinality(AtRisk')
        <= Cardinality(PushOrphans) + Cardinality(AtRisk) + 1
  <2>1. /\ Cardinality(PushOrphans) \in Nat /\ Cardinality(AtRisk) \in Nat
        /\ Cardinality(PushOrphans') \in Nat /\ Cardinality(AtRisk') \in Nat
    BY <1>5, <1>6, DupTypes
  <2>2. CASE call[c].phase = "answered"
    BY <1>5, <1>6, <2>1, <2>2
  <2>3. CASE call[c].phase # "answered"
    BY <1>5, <1>6, <2>1, <2>3
  <2> QED
    BY <2>2, <2>3
<1>10. Len(accepted) + Cardinality(PushOrphans) + Cardinality(AtRisk)
         <= drops + Cardinality(ToSet(accepted))
  BY DEF DupCounted
<1>11. Len(accepted') + Cardinality(PushOrphans') + Cardinality(AtRisk')
         <= drops' + Cardinality(ToSet(accepted'))
  <2>1. /\ Cardinality(PushOrphans') \in Nat /\ Cardinality(AtRisk') \in Nat
        /\ Cardinality(ToSet(accepted)) \in Nat /\ Len(accepted) \in Nat /\ drops \in Nat
        /\ Cardinality(PushOrphans) \in Nat /\ Cardinality(AtRisk) \in Nat
    BY <1>5, <1>6, DupTypes
  <2>2. Len(accepted') = Len(accepted) /\ drops' = drops + 1
    BY <1>1, <1>7
  <2> QED
    BY <1>8, <1>9, <1>10, <2>1, <2>2, SMTT(20)
<1> QED
  BY <1>2, <1>11 DEF DupCounted

LEMMA DupNext == Base /\ DupCounted /\ [Next]_vars => DupCounted'
<1> SUFFICES ASSUME Base, DupCounted, [Next]_vars PROVE DupCounted'
  OBVIOUS
<1>0. OnePush
  BY DEF DupCounted
<1>1. CASE UNCHANGED vars
  BY <1>1 DEF vars, serverVars, callerVars, DupCounted, OnePush, PushOrphans, AtRisk, SafePush
<1>2. ASSUME NEW o \in orphans, Orphaned(o) PROVE DupCounted'
  BY <1>2, OrphanedDup
<1>3. ASSUME NEW c \in Client, Apply(c) \/ Serve(c) PROVE DupCounted'
  BY <1>3, AnswerDup
<1>4. ASSUME NEW c \in Client, LinkDrop(c) PROVE DupCounted'
  BY <1>4, LinkDropDup
<1>5. ASSUME NEW c \in Client, Receive(c) \/ ReceiveNothing(c) PROVE DupCounted'
  <2>1. CASE Receive(c)
    <3>1. /\ Return(c, call[c].cmd, call[c].reply) /\ call[c] # Idle
          /\ UNCHANGED <<accepted, orphans, link, drops>>
      BY <2>1, IdleFields DEF Receive, serverVars
    <3>2. OnePush' /\ SafeStays
      BY <1>0, <3>1, ReturnSafe
    <3>3. PushOrphans' = PushOrphans
      BY <3>1 DEF PushOrphans
    <3> QED
      BY <3>1, <3>2, <3>3, DupStays
  <2>2. CASE ReceiveNothing(c)
    <3>1. /\ Return(c, call[c].cmd, NullReply) /\ call[c] # Idle /\ link[c] = "down"
          /\ UNCHANGED <<accepted, orphans, drops>>
          /\ \A d \in Client : d # c => link'[d] = link[d]
      BY <2>2, CallTypes DEF ReceiveNothing, serverVars
    <3>2. OnePush' /\ SafeStays
      BY <1>0, <3>1, ReturnSafe
    <3>3. PushOrphans' = PushOrphans
      BY <3>1 DEF PushOrphans
    <3> QED
      BY <3>1, <3>2, <3>3, DupStays
  <2> QED
    BY <1>5, <2>1, <2>2
<1>6. ASSUME NEW c \in Client,
             Send(c) \/ FailFast(c) \/ Connect(c) \/ Block(c) \/ Expire(c)
      PROVE  DupCounted'
  <2>1. OnePush' /\ SafeStays
    BY <1>0, <1>6, SendSafe, FailFastSafe, OtherStepsSafe
  <2>2. UNCHANGED <<accepted, orphans, drops>>
    BY <1>6, SendShape, FailFastShape, PhaseShape DEF Connect, serverVars
  <2>3. PushOrphans' = PushOrphans
    BY <2>2 DEF PushOrphans
  <2> QED
    BY <2>1, <2>2, <2>3, DupStays
<1> QED
  BY <1>1, <1>2, <1>3, <1>4, <1>5, <1>6 DEF Next

LEMMA DupInit == Init => DupCounted
<1> SUFFICES ASSUME Init PROVE DupCounted
  OBVIOUS
<1>1. OnePush
  BY DEF Init, OnePush, Client
<1>2. PushOrphans = {} /\ AtRisk = {} /\ ToSet(accepted) = {} /\ Len(accepted) = 0
  BY DEF Init, PushOrphans, AtRisk, ToSet
<1>3. drops = 0
  BY DEF Init
<1> QED
  BY <1>1, <1>2, <1>3, FS_EmptySet DEF DupCounted

\* Producers that push again what they were denied, and only that, make the server
\* hold no more elements twice than connections have ended.
THEOREM EveryDuplicateIsReported == Spec => []DuplicatesAreReported
<1>1. Base /\ DupCounted => DuplicatesAreReported
  BY DupTypes DEF DupCounted, DuplicatesAreReported
<1> QED
  BY InitBase, NextBase, DupInit, DupNext, <1>1, PTL DEF Spec

=============================================================================
