---------------------------- MODULE RedisStoreProofs ----------------------------
(***************************************************************************)
(* Proofs about RedisStore, for any clients, keys, texts, requests and     *)
(* databases: that a method tells its caller the truth about whether the   *)
(* server has done what it asked, that keys, replies and the callers'      *)
(* variables are of their types, and that a call that fails leaves its     *)
(* caller's variables as they were.                                        *)
(***************************************************************************)
EXTENDS RedisStore, FiniteSetTheorems, SequenceTheorems, WellFoundedInduction, TLAPS

-----------------------------------------------------------------------------
(* What getError() and the decoders make of replies.                       *)

LEMMA GoodReplies ==
  /\ \A i : PlainResult(IntegerReply(i)) /\ IntegerReply(i).integer = i
  /\ \A t : /\ PlainResult(StatusReply(t)) /\ StatusReply(t).type = "STATUS"
            /\ BoolResult(StatusReply(t)) /\ PlainResult(StringReply(t))
  /\ BoolResult(IntegerReply(1))
BY DEF PlainResult, BoolResult, Failed, ReplyError, SetError, IntegerReply, StatusReply,
   StringReply, TextReply

LEMMA BadReplies ==
  /\ ~PlainResult(NullReply) /\ ~BoolResult(NullReply)
  /\ ReplyError(NullReply).code = "REDIS_REPLY_NULL"
  /\ ~PlainResult(NilReply) /\ ~BoolResult(NilReply)
  /\ ReplyError(NilReply).code = "REDIS_NIL"
  /\ \A t : ~PlainResult(ErrorReply(t)) /\ ~BoolResult(ErrorReply(t))
BY DEF PlainResult, BoolResult, Failed, ReplyError, SetError, NullReply, NilReply, ErrorReply,
   TextReply

\* No method but mset() succeeds on a reply that is an error, NIL or none at all.
LEMMA VerdictNeedsReply ==
  ASSUME NEW op, op # "mset", NEW r, ~PlainResult(r), ~BoolResult(r)
  PROVE  ~Verdict(op, r)
BY DEF Verdict, StringVerdict, ListVerdict, HashVerdict

LEMMA ToldWithoutReply ==
  ASSUME NEW op
  PROVE  /\ Told(op, NullReply) \in {"unknown", "swallowed"}
         /\ Told(op, NilReply) \in {"nil", "swallowed"}
         /\ \A t : Told(op, ErrorReply(t)) # "confirmed"
<1>1. CASE op = "mset"
  BY <1>1, BadReplies DEF Told, PlainResult
<1>2. CASE op # "mset"
  BY <1>2, BadReplies, VerdictNeedsReply DEF Told
<1> QED
  BY <1>1, <1>2

LEMMA ToldType ==
  ASSUME NEW op, NEW r
  PROVE  Told(op, r) \in {"confirmed", "swallowed", "unknown", "nil", "denied"}
BY DEF Told

-----------------------------------------------------------------------------
(* What commands make of a database.                                       *)

\* A key's entry, whose list is one.
Entered(e) ==
  /\ DOMAIN e = {"type", "str", "list", "hash", "volatile"}
  /\ \E S : e.list \in Seq(S)

Lists(d) == d = [k \in Key |-> d[k]] /\ \A k \in Key : Entered(d[k])

\* An outcome of a command of op on d: the keys are well-formed, and a change
\* comes with a reply that the method does not take for a denial.
Admitted(d, op, s) ==
  /\ Lists(s.db)
  /\ s.db = d \/ Told(op, s.reply) # "denied"

LEMMA NewEntries ==
  /\ Entered(Absent)
  /\ \A t : Entered(String(t)) /\ Entered(Volatile(String(t)))
<1>1. <<>> \in Seq({})
  OBVIOUS
<1>2. ASSUME NEW e, e.list = <<>>, DOMAIN e = {"type", "str", "list", "hash", "volatile"}
      PROVE  Entered(e)
  BY <1>1, <1>2, Zenon DEF Entered
<1>3. \A t : Absent.list = <<>> /\ String(t).list = <<>> /\ Volatile(String(t)).list = <<>>
  BY DEF Absent, String, Volatile, Entry
<1>4. \A t : DOMAIN Absent = DOMAIN String(t) /\ DOMAIN Volatile(String(t)) = DOMAIN String(t)
            /\ DOMAIN String(t) = {"type", "str", "list", "hash", "volatile"}
  BY DEF Absent, String, Volatile, Entry
<1> QED
  BY <1>2, <1>3, <1>4

LEMMA ChangedEntries ==
  ASSUME NEW e, Entered(e)
  PROVE  /\ Entered(Volatile(e)) /\ Entered(Lasting(e))
         /\ \A t : Entered([e EXCEPT !.type = "string", !.str = t])
         /\ \A h : Entered(Rehashed(e, h))
         /\ \A l, S : l \in Seq(S) => Entered(Relisted(e, l))
<1>1. DOMAIN e = {"type", "str", "list", "hash", "volatile"}
  BY DEF Entered
<1>2. PICK S : e.list \in Seq(S)
  BY Zenon DEF Entered
<1>3. ASSUME NEW f, DOMAIN f = DOMAIN e, f.list = e.list
      PROVE  Entered(f)
  BY <1>1, <1>2, <1>3, Zenon DEF Entered
<1>4. ASSUME NEW t, NEW h
      PROVE  /\ Entered(Volatile(e)) /\ Entered(Lasting(e))
             /\ Entered([e EXCEPT !.type = "string", !.str = t])
             /\ Entered([e EXCEPT !.type = "hash", !.hash = h])
  <2> HIDE DEF Entered
  <2> QED
    BY <1>1, <1>3 DEF Volatile, Lasting
<1>5. ASSUME NEW l, NEW T, l \in Seq(T)
      PROVE  Entered([e EXCEPT !.list = l])
  <2>1. DOMAIN [e EXCEPT !.list = l] = DOMAIN e /\ [e EXCEPT !.list = l].list = l
    BY <1>1
  <2> QED
    BY <1>1, <1>5, <2>1, Zenon DEF Entered
<1> QED
  BY <1>4, <1>5, NewEntries, Zenon DEF Rehashed, Relisted

\* To put an entry in the place of k, whether or not k is a key of the server.
LEMMA PutKeepsLists ==
  ASSUME NEW d, Lists(d), NEW k, NEW x, k \in Key => Entered(x)
  PROVE  Lists([d EXCEPT ![k] = x])
<1>1. d = [j \in Key |-> d[j]] /\ \A j \in Key : Entered(d[j])
  BY DEF Lists
<1>2. [d EXCEPT ![k] = x] = [j \in Key |-> IF j = k THEN x ELSE d[j]]
  BY <1>1
<1>3. \A j \in Key : Entered(IF j = k THEN x ELSE d[j])
  BY <1>1
<1> HIDE DEF Entered
<1> QED
  BY <1>2, <1>3, Zenon DEF Lists

\* The replies that are no denial: every good one of a method that wants no
\* more, and NIL.
LEMMA GoodTold ==
  ASSUME NEW op, NEW r, Verdict(op, r) \/ r = NilReply
  PROVE  Told(op, r) # "denied"
BY ToldWithoutReply DEF Told

LEMMA Unchanged ==
  ASSUME NEW d, Lists(d), NEW op, NEW r
  PROVE  Admitted(d, op, Outcome(d, r))
BY DEF Admitted, Outcome

LEMMA ChangedWell ==
  ASSUME NEW d, NEW x, Lists(x), NEW op, NEW r, Verdict(op, r) \/ r = NilReply
  PROVE  Admitted(d, op, Outcome(x, r))
BY GoodTold DEF Admitted, Outcome

\* Which of the three verdicts an operation has.
LEMMA VerdictOfKey ==
  ASSUME NEW op \in KeyWrite, NEW r
  PROVE  /\ op = "del" => (Verdict(op, r) <=> PlainResult(r))
         /\ op # "del" => (Verdict(op, r) <=> BoolResult(r))
BY DEF Verdict, StringVerdict, KeyWrite, ListRead, ListWrite, Insert, HashRead, HashWrite

LEMMA KeyOutcomeAdmitted ==
  ASSUME NEW d, Lists(d), NEW op \in KeyWrite, NEW a, NEW n,
         op \in {"rename", "renamenx"} => a[1] \in Key
  PROVE  Admitted(d, op, KeyOutcome(d, op, a, n))
<1> DEFINE k == a[1]
           e == d[k]
           Put(x, i) == Outcome([d EXCEPT ![k] = x], IntegerReply(i))
<1>1. k \in Key => Entered(e)
  BY DEF Lists
<1>2. Verdict(op, IntegerReply(1))
  BY GoodReplies, VerdictOfKey
<1>3. ASSUME NEW x, k \in Key => Entered(x)
      PROVE  Admitted(d, op, Put(x, 1))
  BY <1>2, <1>3, PutKeepsLists, ChangedWell
<1>4. CASE op = "del"
  <2>1. KeyOutcome(d, op, a, n) = Put(Absent, Flag(e # Absent))
    BY <1>4 DEF KeyOutcome
  <2>2. Verdict(op, IntegerReply(Flag(e # Absent)))
    BY <1>4, GoodReplies, VerdictOfKey
  <2> QED
    BY <2>1, <2>2, NewEntries, PutKeepsLists, ChangedWell
<1>5. CASE op = "expire"
  <2>1. CASE e = Absent
    BY <1>5, <2>1, Unchanged DEF KeyOutcome
  <2>2. CASE e # Absent
    <3>1. KeyOutcome(d, op, a, n) = Put(IF n <= 0 THEN Absent ELSE Volatile(e), 1)
      BY <1>5, <2>2 DEF KeyOutcome
    <3>2. k \in Key => Entered(IF n <= 0 THEN Absent ELSE Volatile(e))
      BY <1>1, NewEntries, ChangedEntries
    <3> HIDE DEF Put
    <3> QED
      BY <3>1, <3>2, <1>3
  <2> QED
    BY <2>1, <2>2
<1>6. CASE op = "persist"
  <2>1. CASE e.volatile
    <3>1. KeyOutcome(d, op, a, n) = Put(Lasting(e), 1)
      BY <1>6, <2>1 DEF KeyOutcome
    <3> HIDE DEF Put
    <3> QED
      BY <3>1, <1>1, <1>3, ChangedEntries
  <2>2. CASE ~e.volatile
    <3>1. KeyOutcome(d, op, a, n) = Outcome(d, IntegerReply(0))
      BY <1>6, <2>2 DEF KeyOutcome
    <3> QED
      BY <3>1, Unchanged
  <2> QED
    BY <2>1, <2>2
<1>7. CASE op \in {"rename", "renamenx"}
  <2> DEFINE moved == [d EXCEPT ![k] = Absent, ![a[2]] = e]
             r == IF op = "rename" THEN StatusReply("OK") ELSE IntegerReply(1)
  <2>1. \/ \E t : KeyOutcome(d, op, a, n) = Outcome(d, t)
        \/ e # Absent /\ KeyOutcome(d, op, a, n) = Outcome(moved, r)
    <3> HIDE DEF Outcome
    <3> QED
      BY <1>7 DEF KeyOutcome
  <2>2. Verdict(op, r)
    BY <1>7, GoodReplies, VerdictOfKey DEF KeyWrite
  <2>3. Lists(moved)
    BY <1>1, <1>7, NewEntries, PutKeepsLists
  <2> QED
    BY <2>1, <2>2, <2>3, Unchanged, ChangedWell
<1> QED
  BY <1>4, <1>5, <1>6, <1>7 DEF KeyWrite

LEMMA VerdictOfString ==
  ASSUME NEW op \in StringWrite, NEW r
  PROVE  Verdict(op, r) <=> IF op = "mset" THEN TRUE
                            ELSE IF op \in {"set", "setnx", "msetnx", "setex"} THEN BoolResult(r)
                            ELSE PlainResult(r)
BY DEF Verdict, StringVerdict, StringWrite, Edit, ListRead, ListWrite, Insert, HashRead, HashWrite

LEMMA CountReplyGood ==
  ASSUME NEW op, NEW m
  PROVE  PlainResult(CountReply(op, m))
BY GoodReplies DEF CountReply

LEMMA StringOutcomeAdmitted ==
  ASSUME NEW d, Lists(d), NEW op \in StringWrite, NEW a, NEW n
  PROVE  Admitted(d, op, StringOutcome(d, op, a, n))
<1> DEFINE k == a[1]
           e == d[k]
           all == Pairs(a, 1)
           merged == [x \in DOMAIN d |-> IF x \in DOMAIN all THEN String(all[x]) ELSE d[x]]
<1>1. k \in Key => Entered(e)
  BY DEF Lists
<1>2. ASSUME NEW x, k \in Key => Entered(x), NEW r, Verdict(op, r) \/ r = NilReply
      PROVE  Admitted(d, op, Outcome([d EXCEPT ![k] = x], r))
  BY <1>2, PutKeepsLists, ChangedWell
<1>3. CASE op \in {"set", "setex"}
  <2>1. Verdict(op, StatusReply("OK"))
    BY <1>3, GoodReplies, VerdictOfString
  <2> QED
    BY <1>3, <1>2, <2>1, NewEntries DEF StringOutcome, Edit
<1>4. CASE op = "setnx"
  <2>1. Verdict(op, IntegerReply(1))
    BY <1>4, GoodReplies, VerdictOfString
  <2>2. \/ StringOutcome(d, op, a, n) = Outcome([d EXCEPT ![k] = String(a[2])], IntegerReply(1))
        \/ StringOutcome(d, op, a, n) = Outcome(d, IntegerReply(0))
    BY <1>4 DEF StringOutcome, Edit
  <2> QED
    BY <1>2, <2>1, <2>2, NewEntries, Unchanged
<1>5. CASE op = "getset"
  <2>1. Verdict(op, TextOrNil(e.str)) \/ TextOrNil(e.str) = NilReply
    BY <1>5, GoodReplies, VerdictOfString DEF TextOrNil
  <2>2. StringOutcome(d, op, a, n) = Outcome([d EXCEPT ![k] = String(a[2])], TextOrNil(e.str))
    BY <1>5 DEF StringOutcome, Edit
  <2> QED
    BY <1>2, <2>1, <2>2, NewEntries
<1>6. CASE op \in {"mset", "msetnx"}
  <2> DEFINE r == IF op = "mset" THEN StatusReply("OK") ELSE IntegerReply(1)
  <2>1. \/ \E t : StringOutcome(d, op, a, n) = Outcome(d, t)
        \/ StringOutcome(d, op, a, n) = Outcome(merged, r)
    <3> HIDE DEF Outcome
    <3> QED
      BY <1>6 DEF StringOutcome, Edit
  <2>2. Verdict(op, r)
    BY <1>6, GoodReplies, VerdictOfString
  <2>3. Lists(merged)
    <3>1. DOMAIN d = Key /\ \A x \in Key : Entered(d[x])
      BY DEF Lists
    <3> HIDE DEF all
    <3>2. merged = [x \in Key |-> merged[x]]
      BY <3>1
    <3>3. \A x \in Key : merged[x] = d[x] \/ merged[x] = String(all[x])
      BY <3>1
    <3> HIDE DEF merged
    <3> QED
      BY <3>1, <3>2, <3>3, NewEntries, Zenon DEF Lists
  <2> HIDE DEF merged, r
  <2> QED
    BY <2>1, <2>2, <2>3, Unchanged, ChangedWell
<1>7. CASE op \in {"incr", "incrbyfloat"}
  <2> DEFINE m == Counted(e.str, n)
             x == [e EXCEPT !.type = "string", !.str = Decimal[m]]
  <2>1. \/ \E t : StringOutcome(d, op, a, n) = Outcome(d, t)
        \/ StringOutcome(d, op, a, n) = Outcome([d EXCEPT ![k] = x], CountReply(op, m))
    <3> HIDE DEF Outcome
    <3> QED
      BY <1>7 DEF StringOutcome, Edit
  <2>2. Verdict(op, CountReply(op, m))
    BY <1>7, CountReplyGood, VerdictOfString
  <2>3. k \in Key => Entered(x)
    BY <1>1, ChangedEntries
  <2> HIDE DEF m, x
  <2> QED
    BY <1>2, <2>1, <2>2, <2>3, Unchanged
<1>8. CASE op \in Edit
  <2> DEFINE x == [e EXCEPT !.type = "string", !.str = Edited]
             r == IntegerReply(IF op = "setbit" THEN 0 ELSE Width[Edited])
  <2>1. StringOutcome(d, op, a, n) = Outcome([d EXCEPT ![k] = x], r)
    BY <1>8 DEF StringOutcome, Edit
  <2>2. Verdict(op, r)
    BY <1>8, GoodReplies, VerdictOfString DEF Edit
  <2>3. k \in Key => Entered(x)
    BY <1>1, ChangedEntries
  <2> HIDE DEF x, r
  <2> QED
    BY <1>2, <2>1, <2>2, <2>3
<1> QED
  BY <1>3, <1>4, <1>5, <1>6, <1>7, <1>8 DEF StringWrite

LEMMA VerdictOfList ==
  ASSUME NEW op \in ListWrite, NEW r
  PROVE  Verdict(op, r) <=>
           /\ PlainResult(r)
           /\ op \in {"lset", "ltrim"} => r.type = "STATUS"
           /\ op \in Insert => r.integer \notin {-1, 0}
BY DEF Verdict, ListVerdict, ListWrite, Insert, HashRead, HashWrite

\* The place LINSERT looks for in a list that has the element.
LEMMA SelectedPlace ==
  ASSUME NEW S, NEW l \in Seq(S), NEW x \in ToSet(l)
  PROVE  SelectInSeq(l, LAMBDA t : t = x) \in 1 .. Len(l)
<1> DEFINE I == { i \in 1 .. Len(l) : l[i] = x }
           less == OpToRel(<, Nat)
<1>1. SelectInSeq(l, LAMBDA t : t = x) = IF I # {} THEN Min(I) ELSE 0
  BY DEF SelectInSeq
<1>2. I \subseteq Nat /\ I \subseteq 1 .. Len(l) /\ I # {}
  BY DEF ToSet
<1>3. PICK i \in I : \A j \in I : <<j, i>> \notin less
  BY <1>2, WFMin, NatLessThanWellFounded, Zenon
<1>4. \A j, k \in Nat : j < k => <<j, k>> \in less
  BY Z3 DEF OpToRel
<1>5. \A j \in I : ~(j < i)
  BY <1>2, <1>3, <1>4, Zenon
<1> HIDE DEF less, I
<1>6. \A j \in I : i <= j
  BY <1>2, <1>3, <1>5
<1>7. Min(I) \in I
  BY <1>3, <1>6, Zenon DEF Min
<1> QED
  BY <1>1, <1>2, <1>7

LEMMA InsertedType ==
  ASSUME NEW S, NEW l \in Seq(S), NEW i \in 1 .. Len(l) + 1, NEW x
  PROVE  InsertAt(l, i, x) \in Seq(S \cup {x})
<1> DEFINE T == S \cup {x}
<1>1. \A j \in 1 .. Len(l) : l[j] \in T
  OBVIOUS
<1>2. Len(l) \in Nat /\ i \in Int /\ i - 1 \in Int
  OBVIOUS
<1>3. SubSeq(l, 1, i - 1) \in Seq(T) /\ SubSeq(l, i, Len(l)) \in Seq(T)
  <2> HIDE DEF T
  <2>1. \A j \in 1 .. i - 1 : l[j] \in T
    BY <1>1, <1>2
  <2>2. \A j \in i .. Len(l) : l[j] \in T
    BY <1>1, <1>2
  <2> QED
    BY <1>2, <2>1, <2>2, SubSeqProperties
<1>4. <<x>> \in Seq(T)
  OBVIOUS
<1> HIDE DEF T
<1>5. SubSeq(l, 1, i - 1) \o <<x>> \o SubSeq(l, i, Len(l)) \in Seq(T)
  BY <1>3, <1>4
<1> QED
  BY <1>5, Zenon DEF InsertAt, T

LEMMA FromType ==
  ASSUME NEW S, NEW l \in Seq(S), NEW n \in Int
  PROVE  From(l, n) \in Seq(S)
<1> DEFINE m == IF Place(l, n) < 1 THEN 1 ELSE Place(l, n)
<1>1. m \in Int /\ m >= 1 /\ Len(l) \in Int
  BY DEF Place
<1> HIDE DEF m
<1>2. \A j \in m .. Len(l) : l[j] \in S
  BY <1>1
<1>3. SubSeq(l, m, Len(l)) \in Seq(S)
  BY <1>1, <1>2, SubSeqProperties
<1> QED
  BY <1>3 DEF From, m

LEMMA ListOutcomeAdmitted ==
  ASSUME NEW d, Lists(d), NEW op \in ListWrite, NEW a, NEW n \in Int
  PROVE  Admitted(d, op, ListOutcome(d, op, a, n))
<1> DEFINE k == a[1]
           e == d[k]
           l == e.list
<1>1. k \in Key => Entered(e)
  BY DEF Lists
<1>2. CASE k \notin Key
  <2>1. \A x : [d EXCEPT ![k] = x] = d
    BY <1>2 DEF Lists
  <2>2. \E r : ListOutcome(d, op, a, n) = Outcome(d, r)
    <3> HIDE DEF Outcome
    <3> QED
      BY <2>1, Zenon DEF ListOutcome, ListWrite, Insert
  <2> QED
    BY <2>2, Unchanged
<1>3. ASSUME k \in Key, NEW m, NEW T, m \in Seq(T), NEW r, Verdict(op, r)
      PROVE  Admitted(d, op, Outcome([d EXCEPT ![k] = Relisted(e, m)], r))
  BY <1>1, <1>3, ChangedEntries, PutKeepsLists, ChangedWell
<1>4. CASE k \in Key
  <2>1. PICK S : l \in Seq(S)
    BY <1>1, <1>4 DEF Entered
  <2>2. CASE op = "lset"
    <3> DEFINE m == [l EXCEPT ![Place(l, n)] = a[2]]
    <3>1. m \in Seq(S \cup {a[2]})
      <4>1. l \in [1 .. Len(l) -> S] /\ Len(l) \in Nat
        BY <2>1
      <4>2. m \in [1 .. Len(l) -> S \cup {a[2]}]
        <5> HIDE DEF l
        <5> QED
          BY <4>1
      <4> QED
        BY <4>1, <4>2
    <3>2. Verdict(op, StatusReply("OK"))
      BY <2>2, GoodReplies, VerdictOfList DEF Insert
    <3>3. \/ \E r : ListOutcome(d, op, a, n) = Outcome(d, r)
          \/ ListOutcome(d, op, a, n) = Outcome([d EXCEPT ![k] = Relisted(e, m)], StatusReply("OK"))
      BY <2>2 DEF ListOutcome, Insert
    <3> HIDE DEF m
    <3> QED
      BY <1>3, <1>4, <3>1, <3>2, <3>3, Unchanged
  <2>3. CASE op = "ltrim"
    <3>1. From(l, n) \in Seq(S)
      BY <2>1, FromType
    <3>2. Verdict(op, StatusReply("OK"))
      BY <2>3, GoodReplies, VerdictOfList DEF Insert
    <3>3. ListOutcome(d, op, a, n) = Outcome([d EXCEPT ![k] = Relisted(e, From(l, n))], StatusReply("OK"))
      BY <2>3 DEF ListOutcome, Insert
    <3> QED
      BY <1>3, <1>4, <3>1, <3>2, <3>3
  <2>4. CASE op \in Insert
    <3> DEFINE i == SelectInSeq(l, LAMBDA t : t = a[2])
               m == InsertAt(l, IF op = "linsertAfter" THEN i + 1 ELSE i, a[3])
    <3>1. a[2] \in ToSet(l) => m \in Seq(S \cup {a[3]})
      <4> SUFFICES ASSUME a[2] \in ToSet(l) PROVE m \in Seq(S \cup {a[3]})
        OBVIOUS
      <4>1. i \in 1 .. Len(l) /\ Len(l) \in Nat
        <5>1. Len(l) \in Nat
          BY <2>1
        <5> QED
          BY <5>1, <2>1, SelectedPlace
      <4> HIDE DEF i
      <4>2. (IF op = "linsertAfter" THEN i + 1 ELSE i) \in 1 .. Len(l) + 1
        BY <4>1
      <4> QED
        BY <2>1, <4>2, InsertedType
    <3>2. Verdict(op, IntegerReply(Len(l) + 1))
      BY <2>1, <2>4, GoodReplies, VerdictOfList DEF Insert
    <3>3. \/ \E r : ListOutcome(d, op, a, n) = Outcome(d, r)
          \/ /\ a[2] \in ToSet(l)
             /\ ListOutcome(d, op, a, n) = Outcome([d EXCEPT ![k] = Relisted(e, m)], IntegerReply(Len(l) + 1))
      BY <2>4 DEF ListOutcome, Insert
    <3> HIDE DEF m
    <3> QED
      BY <1>3, <1>4, <3>1, <3>2, <3>3, Unchanged
  <2> QED
    BY <2>2, <2>3, <2>4 DEF ListWrite
<1> QED
  BY <1>2, <1>4

LEMMA VerdictOfHash ==
  ASSUME NEW op \in HashWrite, NEW r
  PROVE  Verdict(op, r) <=> PlainResult(r) /\ (op = "hmset" => r.type = "STATUS")
BY DEF Verdict, HashVerdict, ListRead, ListWrite, Insert, HashWrite

LEMMA HashOutcomeAdmitted ==
  ASSUME NEW d, Lists(d), NEW op \in HashWrite, NEW a, NEW n
  PROVE  Admitted(d, op, HashOutcome(d, op, a, n))
<1> DEFINE k == a[1]
           e == d[k]
           h == e.hash
           t == Cell(h, a[2])
<1>1. ASSUME NEW g, NEW r, Verdict(op, r)
      PROVE  Admitted(d, op, Outcome([d EXCEPT ![k] = Rehashed(e, g)], r))
  <2>1. k \in Key => Entered(Rehashed(e, g))
    BY ChangedEntries DEF Lists
  <2> QED
    BY <1>1, <2>1, PutKeepsLists, ChangedWell
<1>2. CASE op \in {"hset", "hsetnx", "hdel"}
  <2>1. \A i : Verdict(op, IntegerReply(i))
    BY <1>2, GoodReplies, VerdictOfHash
  <2>2. \E g, i : HashOutcome(d, op, a, n) = Outcome([d EXCEPT ![k] = Rehashed(e, g)], IntegerReply(i))
    <3> HIDE DEF Outcome
    <3> QED
      BY <1>2 DEF HashOutcome
  <2> QED
    BY <1>1, <2>1, <2>2
<1>3. CASE op = "hmset"
  <2>1. Verdict(op, StatusReply("OK"))
    BY <1>3, GoodReplies, VerdictOfHash
  <2> QED
    BY <1>1, <1>3, <2>1 DEF HashOutcome
<1>4. CASE op \in {"hincrby", "hincrbyfloat"}
  <2> DEFINE m == Counted(t, n)
             g == Merged(One(a[2], Decimal[m]), h)
  <2>1. \/ \E r : HashOutcome(d, op, a, n) = Outcome(d, r)
        \/ HashOutcome(d, op, a, n) = Outcome([d EXCEPT ![k] = Rehashed(e, g)], CountReply(op, m))
    <3> HIDE DEF Outcome
    <3> QED
      BY <1>4 DEF HashOutcome
  <2>2. Verdict(op, CountReply(op, m))
    BY <1>4, CountReplyGood, VerdictOfHash
  <2> HIDE DEF m, g
  <2> QED
    BY <1>1, <2>1, <2>2, Unchanged
<1> QED
  BY <1>2, <1>3, <1>4 DEF HashWrite

\* Every command the server carries out has such an outcome.
LEMMA EffectsAdmitted ==
  ASSUME NEW d, Lists(d), NEW op \in Read \cup Write, NEW a, NEW n \in Int,
         op \in {"rename", "renamenx"} => a[1] \in Key,
         NEW s \in Effects(d, op, a, n)
  PROVE  Admitted(d, op, s)
<1>1. CASE \E r : s = Outcome(d, r)
  BY <1>1, Unchanged
<1>2. CASE op \in KeyWrite /\ s = KeyOutcome(d, op, a, n)
  BY <1>2, KeyOutcomeAdmitted
<1>3. CASE op \in StringWrite /\ s = StringOutcome(d, op, a, n)
  BY <1>3, StringOutcomeAdmitted
<1>4. CASE op \in ListWrite /\ s = ListOutcome(d, op, a, n)
  BY <1>4, ListOutcomeAdmitted
<1>5. CASE op \in HashWrite /\ s = HashOutcome(d, op, a, n)
  BY <1>5, HashOutcomeAdmitted
<1>6. \/ \E r : s = Outcome(d, r)
      \/ op \in KeyWrite /\ s = KeyOutcome(d, op, a, n)
      \/ op \in StringWrite /\ s = StringOutcome(d, op, a, n)
      \/ op \in ListWrite /\ s = ListOutcome(d, op, a, n)
      \/ op \in HashWrite /\ s = HashOutcome(d, op, a, n)
  BY Zenon DEF Effects, Write
<1> QED
  BY <1>1, <1>2, <1>3, <1>4, <1>5, <1>6

-----------------------------------------------------------------------------
(* Requests.                                                               *)

\* A request the server can be given.
Asked(q) ==
  /\ q.op \in Read \cup Write
  /\ Printed(q) \in Int
  /\ q.op \in {"rename", "renamenx"} => Sent(q)[1] \in Key

LEMMA PrintedInt ==
  ASSUME NEW q, q.n \in Int
  PROVE  Printed(q) \in Int
<1>1. IntRange \in Nat /\ IntRange > 0
  BY StoreAssumption
<1>2. Half \in Int
  BY <1>1 DEF Half
<1>3. \A i \in Int : i % IntRange \in Int
  BY <1>1
<1> QED
  BY <1>2, <1>3 DEF Printed

LEMMA RequestsAsked ==
  ASSUME NEW op \in Method \ {"expireat"}, NEW q \in Requests(op)
  PROVE  Asked(q)
<1> DEFINE Of(names) ==
      { Request(op, k, names, vals, n) :
          k \in IF op \in Keyless THEN {NoStr} ELSE CallKey,
          vals \in ValuesOf(op, names),
          n \in IntegersOf(op) \ IF op = "setex" THEN {0} ELSE {} }
<1>0. PICK names \in NamesOf(op) : q \in Of(names)
  <2>1. Requests(op) = UNION { Of(names) : names \in NamesOf(op) }
    BY DEF Requests
  <2> HIDE DEF Of
  <2> QED
    BY <2>1
<1>1. PICK k \in (IF op \in Keyless THEN {NoStr} ELSE CallKey), vals \in ValuesOf(op, names),
           n \in IntegersOf(op) :
        q = Request(op, k, names, vals, n)
  BY <1>0
<1>2. q.op = op /\ q.key = k /\ q.names = names /\ q.vals = vals /\ q.n = n
  BY <1>1 DEF Request
<1>3. n \in Int
  BY StoreAssumption DEF IntegersOf
<1>4. op \in Read \cup Write
  BY DEF Method
<1>5. ASSUME op \in {"rename", "renamenx"}
      PROVE  Sent(q)[1] \in Key
  <2>1. k \in Key
    BY <1>5, StoreAssumption DEF Keyless
  <2>2. PICK j \in Key : names = <<j>>
    BY <1>5 DEF NamesOf, Keyless
  <2>3. vals = <<>>
    BY <1>5 DEF ValuesOf, Pairing, OneValued, Insert
  <2>4. Sent(q) = <<k>> \o (<<j>> \o <<>>)
    BY <1>2, <1>5, <2>2, <2>3 DEF Sent, Arguments, Joining, Keyless, Pairing
  <2> QED
    BY <2>1, <2>4
<1> QED
  BY <1>2, <1>3, <1>4, <1>5, PrintedInt DEF Asked

LEMMA UsedAsked ==
  ASSUME NEW c \in Client, NEW op \in Uses[c] \ {"expireat"}, NEW q \in Requests(op)
  PROVE  Asked(q)
BY StoreAssumption, RequestsAsked

-----------------------------------------------------------------------------
(* What has been told.                                                     *)

Telling == {"pending", "confirmed", "swallowed", "nil", "denied", "unknown"}
Doing   == {"no", "same", "changed"}
Tales   == Seq([told : Telling, done : Doing])

LEMMA TellsMore ==
  ASSUME NEW t \in Tales, NEW v \in Telling, NEW u, u = Append(t, Tale(v, "no"))
  PROVE  /\ u \in Tales /\ Len(u) = Len(t) + 1
         /\ u[Len(t) + 1].told = v /\ u[Len(t) + 1].done = "no"
         /\ \A m \in 1 .. Len(t) : u[m] = t[m]
BY DEF Tales, Tale, Doing

LEMMA Replaced ==
  ASSUME NEW R, NEW t \in Seq(R), NEW n \in 1 .. Len(t), NEW x \in R
  PROVE  LET u == [t EXCEPT ![n] = x] IN
         /\ u \in Seq(R) /\ Len(u) = Len(t)
         /\ \A m \in 1 .. Len(t) : u[m] = IF m = n THEN x ELSE t[m]
OBVIOUS

LEMMA TellsAnew ==
  ASSUME NEW t \in Tales, NEW n \in 1 .. Len(t), NEW v \in Telling, NEW u, u = [t EXCEPT ![n].told = v]
  PROVE  /\ u \in Tales /\ Len(u) = Len(t)
         /\ \A m \in 1 .. Len(t) : /\ u[m].told = IF m = n THEN v ELSE t[m].told
                                   /\ u[m].done = t[m].done
<1> DEFINE R == [told : Telling, done : Doing]
           x == [t[n] EXCEPT !.told = v]
<1>1. u = [t EXCEPT ![n] = x]
  OBVIOUS
<1>2. t \in Seq(R)
  BY Zenon DEF Tales
<1>3. x \in R /\ x.told = v /\ x.done = t[n].done
  <2>1. t[n] \in R
    <3> HIDE DEF R
    <3> QED
      BY <1>2
  <2> QED
    BY <2>1
<1> HIDE DEF R, x
<1>4. u \in Seq(R) /\ Len(u) = Len(t) /\ \A m \in 1 .. Len(t) : u[m] = IF m = n THEN x ELSE t[m]
  BY <1>1, <1>2, <1>3, Replaced
<1>5. u \in Tales
  BY <1>4, Zenon DEF R, Tales
<1> QED
  BY <1>3, <1>4, <1>5

LEMMA DoesAnew ==
  ASSUME NEW t \in Tales, NEW n \in 1 .. Len(t), NEW v \in Doing, NEW u, u = [t EXCEPT ![n].done = v]
  PROVE  /\ u \in Tales /\ Len(u) = Len(t)
         /\ \A m \in 1 .. Len(t) : /\ u[m].done = IF m = n THEN v ELSE t[m].done
                                   /\ u[m].told = t[m].told
<1> DEFINE R == [told : Telling, done : Doing]
           x == [t[n] EXCEPT !.done = v]
<1>1. u = [t EXCEPT ![n] = x]
  OBVIOUS
<1>2. t \in Seq(R)
  BY Zenon DEF Tales
<1>3. x \in R /\ x.done = v /\ x.told = t[n].told
  <2>1. t[n] \in R
    <3> HIDE DEF R
    <3> QED
      BY <1>2
  <2> QED
    BY <2>1
<1> HIDE DEF R, x
<1>4. u \in Seq(R) /\ Len(u) = Len(t) /\ \A m \in 1 .. Len(t) : u[m] = IF m = n THEN x ELSE t[m]
  BY <1>1, <1>2, <1>3, Replaced
<1>5. u \in Tales
  BY <1>4, Zenon DEF R, Tales
<1> QED
  BY <1>3, <1>4, <1>5

-----------------------------------------------------------------------------
(* The inductive invariant.                                                *)

\* A call in progress: nobody has been told of it, and an answer means that the
\* server has carried it out, and is no denial if that changed something.
Open(x) ==
  /\ x = Call(x.q, x.phase, x.n, x.reply, x.snap)
  /\ x.phase \in {"sent", "answered"}
  /\ Asked(x.q)
  /\ x.n \in 1 .. Len(tale)
  /\ tale[x.n].told = "pending"
  /\ x.phase = "answered" => tale[x.n].done # "no"
  /\ x.phase = "answered" /\ tale[x.n].done = "changed" => Told(x.q.op, x.reply) # "denied"

CallsOpen  == \A c \in Client : call[c] = Idle \/ Open(call[c])
CallsApart == \A b, c \in Client : call[b].n = call[c].n /\ call[b].n # 0 => b = c

\* Nobody will ever be told that an orphaned command failed or succeeded.
Orphan(o) ==
  /\ Asked(o.q)
  /\ o.n \in 1 .. Len(tale)
  /\ tale[o.n].told \in {"pending", "swallowed", "unknown"}
  /\ \A c \in Client : call[c].n = o.n => call[c].phase = "sent" /\ link[c] = "down"

OrphansOpen == \A o \in orphans : Orphan(o)

Types ==
  /\ Lists(db)
  /\ tale \in Tales
  /\ call = [c \in Client |-> call[c]]
  /\ link = [c \in Client |-> link[c]]

IInv == Types /\ CallsOpen /\ CallsApart /\ OrphansOpen /\ SuccessIsDone /\ DenialChangesNothing

LEMMA IdleFields == Idle.n = 0 /\ Idle.phase = "idle"
BY DEF Idle, Call

LEMMA CallFields ==
  ASSUME NEW q, NEW p, NEW n, NEW r, NEW s
  PROVE  LET x == Call(q, p, n, r, s) IN
         x.q = q /\ x.phase = p /\ x.n = n /\ x.reply = r /\ x.snap = s
BY DEF Call

\* What IInv says of one call and of one orphan.
LEMMA OpenCall ==
  ASSUME IInv, NEW c \in Client, call[c] # Idle
  PROVE  Open(call[c])
BY DEF IInv, CallsOpen

LEMMA Numbers ==
  ASSUME IInv
  PROVE  /\ Len(tale) \in Nat /\ DOMAIN tale = 1 .. Len(tale)
         /\ \A c \in Client : call[c].n \in 0 .. Len(tale)
<1>1. Len(tale) \in Nat /\ DOMAIN tale = 1 .. Len(tale)
  BY DEF IInv, Types, Tales
<1>2. ASSUME NEW c \in Client
      PROVE  call[c].n \in 0 .. Len(tale)
  BY <1>1, IdleFields DEF IInv, CallsOpen, Open
<1> QED
  BY <1>1, <1>2

\* A call that comes to nothing: Refuse and FailFast.
LEMMA EndedAtOnce ==
  ASSUME IInv, NEW t \in Telling \ {"confirmed"}, tale' = Append(tale, Tale(t, "no")),
         UNCHANGED <<db, orphans, call, link>>
  PROVE  IInv'
<1>0. tale \in Tales
  BY DEF IInv, Types
<1>1. /\ tale' \in Tales /\ Len(tale') = Len(tale) + 1
      /\ tale'[Len(tale) + 1].told = t /\ tale'[Len(tale) + 1].done = "no"
      /\ \A m \in 1 .. Len(tale) : tale'[m] = tale[m]
  <2>1. tale' \in Tales /\ Len(tale') = Len(tale) + 1
    BY <1>0, TellsMore
  <2>2. tale'[Len(tale) + 1].told = t /\ tale'[Len(tale) + 1].done = "no"
    BY <1>0, TellsMore, SMTT(20)
  <2>3. \A m \in 1 .. Len(tale) : tale'[m] = tale[m]
    BY <1>0, TellsMore
  <2> QED
    BY <2>1, <2>2, <2>3
<1>2. Len(tale) \in Nat /\ DOMAIN tale = 1 .. Len(tale) /\ DOMAIN tale' = 1 .. Len(tale) + 1
  BY <1>1, Numbers DEF Tales
<1>3. Types'
  BY <1>1 DEF IInv, Types, Lists
<1>4. CallsOpen'
  BY <1>1, <1>2 DEF IInv, CallsOpen, Open
<1>5. CallsApart'
  BY DEF IInv, CallsApart
<1>6. OrphansOpen'
  BY <1>1, <1>2 DEF IInv, OrphansOpen, Orphan
<1>7. SuccessIsDone' /\ DenialChangesNothing'
  BY <1>1, <1>2 DEF IInv, SuccessIsDone, DenialChangesNothing
<1> QED
  BY <1>3, <1>4, <1>5, <1>6, <1>7 DEF IInv

LEMMA SendStep ==
  ASSUME IInv, NEW c \in Client, Send(c)
  PROVE  IInv'
<1> DEFINE i == Len(tale) + 1
<1>1. /\ tale' \in Tales /\ Len(tale') = i
      /\ tale'[i].told = "pending" /\ tale'[i].done = "no"
      /\ \A m \in 1 .. Len(tale) : tale'[m] = tale[m]
  <2>1. tale \in Tales /\ tale' = Append(tale, Tale("pending", "no"))
    BY DEF Send, IInv, Types
  <2>2. "pending" \in Telling
    BY DEF Telling
  <2>3. tale' \in Tales /\ Len(tale') = i
    BY <2>1, <2>2, TellsMore
  <2>4. tale'[i].told = "pending" /\ tale'[i].done = "no"
    BY <2>1, <2>2, TellsMore
  <2>5. \A m \in 1 .. Len(tale) : tale'[m] = tale[m]
    BY <2>1, <2>2, TellsMore
  <2> QED
    BY <2>3, <2>4, <2>5
<1>2. Len(tale) \in Nat /\ DOMAIN tale = 1 .. Len(tale) /\ DOMAIN tale' = 1 .. i
  BY <1>1, Numbers DEF Tales
<1>0. PICK op \in Uses[c] \ {"expireat"} : \E q \in Requests(op) :
        call' = [call EXCEPT ![c] = Call(q, "sent", i, NullReply, NoSnapshot)]
  BY Zenon DEF Send
<1>3. PICK q \in Requests(op) :
        call' = [call EXCEPT ![c] = Call(q, "sent", i, NullReply, NoSnapshot)]
  BY <1>0
<1> DEFINE x == Call(q, "sent", i, NullReply, NoSnapshot)
<1>4. x.q = q /\ x.phase = "sent" /\ x.n = i /\ x = Call(x.q, x.phase, x.n, x.reply, x.snap)
  BY CallFields
<1>5. Asked(q)
  BY UsedAsked
<1> HIDE DEF x
<1>6. call[c] = Idle /\ UNCHANGED <<db, orphans, link>>
  BY DEF Send, MayCall
<1>7. call' = [b \in Client |-> IF b = c THEN x ELSE call[b]]
  BY <1>3 DEF x, IInv, Types
<1>8. Types'
  BY <1>1, <1>6, <1>7 DEF IInv, Types, Lists
<1>9. CallsOpen'
  <2>0. call'[c] = x
    BY <1>7
  <2>1. Open(call[c])'
    BY <1>1, <1>2, <1>4, <1>5, <2>0 DEF Open
  <2>2. ASSUME NEW b \in Client, b # c, call[b] # Idle
        PROVE  Open(call[b])'
    BY <1>1, <1>2, <1>7, <2>2, OpenCall DEF Open
  <2> QED
    BY <1>7, <2>0, <2>1, <2>2 DEF CallsOpen
<1>10. CallsApart'
  BY <1>2, <1>4, <1>7, Numbers DEF IInv, CallsApart
<1>11. OrphansOpen'
  BY <1>1, <1>2, <1>4, <1>6, <1>7 DEF IInv, OrphansOpen, Orphan
<1>12. SuccessIsDone' /\ DenialChangesNothing'
  BY <1>1, <1>2 DEF IInv, SuccessIsDone, DenialChangesNothing
<1> QED
  BY <1>8, <1>9, <1>10, <1>11, <1>12 DEF IInv

\* The end of a call, with the answer of the server or with none.
LEMMA ReturnStep ==
  ASSUME IInv, NEW c \in Client, call[c] # Idle, NEW r, Return(c, r),
         r = NullReply \/ (call[c].phase = "answered" /\ r = call[c].reply),
         UNCHANGED <<db, orphans>>,
         link' = [b \in Client |-> link'[b]],
         \A b \in Client : b # c => link'[b] = link[b]
  PROVE  IInv'
<1> DEFINE n == call[c].n
           t == Told(call[c].q.op, r)
<1>1. tale \in Tales /\ n \in 1 .. Len(tale) /\ Len(tale) \in Nat /\ Open(call[c])
  BY OpenCall, Numbers DEF IInv, Types, Open
<1>2. t \in Telling /\ t # "pending"
  BY ToldType DEF Telling
<1>3. /\ r = NullReply => t \in {"swallowed", "unknown"}
      /\ r # NullReply => /\ tale[n].done # "no"
                          /\ tale[n].done = "changed" => t # "denied"
                          /\ call[c].phase = "answered"
  <2>1. r = NullReply => t \in {"swallowed", "unknown"}
    BY ToldWithoutReply
  <2>2. ASSUME r # NullReply
        PROVE  tale[n].done # "no" /\ (tale[n].done = "changed" => t # "denied")
    BY <1>1, <2>2 DEF Open
  <2> HIDE DEF n, t
  <2> QED
    BY <2>1, <2>2
<1>4. tale' = [tale EXCEPT ![n].told = t] /\ call' = [call EXCEPT ![c] = Idle]
  BY DEF Return
<1> HIDE DEF t
<1>5. tale' \in Tales /\ Len(tale') = Len(tale)
  <2> HIDE DEF n
  <2>1. tale' \in Tales
    BY <1>1, <1>2, <1>4, TellsAnew
  <2>2. Len(tale') = Len(tale)
    BY <1>1, <1>2, <1>4, TellsAnew
  <2> QED
    BY <2>1, <2>2
<1>6. \A m \in 1 .. Len(tale) : /\ tale'[m].told = IF m = n THEN t ELSE tale[m].told
                                /\ tale'[m].done = tale[m].done
  BY <1>1, <1>2, <1>4, TellsAnew
<1>7. call' = [b \in Client |-> IF b = c THEN Idle ELSE call[b]]
  BY <1>4 DEF IInv, Types
<1>8. DOMAIN tale = 1 .. Len(tale) /\ DOMAIN tale' = 1 .. Len(tale)
  BY <1>1, <1>5 DEF Tales
<1>9. \A b \in Client : b # c /\ call[b].n # 0 => call[b].n # n
  BY DEF IInv, CallsApart
<1>10. Types'
  BY <1>5, <1>7 DEF IInv, Types, Lists
<1>11. CallsOpen'
  <2>1. ASSUME NEW b \in Client, b # c, call[b] # Idle
        PROVE  Open(call[b])'
    <3>1. call'[b] = call[b] /\ Open(call[b])
      BY <1>7, <2>1, OpenCall
    <3>2. call[b].n # n
      BY <1>1, <1>9, <2>1, <3>1 DEF Open
    <3> HIDE DEF n
    <3> QED
      BY <1>5, <1>6, <3>1, <3>2 DEF Open
  <2> QED
    BY <1>7, <2>1 DEF CallsOpen
<1>12. CallsApart'
  BY <1>7, IdleFields DEF IInv, CallsApart
<1>13. OrphansOpen'
  <2> SUFFICES ASSUME NEW o \in orphans
               PROVE  Orphan(o)'
    BY DEF OrphansOpen
  <2>1. Orphan(o)
    BY DEF IInv, OrphansOpen
  <2>2. tale'[o.n].told \in {"pending", "swallowed", "unknown"}
    <3>1. CASE o.n = n
      <4>1. call[c].phase = "sent"
        BY <2>1, <3>1 DEF Orphan
      <4>2. t \in {"swallowed", "unknown"}
        BY <1>3, <4>1
      <4> QED
        BY <1>1, <1>6, <3>1, <4>2
    <3>2. CASE o.n # n
      BY <1>6, <2>1, <3>2 DEF Orphan
    <3> QED
      BY <3>1, <3>2
  <2>3. ASSUME NEW b \in Client, call'[b].n = o.n
        PROVE  call'[b].phase = "sent" /\ link'[b] = "down"
    <3>1. b # c
      BY <1>1, <1>7, <2>1, <2>3, IdleFields DEF Orphan
    <3> QED
      BY <1>7, <2>1, <2>3, <3>1 DEF Orphan
  <2> QED
    BY <1>5, <2>1, <2>2, <2>3 DEF Orphan
<1>14. SuccessIsDone'
  <2> SUFFICES ASSUME NEW m \in 1 .. Len(tale), tale'[m].told = "confirmed"
               PROVE  tale'[m].done # "no"
    BY <1>8 DEF SuccessIsDone
  <2>1. CASE m = n
    BY <1>3, <1>6, <2>1
  <2>2. CASE m # n
    BY <1>6, <1>8, <2>2 DEF IInv, SuccessIsDone
  <2> QED
    BY <2>1, <2>2
<1>15. DenialChangesNothing'
  <2> SUFFICES ASSUME NEW m \in 1 .. Len(tale), tale'[m].told = "denied"
               PROVE  tale'[m].done # "changed"
    BY <1>8 DEF DenialChangesNothing
  <2>1. CASE m = n
    BY <1>3, <1>6, <2>1
  <2>2. CASE m # n
    BY <1>6, <1>8, <2>2 DEF IInv, DenialChangesNothing
  <2> QED
    BY <2>1, <2>2
<1> QED
  BY <1>10, <1>11, <1>12, <1>13, <1>14, <1>15 DEF IInv

\* A context comes or goes between two calls: Connect and Dies.
LEMMA Relinked ==
  ASSUME IInv, NEW c \in Client, call[c] = Idle, NEW l, link' = [link EXCEPT ![c] = l],
         UNCHANGED <<db, orphans, call, tale>>
  PROVE  IInv'
<1>1. Types'
  BY DEF IInv, Types, Lists
<1>2. CallsOpen' /\ CallsApart'
  BY DEF IInv, CallsOpen, CallsApart, Open
<1>3. OrphansOpen'
  <2> SUFFICES ASSUME NEW o \in orphans, Orphan(o)
               PROVE  Orphan(o)'
    BY DEF IInv, OrphansOpen
  <2>1. ASSUME NEW b \in Client, call[b].n = o.n
        PROVE  link'[b] = link[b]
    BY <2>1, Numbers, IdleFields DEF Orphan, IInv, Types
  <2> QED
    BY <2>1 DEF Orphan
<1>4. SuccessIsDone' /\ DenialChangesNothing'
  BY DEF IInv, SuccessIsDone, DenialChangesNothing
<1> QED
  BY <1>1, <1>2, <1>3, <1>4 DEF IInv

\* A call that ends with its process: what it was told stays open for good.
LEMMA DiesStoringStep ==
  ASSUME IInv, NEW c \in Client, DiesStoring(c)
  PROVE  IInv'
<1>1. /\ call' = [b \in Client |-> IF b = c THEN Idle ELSE call[b]]
      /\ link' = [b \in Client |-> IF b = c THEN "gone" ELSE link[b]]
      /\ UNCHANGED <<db, orphans, tale>>
  BY DEF DiesStoring, IInv, Types
<1>2. Types'
  BY <1>1 DEF IInv, Types, Lists
<1>3. CallsOpen'
  BY <1>1 DEF IInv, CallsOpen, Open
<1>4. CallsApart'
  BY <1>1, IdleFields DEF IInv, CallsApart
<1>5. OrphansOpen'
  <2> SUFFICES ASSUME NEW o \in orphans, Orphan(o)
               PROVE  Orphan(o)'
    BY <1>1 DEF IInv, OrphansOpen
  <2>1. o.n # 0
    BY Numbers DEF Orphan
  <2>2. ASSUME NEW b \in Client, call'[b].n = o.n
        PROVE  call'[b] = call[b] /\ link'[b] = link[b]
    BY <1>1, <2>1, <2>2, IdleFields
  <2> QED
    BY <1>1, <2>2 DEF Orphan
<1>6. SuccessIsDone' /\ DenialChangesNothing'
  BY <1>1 DEF IInv, SuccessIsDone, DenialChangesNothing
<1> QED
  BY <1>2, <1>3, <1>4, <1>5, <1>6 DEF IInv

LEMMA LinkDropStep ==
  ASSUME IInv, NEW c \in Client, LinkDrop(c)
  PROVE  IInv'
<1> DEFINE lost == [q |-> call[c].q, n |-> call[c].n]
<1>1. /\ link[c] = "up" /\ UNCHANGED <<db, call, tale>>
      /\ link' = [b \in Client |-> IF b = c THEN "down" ELSE link[b]]
  BY DEF LinkDrop, IInv, Types
<1>2. \A o \in orphans' : o \in orphans \/ (call[c].phase = "sent" /\ o = lost)
  BY DEF LinkDrop
<1>3. Types'
  BY <1>1 DEF IInv, Types, Lists
<1>4. CallsOpen' /\ CallsApart'
  BY <1>1 DEF IInv, CallsOpen, CallsApart, Open
<1>5. ASSUME NEW o \in orphans
      PROVE  Orphan(o)'
  BY <1>1 DEF IInv, OrphansOpen, Orphan
<1>6. ASSUME call[c].phase = "sent"
      PROVE  Orphan(lost)'
  <2>1. Open(call[c]) /\ call[c].n # 0
    BY <1>6, OpenCall, IdleFields DEF Open
  <2>2. \A b \in Client : call[b].n = call[c].n => b = c
    BY <2>1 DEF IInv, CallsApart
  <2> QED
    BY <1>1, <1>6, <2>1, <2>2 DEF Orphan, Open
<1>7. OrphansOpen'
  BY <1>1, <1>2, <1>5, <1>6 DEF OrphansOpen
<1>8. SuccessIsDone' /\ DenialChangesNothing'
  BY <1>1 DEF IInv, SuccessIsDone, DenialChangesNothing
<1> QED
  BY <1>3, <1>4, <1>7, <1>8 DEF IInv

LEMMA VanishStep ==
  ASSUME IInv, NEW k \in Key, Vanish(k)
  PROVE  IInv'
<1>1. UNCHANGED <<orphans, call, link, tale>> /\ db' = [db EXCEPT ![k] = Absent]
  BY DEF Vanish
<1>2. Lists(db')
  BY <1>1, NewEntries, PutKeepsLists DEF IInv, Types
<1>3. Types'
  BY <1>1, <1>2 DEF IInv, Types
<1>4. CallsOpen' /\ CallsApart' /\ OrphansOpen'
  BY <1>1 DEF IInv, CallsOpen, CallsApart, OrphansOpen, Orphan, Open
<1>5. SuccessIsDone' /\ DenialChangesNothing'
  BY <1>1 DEF IInv, SuccessIsDone, DenialChangesNothing
<1> QED
  BY <1>3, <1>4, <1>5 DEF IInv

\* What the server does for a call is what IInv wants of it.
LEMMA Served ==
  ASSUME IInv, NEW q, Asked(q), NEW s \in Effects(db, q.op, Sent(q), Printed(q))
  PROVE  /\ Lists(s.db) /\ Done(s.db) \in {"same", "changed"}
         /\ Done(s.db) = "changed" => Told(q.op, s.reply) # "denied"
<1>1. Admitted(db, q.op, s)
  BY EffectsAdmitted DEF IInv, Types, Asked
<1> QED
  BY <1>1 DEF Admitted, Done

LEMMA ApplyStep ==
  ASSUME IInv, NEW c \in Client, Apply(c)
  PROVE  IInv'
<1> DEFINE x == call[c]
           n == x.n
<1>1. /\ x.phase = "sent" /\ x # Idle /\ link[c] = "up"
      /\ UNCHANGED <<orphans, link>>
  BY IdleFields DEF Apply
<1>2. Open(x) /\ tale \in Tales /\ n \in 1 .. Len(tale) /\ Len(tale) \in Nat
  BY <1>1, OpenCall, Numbers DEF IInv, Types, Open
<1>3. PICK s \in Effects(db, x.q.op, Sent(x.q), Printed(x.q)) :
        /\ db' = s.db
        /\ call' = [call EXCEPT ![c] = Call(x.q, "answered", n, s.reply,
                                            IF x.q.op \in Read THEN db ELSE NoSnapshot)]
        /\ tale' = [tale EXCEPT ![n].done = Done(s.db)]
  BY Zenon DEF Apply
<1> DEFINE did == Done(s.db)
           y == Call(x.q, "answered", n, s.reply, IF x.q.op \in Read THEN db ELSE NoSnapshot)
<1>4. /\ Lists(db') /\ did \in {"same", "changed"}
      /\ did = "changed" => Told(x.q.op, s.reply) # "denied"
  BY <1>2, <1>3, Served DEF Open
<1>5. call' = [b \in Client |-> IF b = c THEN y ELSE call[b]]
  BY <1>3 DEF IInv, Types
<1>6. /\ y = Call(y.q, y.phase, y.n, y.reply, y.snap)
      /\ y.q = x.q /\ y.n = n /\ y.phase = "answered" /\ y.reply = s.reply
  BY CallFields
<1> HIDE DEF y, did
<1>7. tale' = [tale EXCEPT ![n].done = did] /\ did \in Doing
  BY <1>3, <1>4 DEF did, Doing
<1>8. tale' \in Tales /\ Len(tale') = Len(tale)
  <2> HIDE DEF n
  <2>1. tale' \in Tales
    BY <1>2, <1>7, DoesAnew
  <2>2. Len(tale') = Len(tale)
    BY <1>2, <1>7, DoesAnew
  <2> QED
    BY <2>1, <2>2
<1>9. \A m \in 1 .. Len(tale) : /\ tale'[m].done = IF m = n THEN did ELSE tale[m].done
                                /\ tale'[m].told = tale[m].told
  BY <1>2, <1>7, DoesAnew
<1>10. DOMAIN tale = 1 .. Len(tale) /\ DOMAIN tale' = 1 .. Len(tale)
  BY <1>2, <1>8 DEF Tales
<1>11. tale[n].told = "pending"
  BY <1>2 DEF Open
<1>12. Types'
  BY <1>1, <1>4, <1>5, <1>8 DEF IInv, Types
<1>13. CallsOpen'
  <2>1. Open(call[c])'
    <3>1. call'[c] = y
      BY <1>5
    <3>2. tale'[n].told = "pending" /\ tale'[n].done = did
      BY <1>2, <1>9, <1>11
    <3>3. Asked(x.q) /\ n \in 1 .. Len(tale')
      BY <1>2, <1>8 DEF Open
    <3> HIDE DEF x, n
    <3> QED
      BY <1>4, <1>6, <3>1, <3>2, <3>3 DEF Open
  <2>2. ASSUME NEW b \in Client, b # c, call[b] # Idle
        PROVE  Open(call[b])'
    <3>1. call'[b] = call[b] /\ Open(call[b])
      BY <1>5, <2>2, OpenCall
    <3>2. call[b].n # n
      BY <1>2, <2>2, <3>1 DEF Open, IInv, CallsApart
    <3> HIDE DEF n
    <3> QED
      BY <1>8, <1>9, <3>1, <3>2 DEF Open
  <2> QED
    BY <1>5, <2>1, <2>2 DEF CallsOpen
<1>14. CallsApart'
  BY <1>5, <1>6 DEF IInv, CallsApart
<1>15. OrphansOpen'
  <2> SUFFICES ASSUME NEW o \in orphans, Orphan(o)
               PROVE  Orphan(o)'
    BY <1>1 DEF IInv, OrphansOpen
  <2>1. o.n # n
    BY <1>1 DEF Orphan
  <2>2. \A b \in Client : call'[b].n = o.n => call'[b] = call[b]
    BY <1>5, <1>6, <2>1
  <2> HIDE DEF n, x
  <2> QED
    BY <1>1, <1>8, <1>9, <2>1, <2>2 DEF Orphan
<1>16. SuccessIsDone' /\ DenialChangesNothing'
  BY <1>9, <1>10, <1>11 DEF IInv, SuccessIsDone, DenialChangesNothing
<1> QED
  BY <1>12, <1>13, <1>14, <1>15, <1>16 DEF IInv

LEMMA OrphanedStep ==
  ASSUME IInv, NEW o \in orphans, Orphaned(o)
  PROVE  IInv'
<1> DEFINE n == o.n
<1>1. UNCHANGED <<call, link>> /\ orphans' \subseteq orphans
  BY DEF Orphaned
<1>2. Orphan(o) /\ tale \in Tales /\ n \in 1 .. Len(tale)
  BY DEF IInv, Types, OrphansOpen, Orphan
<1>3. CASE UNCHANGED <<db, tale>>
  <2>1. Types' /\ CallsOpen' /\ CallsApart'
    BY <1>1, <1>3 DEF IInv, Types, Lists, CallsOpen, CallsApart, Open
  <2>2. OrphansOpen'
    BY <1>1, <1>3 DEF IInv, OrphansOpen, Orphan
  <2>3. SuccessIsDone' /\ DenialChangesNothing'
    BY <1>3 DEF IInv, SuccessIsDone, DenialChangesNothing
  <2> QED
    BY <2>1, <2>2, <2>3 DEF IInv
<1>4. ASSUME NEW s \in Effects(db, o.q.op, Sent(o.q), Printed(o.q)),
             db' = s.db, tale' = [tale EXCEPT ![n].done = Done(s.db)]
      PROVE  IInv'
  <2> DEFINE did == Done(s.db)
  <2>1. Lists(db') /\ did \in {"same", "changed"}
    BY <1>2, <1>4, Served DEF Orphan
  <2> HIDE DEF did
  <2>2. tale' = [tale EXCEPT ![n].done = did] /\ did \in Doing /\ did # "no"
    BY <1>4, <2>1 DEF did, Doing
  <2>3. tale' \in Tales /\ Len(tale') = Len(tale)
    <3> HIDE DEF n
    <3>1. tale' \in Tales
      BY <1>2, <2>2, DoesAnew
    <3>2. Len(tale') = Len(tale)
      BY <1>2, <2>2, DoesAnew
    <3> QED
      BY <3>1, <3>2
  <2>4. \A m \in 1 .. Len(tale) : /\ tale'[m].done = IF m = n THEN did ELSE tale[m].done
                                  /\ tale'[m].told = tale[m].told
    BY <1>2, <2>2, DoesAnew
  <2>5. DOMAIN tale = 1 .. Len(tale) /\ DOMAIN tale' = 1 .. Len(tale)
    BY <1>2, <2>3 DEF Tales
  <2>6. tale[n].told \in {"pending", "swallowed", "unknown"}
    BY <1>2 DEF Orphan
  <2>7. Types'
    BY <1>1, <2>1, <2>3 DEF IInv, Types
  <2>8. CallsOpen'
    <3>1. ASSUME NEW b \in Client, call[b] # Idle
          PROVE  Open(call[b])'
      <4>1. Open(call[b]) /\ (call[b].n = n => call[b].phase = "sent")
        BY <1>2, <3>1, OpenCall DEF Orphan
      <4> HIDE DEF n
      <4> QED
        BY <1>1, <2>3, <2>4, <4>1 DEF Open
    <3> QED
      BY <1>1, <3>1 DEF CallsOpen
  <2>9. CallsApart'
    BY <1>1 DEF IInv, CallsApart
  <2>10. OrphansOpen'
    BY <1>1, <2>3, <2>4 DEF IInv, OrphansOpen, Orphan
  <2>11. SuccessIsDone' /\ DenialChangesNothing'
    BY <2>2, <2>4, <2>5, <2>6 DEF IInv, SuccessIsDone, DenialChangesNothing
  <2> QED
    BY <2>7, <2>8, <2>9, <2>10, <2>11 DEF IInv
<1> QED
  BY <1>3, <1>4 DEF Orphaned

LEMMA InitIInv == Init => IInv
<1> SUFFICES ASSUME Init PROVE IInv
  OBVIOUS
<1>1. \A e : IsEntry(e) => Entered(e)
  <2> SUFFICES ASSUME NEW e, IsEntry(e) PROVE Entered(e)
    OBVIOUS
  <2>1. DOMAIN e = {"type", "str", "list", "hash", "volatile"}
    BY DEF IsEntry
  <2>2. e.list \in Seq(Stored)
    BY DEF IsEntry
  <2> QED
    BY <2>1, <2>2, Zenon DEF Entered
<1>2. Lists(db)
  BY <1>1, DatabaseAssumption DEF Init, Lists, DatabaseType
<1>3. tale \in Tales /\ DOMAIN tale = {}
  <2>1. tale = <<>>
    BY DEF Init
  <2>2. DOMAIN <<>> = {} /\ \A S : <<>> \in Seq(S)
    OBVIOUS
  <2>3. <<>> \in Tales
    BY <2>2, Zenon DEF Tales
  <2> QED
    BY <2>1, <2>2, <2>3
<1>4. Types
  BY <1>2, <1>3 DEF Init, Types
<1>5. CallsOpen /\ CallsApart /\ OrphansOpen
  BY IdleFields DEF Init, CallsOpen, CallsApart, OrphansOpen
<1>6. SuccessIsDone /\ DenialChangesNothing
  BY <1>3 DEF SuccessIsDone, DenialChangesNothing
<1> QED
  BY <1>4, <1>5, <1>6 DEF IInv

LEMMA NextIInv == IInv /\ [Next]_vars => IInv'
<1> SUFFICES ASSUME IInv, [Next]_vars PROVE IInv'
  OBVIOUS
<1>1. CASE UNCHANGED vars
  <2>1. Types' /\ CallsOpen' /\ CallsApart' /\ OrphansOpen'
    BY <1>1 DEF vars, IInv, Types, Lists, CallsOpen, CallsApart, OrphansOpen, Open, Orphan
  <2>2. SuccessIsDone' /\ DenialChangesNothing'
    BY <1>1 DEF vars, IInv, SuccessIsDone, DenialChangesNothing
  <2> QED
    BY <2>1, <2>2 DEF IInv
<1>2. ASSUME NEW c \in Client, Send(c) PROVE IInv'
  BY <1>2, SendStep
<1>3. ASSUME NEW c \in Client, Refuse(c) PROVE IInv'
  <2>1. "denied" \in Telling \ {"confirmed"}
    BY DEF Telling
  <2> QED
    BY <1>3, <2>1, EndedAtOnce DEF Refuse
<1>4. ASSUME NEW c \in Client, FailFast(c) PROVE IInv'
  <2>1. PICK op, r : /\ tale' = Append(tale, Tale(Told(op, r), "no"))
                     /\ r = NullReply \/ \E t : r = ErrorReply(t)
    BY <1>4, Zenon DEF FailFast
  <2>2. Told(op, r) \in Telling \ {"confirmed"}
    BY <2>1, ToldWithoutReply, ToldType DEF Telling
  <2>3. UNCHANGED <<db, orphans, call, link>>
    BY <1>4 DEF FailFast
  <2> QED
    BY <2>1, <2>2, <2>3, EndedAtOnce
<1>5. ASSUME NEW c \in Client, Receive(c) PROVE IInv'
  <2>1. call[c] # Idle
    BY <1>5, IdleFields DEF Receive
  <2>2. link' = link /\ link = [b \in Client |-> link[b]]
    BY <1>5 DEF Receive, IInv, Types
  <2> QED
    BY <1>5, <2>1, <2>2, ReturnStep DEF Receive
<1>6. ASSUME NEW c \in Client, ReceiveNothing(c) PROVE IInv'
  <2>1. link' = [b \in Client |-> IF b = c THEN "broken" ELSE link[b]]
    BY <1>6 DEF ReceiveNothing, IInv, Types
  <2> QED
    BY <1>6, <2>1, ReturnStep DEF ReceiveNothing
<1>7. ASSUME NEW c \in Client, Connect(c) \/ Dies(c) PROVE IInv'
  BY <1>7, Relinked DEF Connect, Dies, MayCall
<1>8. ASSUME NEW c \in Client, Apply(c) PROVE IInv'
  BY <1>8, ApplyStep
<1>9. ASSUME NEW c \in Client, LinkDrop(c) PROVE IInv'
  BY <1>9, LinkDropStep
<1>10. ASSUME NEW k \in Key, Vanish(k) PROVE IInv'
  BY <1>10, VanishStep
<1>11. ASSUME NEW o \in orphans, Orphaned(o) PROVE IInv'
  BY <1>11, OrphanedStep
<1>12. ASSUME NEW c \in Client, DiesStoring(c) PROVE IInv'
  BY <1>12, DiesStoringStep
<1> QED
  BY <1>1, <1>2, <1>3, <1>4, <1>5, <1>6, <1>7, <1>8, <1>9, <1>10, <1>11, <1>12 DEF Next

-----------------------------------------------------------------------------

\* What has been told and done, for every call, is as the invariant has it.
THEOREM IInvHolds == Spec => []IInv
BY InitIInv, NextIInv, PTL DEF Spec

\* Whatever the callers ask, whatever the server holds and whichever connections
\* end: a method that returns true has had its command carried out, mset() if
\* reasonCode() is REDIS_NO_ERROR as well.
THEOREM SuccessIsTrue == Spec => []SuccessIsDone
<1>1. IInv => SuccessIsDone
  BY DEF IInv
<1> QED
  BY IInvHolds, <1>1, PTL

\* A method that fails with a code of its own, neither REDIS_REPLY_NULL nor
\* REDIS_NIL, has changed nothing at the server, then or later.
THEOREM DenialIsFinal == Spec => []DenialChangesNothing
<1>1. IInv => DenialChangesNothing
  BY DEF IInv
<1> QED
  BY IInvHolds, <1>1, PTL

-----------------------------------------------------------------------------
(* Sequences that are put together.                                        *)

\* Induction from one on, up to a bound.
LEMMA FromOneOn ==
  ASSUME NEW n \in Nat, NEW G, 1 \in G, \A k \in 2 .. n : k - 1 \in G => k \in G
  PROVE  \A k \in 1 .. n : k \in G
<1> DEFINE Bad == (1 .. n) \ G
           less == OpToRel(<, Nat)
<1>1. SUFFICES ASSUME Bad # {} PROVE FALSE
  OBVIOUS
<1>2. Bad \subseteq Nat
  OBVIOUS
<1>3. PICK k \in Bad : \A j \in Bad : <<j, k>> \notin less
  BY <1>1, <1>2, WFMin, NatLessThanWellFounded, Zenon
<1>4. \A i, j \in Nat : i < j => <<i, j>> \in less
  BY Z3 DEF OpToRel
<1>5. \A j \in Bad : ~(j < k)
  BY <1>2, <1>3, <1>4, Zenon
<1> HIDE DEF less
<1>6. k \in 2 .. n
  OBVIOUS
<1>7. k - 1 \notin Bad
  BY <1>5, <1>6
<1> QED
  BY <1>6, <1>7

\* f holds what there is of ss so far, after each of its sequences.
Joins(f, ss, n) == f[1] = ss[1] /\ \A i \in 2 .. n : f[i] = f[i - 1] \o ss[i]

\* FlattenSeq() puts the sequences one behind the other.
LEMMA Flattens ==
  ASSUME NEW n \in Nat \ {0}, NEW ss, DOMAIN ss = 1 .. n, Len(ss) = n
  PROVE  \E f : FlattenSeq(ss) = f[n] /\ Joins(f, ss, n)
<1> DEFINE Is(f, k) == f = [i \in 1 .. k |-> IF i = 1 THEN ss[i] ELSE f[i - 1] \o ss[i]]
           G == {k \in 1 .. n : \E f : Is(f, k)}
           flat == CHOOSE f : Is(f, n)
<1>1. 1 \in G
  <2>1. Is([i \in 1 .. 1 |-> ss[i]], 1)
    OBVIOUS
  <2>2. 1 \in 1 .. n
    OBVIOUS
  <2> HIDE DEF Is
  <2> QED
    BY <2>1, <2>2, Zenon
<1>2. ASSUME NEW k \in 2 .. n, k - 1 \in G PROVE k \in G
  <2>1. PICK g : Is(g, k - 1)
    BY <1>2
  <2> DEFINE f == [i \in 1 .. k |-> IF i = k THEN g[k - 1] \o ss[k] ELSE g[i]]
  <2>2. \A i \in 1 .. k - 1 : f[i] = g[i]
    OBVIOUS
  <2>3. ASSUME NEW i \in 1 .. k
        PROVE  f[i] = IF i = 1 THEN ss[i] ELSE f[i - 1] \o ss[i]
    <3>1. CASE i = k
      <4>1. f[i] = g[k - 1] \o ss[k]
        BY <3>1
      <4>2. f[i - 1] = g[k - 1] /\ i # 1
        BY <2>2, <3>1
      <4> QED
        BY <3>1, <4>1, <4>2
    <3>2. CASE i # k
      <4>1. i \in 1 .. k - 1
        BY <3>2
      <4>2. f[i] = g[i]
        BY <2>2, <4>1
      <4>3. g[i] = IF i = 1 THEN ss[i] ELSE g[i - 1] \o ss[i]
        BY <2>1, <4>1
      <4>4. i # 1 => f[i - 1] = g[i - 1]
        BY <2>2, <4>1
      <4> HIDE DEF f
      <4> QED
        BY <4>2, <4>3, <4>4
    <3> QED
      BY <3>1, <3>2
  <2>4. f = [i \in 1 .. k |-> f[i]]
    OBVIOUS
  <2> HIDE DEF f
  <2>5. Is(f, k)
    BY <2>3, <2>4
  <2>6. k \in 1 .. n
    OBVIOUS
  <2> HIDE DEF Is
  <2> QED
    BY <2>5, <2>6, Zenon
<1>3. n \in G
  <2> HIDE DEF G
  <2> QED
    BY <1>1, <1>2, FromOneOn
<1>4. Is(flat, n)
  <2> HIDE DEF Is
  <2> QED
    BY <1>3, Zenon
<1>5. FlattenSeq(ss) = flat[n]
  BY DEF FlattenSeq
<1> HIDE DEF flat
<1>6. \A i \in 1 .. n : flat[i] = IF i = 1 THEN ss[i] ELSE flat[i - 1] \o ss[i]
  BY <1>4, Zenon
<1>7. flat[1] = ss[1] /\ \A i \in 2 .. n : flat[i] = flat[i - 1] \o ss[i]
  <2>1. 1 \in 1 .. n /\ \A i \in 2 .. n : i \in 1 .. n /\ i # 1
    OBVIOUS
  <2> QED
    BY <1>6, <2>1, Zenon
<1> QED
  BY <1>5, <1>7, Zenon DEF Joins

\* What is put together from sequences over S is one over S.
LEMMA FlattenType ==
  ASSUME NEW S, NEW ss \in Seq(Seq(S))
  PROVE  FlattenSeq(ss) \in Seq(S)
<1> DEFINE n == Len(ss)
<1>1. n \in Nat /\ DOMAIN ss = 1 .. n /\ \A i \in 1 .. n : ss[i] \in Seq(S)
  OBVIOUS
<1>2. CASE n = 0
  <2>1. ss = <<>> /\ FlattenSeq(ss) = ss
    BY <1>2 DEF FlattenSeq
  <2>2. <<>> \in Seq(S)
    OBVIOUS
  <2> QED
    BY <2>1, <2>2
<1>3. CASE n # 0
  <2> HIDE DEF n
  <2>1. Len(ss) = n
    BY DEF n
  <2>2. PICK f : FlattenSeq(ss) = f[n] /\ Joins(f, ss, n)
    <3>1. n \in Nat \ {0} /\ DOMAIN ss = 1 .. n /\ Len(ss) = n
      BY <1>1, <1>3, <2>1
    <3> QED
      BY <3>1, Flattens, Zenon
  <2> DEFINE G == {k \in 1 .. n : f[k] \in Seq(S)}
  <2>3. 1 \in G
    BY <1>1, <1>3, <2>2 DEF Joins
  <2>4. ASSUME NEW k \in 2 .. n, k - 1 \in G PROVE k \in G
    <3>1. k \in 1 .. n
      BY <1>1
    <3>2. f[k] = f[k - 1] \o ss[k] /\ f[k - 1] \in Seq(S) /\ ss[k] \in Seq(S)
      BY <1>1, <2>2, <2>4, <3>1, Zenon DEF Joins
    <3>3. f[k - 1] \o ss[k] \in Seq(S)
      BY <3>2, ConcatProperties
    <3> QED
      BY <3>1, <3>2, <3>3, Zenon
  <2>5. n \in G
    <3>1. n \in 1 .. n
      BY <1>1, <1>3
    <3> HIDE DEF G
    <3> QED
      BY <1>1, <1>3, <2>3, <2>4, <3>1, FromOneOn, Zenon
  <2> QED
    BY <2>2, <2>5
<1> QED
  BY <1>2, <1>3

\* A joined command whose arguments are single words is the arguments.
LEMMA FlattenWords ==
  ASSUME NEW S, NEW a \in Seq(S), NEW ss, ss = [i \in DOMAIN a |-> <<a[i]>>]
  PROVE  FlattenSeq(ss) = a
<1> DEFINE n == Len(a)
<1>1. n \in Nat /\ DOMAIN a = 1 .. n /\ DOMAIN ss = 1 .. n /\ \A i \in 1 .. n : ss[i] = <<a[i]>>
  OBVIOUS
<1>2. ss \in Seq(Seq(S)) /\ Len(ss) = n
  <2>1. \A i \in 1 .. n : <<a[i]>> \in Seq(S)
    OBVIOUS
  <2> QED
    BY <1>1, <2>1
<1>3. CASE n = 0
  BY <1>1, <1>2, <1>3 DEF FlattenSeq
<1>4. CASE n # 0
  <2> HIDE DEF n
  <2>1. PICK f : FlattenSeq(ss) = f[n] /\ Joins(f, ss, n)
    <3>1. n \in Nat \ {0} /\ DOMAIN ss = 1 .. n /\ Len(ss) = n
      BY <1>1, <1>2, <1>4
    <3> QED
      BY <3>1, Flattens, Zenon
  <2> DEFINE G == {k \in 1 .. n : f[k] = [i \in 1 .. k |-> a[i]]}
  <2>2. 1 \in G
    BY <1>1, <1>4, <2>1 DEF Joins
  <2>3. ASSUME NEW k \in 2 .. n, k - 1 \in G PROVE k \in G
    <3>0. k \in 1 .. n
      BY <1>1
    <3>1. f[k] = [i \in 1 .. k - 1 |-> a[i]] \o <<a[k]>>
      BY <1>1, <2>1, <2>3, <3>0, Zenon DEF Joins
    <3> DEFINE p == [i \in 1 .. k - 1 |-> a[i]]
    <3>2. p \in Seq(S) /\ Len(p) = k - 1 /\ \A i \in 1 .. k - 1 : p[i] = a[i]
      <4>1. \A i \in 1 .. k - 1 : a[i] \in S
        BY <1>1
      <4> QED
        BY <4>1
    <3> HIDE DEF p
    <3>3. DOMAIN (p \o <<a[k]>>) = 1 .. k /\ \A i \in 1 .. k : (p \o <<a[k]>>)[i] = a[i]
      BY <3>2
    <3>4. p \o <<a[k]>> = [i \in 1 .. k |-> (p \o <<a[k]>>)[i]]
      BY <3>2, <3>3
    <3>5. [i \in 1 .. k |-> (p \o <<a[k]>>)[i]] = [i \in 1 .. k |-> a[i]]
      BY <3>3
    <3> QED
      BY <3>0, <3>1, <3>4, <3>5, Zenon DEF p
  <2>4. n \in G
    <3>1. n \in 1 .. n
      BY <1>1, <1>4
    <3> HIDE DEF G
    <3> QED
      BY <1>1, <1>4, <2>2, <2>3, <3>1, FromOneOn, Zenon
  <2> QED
    BY <1>1, <2>1, <2>4
<1> QED
  BY <1>3, <1>4

\* FlattenSeq(Zip(s, t)): the elements of s and t by turns.
LEMMA AlternatedPairs ==
  ASSUME NEW S, NEW s \in Seq(S), NEW t \in Seq(S), Len(s) = Len(t)
  PROVE  /\ Alternated(s, t) \in Seq(S) /\ Len(Alternated(s, t)) = 2 * Len(s)
         /\ \A i \in 1 .. Len(s) : /\ Alternated(s, t)[2 * i - 1] = s[i]
                                   /\ Alternated(s, t)[2 * i] = t[i]
<1> DEFINE n == Len(s)
           zs == Zip(s, t)
<1>1. /\ n \in Nat /\ \A i \in 1 .. n : s[i] \in S /\ t[i] \in S
      /\ DOMAIN s = 1 .. n /\ DOMAIN t = 1 .. n
  OBVIOUS
<1>2. zs = [i \in 1 .. n |-> <<s[i], t[i]>>]
  BY DEF Zip
<1>3. /\ DOMAIN zs = 1 .. n /\ Len(zs) = n
      /\ \A i \in 1 .. n : zs[i] = <<s[i], t[i]>>
  BY <1>1, <1>2
<1> HIDE DEF zs
<1>4. Alternated(s, t) = FlattenSeq(zs)
  BY DEF Alternated, zs
<1>5. CASE n = 0
  <2>1. FlattenSeq(zs) = zs /\ zs = <<>>
    BY <1>2, <1>3, <1>5 DEF FlattenSeq
  <2> QED
    BY <1>4, <1>5, <2>1
<1>6. CASE n # 0
  <2> HIDE DEF n
  <2>1. PICK f : FlattenSeq(zs) = f[n] /\ Joins(f, zs, n)
    <3>1. n \in Nat \ {0} /\ DOMAIN zs = 1 .. n /\ Len(zs) = n
      BY <1>1, <1>3, <1>6
    <3> QED
      BY <3>1, Flattens, Zenon
  <2> DEFINE Good(k, x) == /\ x \in Seq(S) /\ Len(x) = 2 * k
                           /\ \A i \in 1 .. k : x[2 * i - 1] = s[i] /\ x[2 * i] = t[i]
             G == {k \in 1 .. n : Good(k, f[k])}
  <2>2. 1 \in G
    <3>1. 1 \in 1 .. n /\ f[1] = <<s[1], t[1]>> /\ s[1] \in S /\ t[1] \in S
      BY <1>1, <1>3, <1>6, <2>1 DEF Joins
    <3>2. Good(1, <<s[1], t[1]>>)
      BY <3>1
    <3> QED
      BY <3>1, <3>2
  <2>3. ASSUME NEW k \in 2 .. n, k - 1 \in G PROVE k \in G
    <3> DEFINE x == f[k - 1]
               y == <<s[k], t[k]>>
    <3>0. k \in 1 .. n
      BY <1>1
    <3>1. f[k] = x \o y /\ Good(k - 1, x)
      BY <1>3, <2>1, <2>3, <3>0, Zenon DEF Joins
    <3>2. y \in Seq(S) /\ Len(y) = 2 /\ y[1] = s[k] /\ y[2] = t[k]
      BY <1>1, <3>0
    <3> HIDE DEF x, y
    <3>6. Len(x) = 2 * k - 2
      BY <3>1
    <3>3. x \o y \in Seq(S) /\ Len(x \o y) = 2 * k
      <4>1. x \in Seq(S)
        BY <3>1
      <4>2. x \o y \in Seq(S) /\ Len(x \o y) = Len(x) + Len(y)
        BY <3>2, <4>1, ConcatProperties
      <4> QED
        BY <3>2, <3>6, <4>2
    <3>7. \A j \in 1 .. Len(x) + Len(y) :
            (x \o y)[j] = IF j <= Len(x) THEN x[j] ELSE y[j - Len(x)]
      <4>1. x \in Seq(S) /\ y \in Seq(S)
        BY <3>1, <3>2
      <4> QED
        BY <4>1
    <3>4. ASSUME NEW i \in 1 .. k
          PROVE  (x \o y)[2 * i - 1] = s[i] /\ (x \o y)[2 * i] = t[i]
      <4>1. CASE i = k
        <5>1. (x \o y)[2 * k - 1] = y[1] /\ (x \o y)[2 * k] = y[2]
          <6>1. 2 * k - 1 \in 1 .. Len(x) + Len(y) /\ 2 * k \in 1 .. Len(x) + Len(y)
            BY <3>2, <3>6
          <6>2. /\ ~(2 * k - 1 <= Len(x)) /\ ~(2 * k <= Len(x))
                /\ (2 * k - 1) - Len(x) = 1 /\ 2 * k - Len(x) = 2
            BY <3>6
          <6> HIDE <3>6
          <6> QED
            BY <3>7, <6>1, <6>2, Zenon
        <5> QED
          BY <3>2, <4>1, <5>1
      <4>2. CASE i # k
        <5>1. i \in 1 .. k - 1 /\ 2 * i - 1 \in 1 .. Len(x) /\ 2 * i \in 1 .. Len(x)
          BY <3>6, <4>2
        <5>2. (x \o y)[2 * i - 1] = x[2 * i - 1] /\ (x \o y)[2 * i] = x[2 * i]
          <6>1. 2 * i - 1 \in 1 .. Len(x) + Len(y) /\ 2 * i \in 1 .. Len(x) + Len(y)
            BY <3>2, <3>6, <5>1
          <6>2. 2 * i - 1 <= Len(x) /\ 2 * i <= Len(x)
            BY <3>6, <5>1
          <6> QED
            BY <3>7, <6>1, <6>2, Zenon
        <5> QED
          BY <3>1, <5>1, <5>2
      <4> QED
        BY <4>1, <4>2
    <3>5. Good(k, x \o y)
      BY <3>3, <3>4
    <3> HIDE DEF Good
    <3> QED
      BY <3>0, <3>1, <3>5, Zenon
  <2>4. n \in G
    <3>1. n \in 1 .. n
      BY <1>1, <1>6
    <3> HIDE DEF G
    <3> QED
      BY <1>1, <1>6, <2>2, <2>3, <3>1, FromOneOn, Zenon
  <2>5. Good(n, FlattenSeq(zs))
    BY <2>1, <2>4
  <2> HIDE DEF G
  <2> QED
    BY <1>4, <2>5 DEF n
<1> QED
  BY <1>5, <1>6

\* The members of a finite set can be listed.
LEMMA SetListed ==
  ASSUME NEW S, IsFiniteSet(S)
  PROVE  /\ SetToSeq(S) \in Seq(S) /\ Len(SetToSeq(S)) = Cardinality(S) /\ Cardinality(S) \in Nat
         /\ DOMAIN SetToSeq(S) = 1 .. Cardinality(S)
         /\ \A x \in S : \E i \in 1 .. Cardinality(S) : SetToSeq(S)[i] = x
         /\ \A i, j \in 1 .. Cardinality(S) : SetToSeq(S)[i] = SetToSeq(S)[j] => i = j
<1> DEFINE n == Cardinality(S)
           f == SetToSeq(S)
<1>1. n \in Nat /\ ExistsBijection(1 .. n, S)
  BY FS_CardinalityType
<1> HIDE DEF n
<1>2. \E g \in [1 .. n -> S] : IsInjective(g)
  BY <1>1 DEF ExistsBijection, Bijection, Injection
<1>3. f \in [1 .. n -> S] /\ IsInjective(f)
  BY <1>2 DEF SetToSeq, n
<1> HIDE DEF f
<1>4. f \in Injection(1 .. n, S)
  BY <1>3 DEF Injection
<1>5. Cardinality(1 .. n) = Cardinality(S)
  BY <1>1, FS_Interval DEF n
<1>6. f \in Surjection(1 .. n, S)
  BY <1>4, <1>5, FS_Injection
<1>7. \A x \in S : \E i \in 1 .. n : f[i] = x
  BY <1>6 DEF Surjection
<1>8. \A i, j \in 1 .. n : f[i] = f[j] => i = j
  BY <1>3 DEF IsInjective
<1>9. f \in Seq(S) /\ Len(f) = n /\ DOMAIN f = 1 .. n
  BY <1>1, <1>3
<1> QED
  BY <1>1, <1>7, <1>8, <1>9 DEF f, n

-----------------------------------------------------------------------------
(* What methods send.                                                      *)

\* What a request is made of.
LEMMA RequestShape ==
  ASSUME NEW op \in Method \ {"expireat"}, NEW q \in Requests(op)
  PROVE  /\ q.op = op /\ q.names \in NamesOf(op) /\ q.vals \in ValuesOf(op, q.names)
         /\ q.n \in IntegersOf(op)
         /\ q.key \in IF op \in Keyless THEN {NoStr} ELSE CallKey
<1> DEFINE Of(names) ==
      { Request(op, k, names, vals, n) :
          k \in IF op \in Keyless THEN {NoStr} ELSE CallKey,
          vals \in ValuesOf(op, names),
          n \in IntegersOf(op) \ IF op = "setex" THEN {0} ELSE {} }
<1>1. PICK names \in NamesOf(op) : q \in Of(names)
  <2>1. Requests(op) = UNION { Of(names) : names \in NamesOf(op) }
    BY DEF Requests
  <2> HIDE DEF Of
  <2> QED
    BY <2>1
<1>2. PICK k \in (IF op \in Keyless THEN {NoStr} ELSE CallKey), vals \in ValuesOf(op, names),
           n \in IntegersOf(op) :
        q = Request(op, k, names, vals, n)
  BY <1>1
<1>3. q.op = op /\ q.key = k /\ q.names = names /\ q.vals = vals /\ q.n = n
  BY <1>2 DEF Request
<1> QED
  BY <1>1, <1>2, <1>3

\* Commands of a key and one word, and of a key and two.
TwoWords == {"rename", "renamenx", "set", "setnx", "setex", "getset", "lset",
             "hget", "hexists", "hstrlen", "hdel", "hincrby", "hincrbyfloat"}
ThreeWords == Insert \cup {"hset", "hsetnx"}

\* The words of a command a method sends.
WellSent(op, a) ==
  /\ a \in Seq(Stored)
  /\ op \notin Keyless => a # <<>> /\ a[1] \in Key
  /\ op = "mget" => ToSet(a) \subseteq Key
  /\ op \in TwoWords => Len(a) = 2
  /\ op \in ThreeWords => Len(a) = 3
  /\ op \in {"rename", "renamenx"} => a[2] \in Key

\* A sequence of one word.
LEMMA OneWord ==
  ASSUME NEW S, NEW T, T \subseteq S, NEW x \in {<<v>> : v \in T}
  PROVE  x \in Seq(S) /\ Len(x) = 1 /\ x[1] \in T
<1>1. PICK v \in T : x = <<v>>
  OBVIOUS
<1>2. v \in S
  OBVIOUS
<1> QED
  BY <1>1, <1>2

\* A word in front of others.
LEMMA Headed ==
  ASSUME NEW S, NEW k \in S, NEW s \in Seq(S)
  PROVE  /\ <<k>> \o s \in Seq(S) /\ Len(<<k>> \o s) = 1 + Len(s) /\ <<k>> \o s # <<>>
         /\ (<<k>> \o s)[1] = k
         /\ \A i \in 1 .. Len(s) : (<<k>> \o s)[i + 1] = s[i]
<1>1. <<k>> \in Seq(S) /\ Len(<<k>>) = 1 /\ <<k>>[1] = k
  OBVIOUS
<1>2. Len(s) \in Nat
  OBVIOUS
<1>3. <<k>> \o s \in Seq(S) /\ Len(<<k>> \o s) = 1 + Len(s)
  BY <1>1, ConcatProperties
<1>4. \A i \in 1 .. 1 + Len(s) : (<<k>> \o s)[i] = IF i <= 1 THEN <<k>>[i] ELSE s[i - 1]
  BY <1>1, ConcatProperties
<1>5. (<<k>> \o s)[1] = k
  BY <1>1, <1>2, <1>4
<1>6. \A i \in 1 .. Len(s) : (<<k>> \o s)[i + 1] = s[i]
  <2> SUFFICES ASSUME NEW i \in 1 .. Len(s) PROVE (<<k>> \o s)[i + 1] = s[i]
    OBVIOUS
  <2>1. i + 1 \in 1 .. 1 + Len(s) /\ ~(i + 1 <= 1) /\ (i + 1) - 1 = i
    BY <1>2
  <2> QED
    BY <1>4, <2>1
<1>7. <<k>> \o s # <<>>
  <2>1. \A x : x = <<>> => Len(x) = 0
    OBVIOUS
  <2> QED
    BY <1>2, <1>3, <2>1
<1> QED
  BY <1>3, <1>5, <1>6, <1>7

\* The names a method is called with are texts.
LEMMA NamesType ==
  ASSUME NEW op \in Method, NEW names \in NamesOf(op)
  PROVE  /\ names \in Seq(Stored)
         /\ op \in (TwoWords \ {"set", "setnx", "setex", "getset", "lset"}) \cup ThreeWords
              => Len(names) = 1
         /\ op \in {"set", "setnx", "setex", "getset", "lset"} => names = <<>>
         /\ op \in {"rename", "renamenx"} => names[1] \in Key
<1> DEFINE P == /\ names \in Seq(Stored)
                /\ op \in (TwoWords \ {"set", "setnx", "setex", "getset", "lset"}) \cup ThreeWords
                     => Len(names) = 1
                /\ op \in {"set", "setnx", "setex", "getset", "lset"} => names = <<>>
                /\ op \in {"rename", "renamenx"} => names[1] \in Key
<1>0. /\ KeyLists \subseteq Seq(Stored) /\ FieldLists \subseteq Seq(Stored)
      /\ Key \subseteq Stored /\ Field \subseteq Stored /\ Value \subseteq Stored
  BY StoreAssumption
<1>1. CASE op \in Keyless
  BY <1>0, <1>1 DEF NamesOf, Keyless, TwoWords, ThreeWords, Insert
<1>2. CASE op \in {"hmset", "hmget"}
  BY <1>0, <1>2 DEF NamesOf, Keyless, TwoWords, ThreeWords, Insert
<1>3. CASE op \in {"rename", "renamenx"}
  <2>1. names \in {<<k>> : k \in Key}
    BY <1>3 DEF NamesOf, Keyless
  <2>2. names \in Seq(Stored) /\ Len(names) = 1 /\ names[1] \in Key
    BY <1>0, <2>1, OneWord
  <2> QED
    BY <1>3, <2>2
<1>4. CASE op \in Insert
  <2>1. names \in {<<v>> : v \in Value}
    BY <1>4 DEF NamesOf, Keyless, Insert
  <2>2. names \in Seq(Stored) /\ Len(names) = 1
    BY <1>0, <2>1, OneWord
  <2> QED
    BY <1>4, <2>2 DEF Insert
<1>5. CASE op \in ((HashRead \cup HashWrite) \ WholeHash) \ {"hmset", "hmget"}
  <2>1. names \in {<<f>> : f \in Field}
    BY <1>5 DEF NamesOf, Keyless, Insert, HashRead, HashWrite
  <2>2. names \in Seq(Stored) /\ Len(names) = 1
    BY <1>0, <2>1, OneWord
  <2> QED
    BY <1>5, <2>2 DEF HashRead, HashWrite
<1>6. CASE op \notin Keyless \cup {"hmset", "hmget", "rename", "renamenx"} \cup Insert
                      \cup ((HashRead \cup HashWrite) \ WholeHash)
  <2>1. names = <<>>
    BY <1>6 DEF NamesOf
  <2>2. op \notin (TwoWords \ {"set", "setnx", "setex", "getset", "lset"}) \cup ThreeWords
    BY <1>6 DEF TwoWords, ThreeWords, HashRead, HashWrite, WholeHash
  <2>3. <<>> \in Seq(Stored)
    OBVIOUS
  <2> QED
    BY <1>6, <2>1, <2>2, <2>3
<1> QED
  BY <1>1, <1>2, <1>3, <1>4, <1>5, <1>6

\* So are the values.
LEMMA ValuesType ==
  ASSUME NEW op \in Method, NEW names \in Seq(Stored), NEW vals \in ValuesOf(op, names)
  PROVE  /\ vals \in Seq(Stored)
         /\ op \in Pairing => Len(vals) = Len(names)
         /\ op \in TwoWords \ {"set", "setnx", "setex", "getset", "lset"} => vals = <<>>
         /\ op \in {"set", "setnx", "setex", "getset", "lset"} \cup ThreeWords => Len(vals) = 1
         /\ op \in Read => vals = <<>>
<1>0. /\ Value \subseteq Stored /\ Decimal[0] \in Stored /\ Decimal[1] \in Stored
  BY StoreAssumption, CommandsAssumption
<1>1. CASE op \in Pairing
  <2>1. vals \in [DOMAIN names -> Value]
    BY <1>1 DEF ValuesOf
  <2>2. DOMAIN names = 1 .. Len(names) /\ Len(names) \in Nat
    OBVIOUS
  <2>3. vals \in [1 .. Len(names) -> Stored]
    BY <1>0, <2>1, <2>2
  <2>4. vals \in Seq(Stored) /\ Len(vals) = Len(names)
    BY <2>2, <2>3
  <2> QED
    BY <1>1, <2>4 DEF Pairing, TwoWords, ThreeWords, Insert, Read, KeyRead, StringRead, ListRead, HashRead
<1>2. CASE op \in OneValued
  <2>0. op \notin Pairing
    BY <1>2 DEF Pairing, OneValued, Insert
  <2>1. vals \in {<<v>> : v \in Value}
    BY <1>2, <2>0 DEF ValuesOf
  <2>2. vals \in Seq(Stored) /\ Len(vals) = 1
    BY <1>0, <2>1, OneWord
  <2> QED
    BY <1>2, <2>0, <2>2 DEF OneValued, TwoWords, ThreeWords, Insert, Read, KeyRead, StringRead, ListRead, HashRead
<1>3. CASE op = "setbit"
  <2>1. vals \in {<<Decimal[0]>>, <<Decimal[1]>>}
    BY <1>3 DEF ValuesOf, Pairing, OneValued, Insert
  <2>2. vals \in {<<v>> : v \in {Decimal[0], Decimal[1]}}
    BY <2>1
  <2>3. vals \in Seq(Stored)
    BY <1>0, <2>2, OneWord
  <2> QED
    BY <1>3, <2>3 DEF Pairing, TwoWords, ThreeWords, Insert, Read, KeyRead, StringRead, ListRead, HashRead
<1>4. CASE op \notin Pairing \cup OneValued \cup {"setbit"}
  <2>1. vals = <<>>
    BY <1>4 DEF ValuesOf
  <2>2. <<>> \in Seq(Stored)
    OBVIOUS
  <2> QED
    BY <1>4, <2>1, <2>2 DEF OneValued, ThreeWords
<1> QED
  BY <1>1, <1>2, <1>3, <1>4

\* The arguments of a joined command are texts.
LEMMA ArgumentsType ==
  ASSUME NEW op \in Method \ {"expireat"}, NEW q \in Requests(op)
  PROVE  /\ Arguments(q) \in Seq(Stored)
         /\ op \notin Pairing \cup Keyless =>
              Arguments(q) = <<q.key>> \o (q.names \o q.vals)
         /\ op = "mget" => Arguments(q) = q.names
<1>1. /\ q.op = op /\ q.names \in Seq(Stored) /\ q.vals \in Seq(Stored)
      /\ op \in Pairing => Len(q.vals) = Len(q.names)
      /\ op = "mget" => q.vals = <<>>
  BY RequestShape, NamesType, ValuesType DEF Read, StringRead
<1>2. (IF op \in Keyless THEN <<>> ELSE <<q.key>>) \in Seq(Stored)
  <2>1. CallKey \subseteq Stored
    BY StoreAssumption
  <2>2. op \notin Keyless => q.key \in Stored
    BY <2>1, RequestShape
  <2> QED
    BY <2>2
<1>3. (IF op \in Pairing THEN Alternated(q.names, q.vals) ELSE q.names \o q.vals) \in Seq(Stored)
  <2>1. op \in Pairing => Alternated(q.names, q.vals) \in Seq(Stored)
    BY <1>1, AlternatedPairs
  <2>2. q.names \o q.vals \in Seq(Stored)
    BY <1>1
  <2> QED
    BY <2>1, <2>2
<1>4. Arguments(q) = (IF op \in Keyless THEN <<>> ELSE <<q.key>>)
                     \o IF op \in Pairing THEN Alternated(q.names, q.vals) ELSE q.names \o q.vals
  BY <1>1 DEF Arguments
<1>5. Arguments(q) \in Seq(Stored)
  BY <1>2, <1>3, <1>4, ConcatProperties
<1>6. op = "mget" => Arguments(q) = q.names
  <2>1. op = "mget" => Arguments(q) = <<>> \o (q.names \o <<>>)
    BY <1>1, <1>4 DEF Pairing, Keyless
  <2>2. <<>> \o (q.names \o <<>>) = q.names
    BY <1>1
  <2> QED
    BY <2>1, <2>2
<1> QED
  BY <1>4, <1>5, <1>6

\* Each argument of a joined command in the words it falls into.
Split(a) == [i \in DOMAIN a |-> Words[a[i]]]

\* The words of texts are texts.
LEMMA SplitType ==
  ASSUME NEW a \in Seq(Stored)
  PROVE  /\ Split(a) \in Seq(Seq(Stored)) /\ FlattenSeq(Split(a)) \in Seq(Stored)
         /\ DOMAIN Split(a) = 1 .. Len(a) /\ Len(Split(a)) = Len(a)
         /\ \A i \in 1 .. Len(a) : Split(a)[i] = Words[a[i]]
<1>1. Words \in [Stored -> Seq(Stored)]
  BY StoreAssumption
<1>2. DOMAIN a = 1 .. Len(a) /\ Len(a) \in Nat /\ \A i \in 1 .. Len(a) : a[i] \in Stored
  OBVIOUS
<1>3. Split(a) \in [1 .. Len(a) -> Seq(Stored)]
  BY <1>1, <1>2 DEF Split
<1>4. Split(a) \in Seq(Seq(Stored)) /\ Len(Split(a)) = Len(a)
  BY <1>2, <1>3
<1> QED
  BY <1>2, <1>3, <1>4, FlattenType DEF Split

\* Of sequences that are joined, the first and not empty one is in front, and
\* nothing is there that is in none of them.
LEMMA FlattenFirst ==
  ASSUME NEW S, NEW ss \in Seq(Seq(S)), Len(ss) # 0, ss[1] # <<>>
  PROVE  FlattenSeq(ss) # <<>> /\ FlattenSeq(ss)[1] = ss[1][1]
<1>1. PICK n \in Nat \ {0} : n = Len(ss)
  OBVIOUS
<1>2. DOMAIN ss = 1 .. n /\ \A i \in 1 .. n : ss[i] \in Seq(S)
  BY <1>1
<1>3. PICK f : FlattenSeq(ss) = f[n] /\ Joins(f, ss, n)
  BY <1>1, <1>2, Flattens, Zenon
<1> DEFINE Good(x) == x \in Seq(S) /\ x # <<>> /\ x[1] = ss[1][1]
           G == {k \in 1 .. n : Good(f[k])}
<1>4. 1 \in G
  BY <1>2, <1>3 DEF Joins
<1>5. ASSUME NEW k \in 2 .. n, k - 1 \in G PROVE k \in G
  <2>1. k \in 1 .. n
    OBVIOUS
  <2>2. f[k] = f[k - 1] \o ss[k] /\ Good(f[k - 1]) /\ ss[k] \in Seq(S)
    BY <1>2, <1>3, <1>5, <2>1, Zenon DEF Joins
  <2>3. ASSUME NEW x, Good(x), NEW y \in Seq(S)
        PROVE  Good(x \o y)
    BY <2>3
  <2> HIDE DEF Good
  <2> QED
    BY <2>1, <2>2, <2>3, Zenon
<1>6. n \in G
  <2>1. n \in Nat /\ n \in 1 .. n
    OBVIOUS
  <2> HIDE DEF G
  <2> QED
    BY <1>4, <1>5, <2>1, FromOneOn, Zenon
<1> QED
  BY <1>3, <1>6

LEMMA FlattenElements ==
  ASSUME NEW S, NEW ss \in Seq(Seq(S)), NEW T,
         \A i \in 1 .. Len(ss) : ss[i] \in Seq(T)
  PROVE  FlattenSeq(ss) \in Seq(T)
<1>1. ss \in Seq(Seq(T))
  <2>1. DOMAIN ss = 1 .. Len(ss) /\ Len(ss) \in Nat /\ ss = [i \in 1 .. Len(ss) |-> ss[i]]
    OBVIOUS
  <2>2. ss \in [1 .. Len(ss) -> Seq(T)]
    BY <2>1
  <2> QED
    BY <2>1, <2>2
<1> QED
  BY <1>1, FlattenType

\* Every method sends words that its command can be carried out on.
LEMMA RequestsWellSent ==
  ASSUME NEW op \in Method \ {"expireat"}, NEW q \in Requests(op)
  PROVE  WellSent(op, Sent(q))
<1> DEFINE a == Arguments(q)
           P(b) == /\ op \notin Keyless => b # <<>> /\ b[1] \in Key
                   /\ op = "mget" => ToSet(b) \subseteq Key
                   /\ op \in TwoWords => Len(b) = 2
                   /\ op \in ThreeWords => Len(b) = 3
                   /\ op \in {"rename", "renamenx"} => b[2] \in Key
<1>1. q.op = op /\ a \in Seq(Stored)
  BY RequestShape, ArgumentsType
<1>2. CallKey \subseteq Key /\ (op \notin Keyless => q.key \in CallKey)
  BY RequestShape, StoreAssumption
<1>3. /\ q.names \in Seq(Stored) /\ q.vals \in Seq(Stored)
      /\ q.names \in NamesOf(op)
  BY RequestShape, NamesType, ValuesType
<1>4. CASE op \notin Joining
  <2>1. Sent(q) = a
    BY <1>1, <1>4 DEF Sent
  <2>2. a = <<q.key>> \o (q.names \o q.vals) /\ op \notin Keyless /\ op # "mget"
    BY <1>4, ArgumentsType DEF Joining, Pairing, Keyless
  <2>3. /\ op \in TwoWords => Len(q.names) + Len(q.vals) = 1
        /\ op \in ThreeWords => Len(q.names) + Len(q.vals) = 2
        /\ op \in {"rename", "renamenx"} => q.names[1] \in Key /\ Len(q.names) = 1
    <3>1. /\ op \in (TwoWords \ {"set", "setnx", "setex", "getset", "lset"}) \cup ThreeWords
               => Len(q.names) = 1
          /\ op \in {"set", "setnx", "setex", "getset", "lset"} => q.names = <<>>
          /\ op \in {"rename", "renamenx"} => q.names[1] \in Key
      BY <1>3, NamesType
    <3>2. /\ op \in TwoWords \ {"set", "setnx", "setex", "getset", "lset"} => q.vals = <<>>
          /\ op \in {"set", "setnx", "setex", "getset", "lset"} \cup ThreeWords => Len(q.vals) = 1
      BY <1>3, RequestShape, ValuesType
    <3>3. /\ q.names = <<>> => Len(q.names) = 0
          /\ q.vals = <<>> => Len(q.vals) = 0
          /\ "rename" \in TwoWords /\ "renamenx" \in TwoWords
      BY DEF TwoWords
    <3>4. /\ op \in TwoWords => \/ Len(q.names) = 0 /\ Len(q.vals) = 1
                                \/ Len(q.names) = 1 /\ Len(q.vals) = 0
          /\ op \in ThreeWords => Len(q.names) = 1 /\ Len(q.vals) = 1
      <4> DEFINE Fixed == {"set", "setnx", "setex", "getset", "lset"}
      <4>1. /\ op \in Fixed => Len(q.names) = 0 /\ Len(q.vals) = 1
            /\ op \in TwoWords /\ op \notin Fixed => Len(q.names) = 1 /\ Len(q.vals) = 0
            /\ op \in ThreeWords => Len(q.names) = 1 /\ Len(q.vals) = 1
        BY <3>1, <3>2, <3>3
      <4> HIDE DEF Fixed
      <4> QED
        BY <4>1
    <3>5. op \in {"rename", "renamenx"} => q.names[1] \in Key /\ Len(q.names) = 1
      BY <3>1, <3>3 DEF TwoWords
    <3>6. 0 + 1 = 1 /\ 1 + 0 = 1 /\ 1 + 1 = 2
      OBVIOUS
    <3>7. op \in TwoWords => Len(q.names) + Len(q.vals) = 1
      BY <3>4, <3>6
    <3>8. op \in ThreeWords => Len(q.names) + Len(q.vals) = 2
      BY <3>4, <3>6
    <3> QED
      BY <3>5, <3>7, <3>8
  <2>4. q.names \o q.vals \in Seq(Stored) /\ Len(q.names \o q.vals) = Len(q.names) + Len(q.vals)
    BY <1>3
  <2>5. /\ Len(a) = 1 + (Len(q.names) + Len(q.vals)) /\ a[1] = q.key /\ a # <<>>
        /\ Len(q.names) = 1 => a[2] = q.names[1]
    <3> DEFINE w == q.names \o q.vals
    <3>1. Len(q.names) = 1 => w[1] = q.names[1] /\ 1 \in 1 .. Len(w)
      <4>1. \A i \in 1 .. Len(q.names) + Len(q.vals) :
              w[i] = IF i <= Len(q.names) THEN q.names[i] ELSE q.vals[i - Len(q.names)]
        BY <1>3, ConcatProperties
      <4>2. Len(q.vals) \in Nat /\ Len(w) = Len(q.names) + Len(q.vals)
        BY <1>3, <2>4
      <4> HIDE DEF w
      <4> QED
        BY <4>1, <4>2
    <3>2. q.key \in Stored
      BY <1>2, <2>2, StoreAssumption
    <3> HIDE DEF w
    <3>3. /\ Len(<<q.key>> \o w) = 1 + Len(w) /\ <<q.key>> \o w # <<>>
          /\ (<<q.key>> \o w)[1] = q.key
          /\ \A i \in 1 .. Len(w) : (<<q.key>> \o w)[i + 1] = w[i]
      <4>1. w \in Seq(Stored)
        BY <2>4 DEF w
      <4> QED
        BY <3>2, <4>1, Headed
    <3>4. Len(q.names) = 1 => (<<q.key>> \o w)[2] = q.names[1]
      BY <3>1, <3>3
    <3> QED
      BY <2>2, <2>4, <3>3, <3>4 DEF w
  <2>6. /\ op \in TwoWords => Len(a) = 2
        /\ op \in ThreeWords => Len(a) = 3
    <3> HIDE DEF a
    <3>1. 1 + 1 = 2 /\ 1 + 2 = 3
      OBVIOUS
    <3> QED
      BY <2>3, <2>5, <3>1
  <2>7. op \in {"rename", "renamenx"} => a[2] \in Key
    BY <2>3, <2>5
  <2>8. a # <<>> /\ a[1] \in Key
    BY <1>2, <2>2, <2>5
  <2> HIDE DEF a
  <2> QED
    BY <1>1, <2>1, <2>2, <2>6, <2>7, <2>8 DEF WellSent
<1>5. CASE op \in Joining
  <2>1. Sent(q) = FlattenSeq(Split(a))
    BY <1>1, <1>5 DEF Sent, Split
  <2>2. Sent(q) \in Seq(Stored)
    BY <1>1, <2>1, SplitType
  <2>3. op \notin TwoWords \cup ThreeWords
    BY <1>5 DEF Joining, Keyless, TwoWords, ThreeWords, Insert
  <2>4. ASSUME op \notin Keyless PROVE Sent(q) # <<>> /\ Sent(q)[1] \in Key
    <3>1. a = <<q.key>> \o (IF op \in Pairing THEN Alternated(q.names, q.vals) ELSE q.names \o q.vals)
      BY <1>1, <2>4 DEF Arguments
    <3>2. (IF op \in Pairing THEN Alternated(q.names, q.vals) ELSE q.names \o q.vals) \in Seq(Stored)
      <4>1. op \in Pairing => Alternated(q.names, q.vals) \in Seq(Stored)
        BY <1>3, RequestShape, ValuesType, AlternatedPairs
      <4> QED
        BY <1>3, <4>1
    <3>3. Len(a) # 0 /\ a[1] = q.key /\ Len(a) \in Nat /\ 1 \in 1 .. Len(a)
      <4>1. q.key \in Stored
        BY <1>2, <2>4, StoreAssumption
      <4> DEFINE w == IF op \in Pairing THEN Alternated(q.names, q.vals) ELSE q.names \o q.vals
      <4>2. w \in Seq(Stored) /\ a = <<q.key>> \o w
        BY <3>1, <3>2
      <4> HIDE DEF w, a
      <4>3. Len(a) = 1 + Len(w) /\ a[1] = q.key /\ Len(w) \in Nat
        BY <4>1, <4>2, Headed
      <4> QED
        BY <4>3
    <3>4. Words[q.key] # <<>> /\ Words[q.key][1] \in Key
      BY <1>2, <2>4, StoreAssumption
    <3> HIDE DEF a
    <3>5. Split(a)[1] = Words[q.key] /\ Len(Split(a)) # 0 /\ Split(a) \in Seq(Seq(Stored))
      BY <1>1, <3>3, SplitType
    <3> QED
      BY <2>1, <3>4, <3>5, FlattenFirst
  <2>5. ASSUME op = "mget" PROVE ToSet(Sent(q)) \subseteq Key
    <3>1. a = q.names /\ q.names \in KeyLists
      BY <1>3, <2>5, ArgumentsType DEF NamesOf, Keyless
    <3> HIDE DEF a
    <3>2. \A i \in DOMAIN a : ToSet(Words[a[i]]) \subseteq Key
      BY <3>1, StoreAssumption
    <3>3. \A i \in 1 .. Len(Split(a)) : Split(a)[i] \in Seq(Key)
      <4> SUFFICES ASSUME NEW i \in 1 .. Len(Split(a)) PROVE Split(a)[i] \in Seq(Key)
        OBVIOUS
      <4>1. i \in DOMAIN a /\ Split(a)[i] = Words[a[i]] /\ Split(a)[i] \in Seq(Stored)
        BY <1>1, SplitType
      <4>2. ToSet(Split(a)[i]) \subseteq Key
        BY <3>2, <4>1
      <4> QED
        BY <4>1, <4>2 DEF ToSet
    <3>4. Sent(q) \in Seq(Key)
      BY <1>1, <2>1, <3>3, SplitType, FlattenElements
    <3> QED
      BY <3>4 DEF ToSet
  <2> QED
    BY <1>5, <2>2, <2>3, <2>4, <2>5 DEF WellSent, TwoWords
<1> QED
  BY <1>4, <1>5

-----------------------------------------------------------------------------
(* Databases that commands leave well-formed.                              *)

\* A function that can be a hash.
IsHash(h) ==
  h \in [DOMAIN h -> Stored] /\ IsFiniteSet(DOMAIN h) /\ DOMAIN h \subseteq Stored

\* The empty hash is one.
LEMMA EmptyHash ==
  /\ IsHash(<<>>)
  /\ \A h : IsHash(h) => (h = <<>> <=> DOMAIN h = {})
<1>1. DOMAIN <<>> = {} /\ <<>> \in [DOMAIN <<>> -> Stored]
  OBVIOUS
<1>2. IsHash(<<>>)
  BY <1>1, FS_EmptySet DEF IsHash
<1>3. ASSUME NEW h, IsHash(h), DOMAIN h = {} PROVE h = <<>>
  BY <1>1, <1>3 DEF IsHash
<1> QED
  BY <1>1, <1>2, <1>3

\* The entries there are.
Record(type, str, list, hash, v) ==
  [type |-> type, str |-> str, list |-> list, hash |-> hash, volatile |-> v]

Parts == {"type", "str", "list", "hash", "volatile"}

\* The parts of an entry.
LEMMA RecordParts ==
  ASSUME NEW x
  PROVE  /\ x = [p \in Parts |-> x[p]] <=> x = Record(x.type, x.str, x.list, x.hash, x.volatile)
         /\ \A T, S, L, H, V :
              x = [p \in Parts |-> x[p]] /\ x.type = T /\ x.str = S /\ x.list = L /\ x.hash = H
              /\ x.volatile = V => x = Record(T, S, L, H, V)
<1>1. ASSUME NEW T, NEW S, NEW L, NEW H, NEW V, x = [p \in Parts |-> x[p]],
             x.type = T, x.str = S, x.list = L, x.hash = H, x.volatile = V
      PROVE  x = Record(T, S, L, H, V)
  BY <1>1 DEF Record, Parts
<1>2. ASSUME NEW T, NEW S, NEW L, NEW H, NEW V
      PROVE  Record(T, S, L, H, V) = [p \in Parts |-> Record(T, S, L, H, V)[p]]
  BY DEF Record, Parts
<1>3. ASSUME x = Record(x.type, x.str, x.list, x.hash, x.volatile)
      PROVE  x = [p \in Parts |-> x[p]]
  <2>1. PICK T, S, L, H, V : x = Record(T, S, L, H, V)
    BY <1>3, Zenon
  <2>2. Record(T, S, L, H, V) = [p \in Parts |-> Record(T, S, L, H, V)[p]]
    BY <1>2
  <2> QED
    BY <2>1, <2>2, Zenon
<1> QED
  BY <1>1, <1>3

\* An entry with a part replaced.
LEMMA RecordChanges ==
  ASSUME NEW x, x = Record(x.type, x.str, x.list, x.hash, x.volatile)
  PROVE  /\ \A v : [x EXCEPT !.volatile = v] = Record(x.type, x.str, x.list, x.hash, v)
         /\ \A T, t : [x EXCEPT !.type = T, !.str = t] = Record(T, t, x.list, x.hash, x.volatile)
         /\ \A l : [x EXCEPT !.list = l] = Record(x.type, x.str, l, x.hash, x.volatile)
         /\ \A T, h : [x EXCEPT !.type = T, !.hash = h] = Record(T, x.str, x.list, h, x.volatile)
<1>1. x = [p \in Parts |-> x[p]]
  BY RecordParts
<1>2. ASSUME NEW v
      PROVE  [x EXCEPT !.volatile = v] = Record(x.type, x.str, x.list, x.hash, v)
  <2> DEFINE y == [x EXCEPT !.volatile = v]
  <2>1. /\ y = [p \in Parts |-> y[p]] /\ y.type = x.type /\ y.str = x.str /\ y.list = x.list
        /\ y.hash = x.hash /\ y.volatile = v
    BY <1>1 DEF Parts
  <2> HIDE DEF y
  <2> QED
    BY <2>1, RecordParts DEF y
<1>3. ASSUME NEW T, NEW t
      PROVE  [x EXCEPT !.type = T, !.str = t] = Record(T, t, x.list, x.hash, x.volatile)
  <2> DEFINE y == [x EXCEPT !.type = T, !.str = t]
  <2>1. /\ y = [p \in Parts |-> y[p]] /\ y.type = T /\ y.str = t /\ y.list = x.list
        /\ y.hash = x.hash /\ y.volatile = x.volatile
    BY <1>1 DEF Parts
  <2> HIDE DEF y
  <2> QED
    BY <2>1, RecordParts DEF y
<1>4. ASSUME NEW l
      PROVE  [x EXCEPT !.list = l] = Record(x.type, x.str, l, x.hash, x.volatile)
  <2> DEFINE y == [x EXCEPT !.list = l]
  <2>1. /\ y = [p \in Parts |-> y[p]] /\ y.type = x.type /\ y.str = x.str /\ y.list = l
        /\ y.hash = x.hash /\ y.volatile = x.volatile
    BY <1>1 DEF Parts
  <2> HIDE DEF y
  <2> QED
    BY <2>1, RecordParts DEF y
<1>5. ASSUME NEW T, NEW h
      PROVE  [x EXCEPT !.type = T, !.hash = h] = Record(T, x.str, x.list, h, x.volatile)
  <2> DEFINE y == [x EXCEPT !.type = T, !.hash = h]
  <2>1. /\ y = [p \in Parts |-> y[p]] /\ y.type = T /\ y.str = x.str /\ y.list = x.list
        /\ y.hash = h /\ y.volatile = x.volatile
    BY <1>1 DEF Parts
  <2> HIDE DEF y
  <2> QED
    BY <2>1, RecordParts DEF y
<1> QED
  BY <1>2, <1>3, <1>4, <1>5

\* The entries that commands make are well-formed.
LEMMA EntryForms ==
  /\ IsEntry(Absent)
  /\ \A t, v : t \in Stored /\ v \in BOOLEAN => IsEntry(Record("string", t, <<>>, <<>>, v))
  /\ \A l, v : l \in Seq(Stored) /\ l # <<>> /\ v \in BOOLEAN
                 => IsEntry(Record("list", NoStr, l, <<>>, v))
  /\ \A h, v : IsHash(h) /\ h # <<>> /\ v \in BOOLEAN
                 => IsEntry(Record("hash", NoStr, <<>>, h, v))
<1>0. <<>> \in Seq(Stored) /\ IsHash(<<>>) /\ NoStr \notin Stored
  BY EmptyHash, CommandsAssumption
<1> USE DEF Record
<1>1. IsEntry(Absent)
  BY <1>0 DEF IsEntry, IsHash, Absent, Entry
<1>2. ASSUME NEW t \in Stored, NEW v \in BOOLEAN PROVE IsEntry(Record("string", t, <<>>, <<>>, v))
  BY <1>0 DEF IsEntry, IsHash, Absent, Entry
<1>3. ASSUME NEW l \in Seq(Stored), l # <<>>, NEW v \in BOOLEAN
      PROVE  IsEntry(Record("list", NoStr, l, <<>>, v))
  BY <1>0, <1>3 DEF IsEntry, IsHash, Absent, Entry
<1>4. ASSUME NEW h, IsHash(h), h # <<>>, NEW v \in BOOLEAN
      PROVE  IsEntry(Record("hash", NoStr, <<>>, h, v))
  BY <1>0, <1>4 DEF IsEntry, IsHash, Absent, Entry
<1> QED
  BY <1>1, <1>2, <1>3, <1>4

\* What a well-formed entry is made of.
LEMMA EntryIs ==
  ASSUME NEW e, IsEntry(e)
  PROVE  /\ e = Record(e.type, e.str, e.list, e.hash, e.volatile)
         /\ e.type \in {"none", "string", "list", "hash"} /\ e.volatile \in BOOLEAN
         /\ e.list \in Seq(Stored) /\ IsHash(e.hash)
         /\ e.type # "string" => e.str = NoStr
         /\ e.type = "string" => e.str \in Stored
         /\ e.type # "list" => e.list = <<>>
         /\ e.type = "list" => e.list # <<>>
         /\ e.type # "hash" => e.hash = <<>>
         /\ e.type = "hash" => e.hash # <<>>
         /\ e = Absent <=> e.type = "none"
BY DEF IsEntry, IsHash, Record

\* Changes that leave an entry well-formed.
LEMMA EntryChanges ==
  ASSUME NEW e, IsEntry(e)
  PROVE  /\ \A t \in Stored : IsEntry(String(t)) /\ IsEntry(Volatile(String(t)))
         /\ e # Absent => IsEntry(Volatile(e)) /\ IsEntry(Lasting(e))
         /\ \A t \in Stored : e.type \in {"none", "string"} =>
              IsEntry([e EXCEPT !.type = "string", !.str = t])
         /\ \A l \in Seq(Stored) : e.type = "list" => IsEntry(Relisted(e, l))
         /\ \A h : IsHash(h) /\ e.type \in {"none", "hash"} => IsEntry(Rehashed(e, h))
<1> DEFINE T == e.type
           S == e.str
           L == e.list
           H == e.hash
           V == e.volatile
<1>1. /\ e = Record(T, S, L, H, V)
      /\ T \in {"none", "string", "list", "hash"} /\ V \in BOOLEAN
      /\ L \in Seq(Stored) /\ IsHash(H)
      /\ T # "string" => S = NoStr
      /\ T = "string" => S \in Stored
      /\ T # "list" => L = <<>>
      /\ T = "list" => L # <<>>
      /\ T # "hash" => H = <<>>
      /\ T = "hash" => H # <<>>
      /\ e = Absent <=> T = "none"
  BY EntryIs
<1>2. /\ \A t : String(t) = Record("string", t, <<>>, <<>>, FALSE)
      /\ \A t : Volatile(String(t)) = Record("string", t, <<>>, <<>>, TRUE)
  <2>1. ASSUME NEW t PROVE String(t) = Record("string", t, <<>>, <<>>, FALSE)
    BY DEF String, Entry, Record
  <2>2. ASSUME NEW t PROVE Volatile(String(t)) = Record("string", t, <<>>, <<>>, TRUE)
    <3>1. /\ String(t).type = "string" /\ String(t).str = t /\ String(t).list = <<>>
          /\ String(t).hash = <<>>
      BY <2>1 DEF Record
    <3>2. String(t) = Record(String(t).type, String(t).str, String(t).list, String(t).hash,
                             String(t).volatile)
      BY <2>1, <3>1 DEF Record
    <3> QED
      BY <3>1, <3>2, RecordChanges DEF Volatile
  <2> QED
    BY <2>1, <2>2
<1> HIDE DEF T, S, L, H, V
<1>3. /\ Volatile(e) = Record(T, S, L, H, TRUE)
      /\ Lasting(e) = Record(T, S, L, H, FALSE)
      /\ \A t : [e EXCEPT !.type = "string", !.str = t] = Record("string", t, L, H, V)
      /\ \A l : [e EXCEPT !.list = l] = Record(T, S, l, H, V)
      /\ \A h : [e EXCEPT !.type = "hash", !.hash = h] = Record("hash", S, L, h, V)
  BY <1>1, RecordChanges DEF Volatile, Lasting, T, S, L, H, V
<1>4. \A t \in Stored : IsEntry(String(t)) /\ IsEntry(Volatile(String(t)))
  BY <1>2, EntryForms
<1>5. ASSUME e # Absent PROVE IsEntry(Volatile(e)) /\ IsEntry(Lasting(e))
  <2>1. ASSUME NEW v \in BOOLEAN PROVE IsEntry(Record(T, S, L, H, v))
    <3>1. CASE T = "string"
      <4>1. Record(T, S, L, H, v) = Record("string", S, <<>>, <<>>, v) /\ S \in Stored
        BY <1>1, <3>1
      <4> QED
        BY <4>1, EntryForms
    <3>2. CASE T = "list"
      <4>1. Record(T, S, L, H, v) = Record("list", NoStr, L, <<>>, v) /\ L # <<>>
        BY <1>1, <3>2
      <4> QED
        BY <1>1, <4>1, EntryForms
    <3>3. CASE T = "hash"
      <4>1. Record(T, S, L, H, v) = Record("hash", NoStr, <<>>, H, v) /\ H # <<>>
        BY <1>1, <3>3
      <4> QED
        BY <1>1, <4>1, EntryForms
    <3> QED
      BY <1>1, <1>5, <3>1, <3>2, <3>3
  <2>2. TRUE \in BOOLEAN /\ FALSE \in BOOLEAN
    OBVIOUS
  <2> QED
    BY <1>3, <2>1, <2>2
<1>6. ASSUME NEW t \in Stored, T \in {"none", "string"}
      PROVE  IsEntry([e EXCEPT !.type = "string", !.str = t])
  <2>1. L = <<>> /\ H = <<>>
    BY <1>1, <1>6
  <2>2. [e EXCEPT !.type = "string", !.str = t] = Record("string", t, <<>>, <<>>, V)
    BY <1>3, <2>1
  <2> QED
    BY <1>1, <2>2, EntryForms
<1>7. ASSUME NEW l \in Seq(Stored), T = "list" PROVE IsEntry(Relisted(e, l))
  <2>1. S = NoStr /\ H = <<>>
    BY <1>1, <1>7
  <2>2. [e EXCEPT !.list = l] = Record("list", NoStr, l, <<>>, V)
    BY <1>3, <1>7, <2>1
  <2>3. l # <<>> => IsEntry(Record("list", NoStr, l, <<>>, V))
    BY <1>1, EntryForms
  <2> QED
    BY <2>2, <2>3, EntryForms DEF Relisted
<1>8. ASSUME NEW h, IsHash(h), T \in {"none", "hash"} PROVE IsEntry(Rehashed(e, h))
  <2>1. DOMAIN h # {} => h # <<>>
    BY <1>8, EmptyHash
  <2>2. S = NoStr /\ L = <<>>
    BY <1>1, <1>8
  <2>3. [e EXCEPT !.type = "hash", !.hash = h] = Record("hash", NoStr, <<>>, h, V)
    BY <1>3, <2>2
  <2>4. h # <<>> => IsEntry(Record("hash", NoStr, <<>>, h, V))
    BY <1>1, <1>8, EntryForms
  <2> QED
    BY <2>1, <2>3, <2>4, EntryForms DEF Rehashed
<1> QED
  BY <1>4, <1>5, <1>6, <1>7, <1>8 DEF T

\* A database stays well-formed when an entry is replaced.
LEMMA PutKeepsType ==
  ASSUME NEW d, DatabaseType(d), NEW k, NEW x, k \in Key => IsEntry(x)
  PROVE  DatabaseType([d EXCEPT ![k] = x])
<1>1. d = [j \in Key |-> d[j]] /\ \A j \in Key : IsEntry(d[j])
  BY DEF DatabaseType
<1>2. [d EXCEPT ![k] = x] = [j \in Key |-> IF j = k THEN x ELSE d[j]]
  BY <1>1
<1>3. \A j \in Key : IsEntry(IF j = k THEN x ELSE d[j])
  BY <1>1
<1> HIDE DEF IsEntry
<1> QED
  BY <1>2, <1>3, Zenon DEF DatabaseType

\* The greatest of some indices is one of them.
LEMMA MaxIn ==
  ASSUME NEW n \in Nat, NEW S, S \subseteq 1 .. n, S # {}
  PROVE  Max(S) \in S
<1> DEFINE D == {n - i : i \in S}
           less == OpToRel(<, Nat)
<1>1. D \subseteq Nat /\ D # {}
  <2>1. \A i \in S : n - i \in Nat
    OBVIOUS
  <2> QED
    BY <2>1
<1>2. PICK m \in D : \A j \in D : <<j, m>> \notin less
  BY <1>1, WFMin, NatLessThanWellFounded, Zenon
<1>3. \A i, j \in Nat : i < j => <<i, j>> \in less
  BY Z3 DEF OpToRel
<1>4. \A j \in D : ~(j < m)
  BY <1>1, <1>2, <1>3, Zenon
<1> HIDE DEF less
<1>5. PICK i \in S : m = n - i
  BY <1>2
<1>6. \A j \in S : i >= j
  <2> SUFFICES ASSUME NEW j \in S PROVE i >= j
    OBVIOUS
  <2>1. n - j \in D /\ i \in 1 .. n /\ j \in 1 .. n
    OBVIOUS
  <2>2. ~(n - j < n - i)
    BY <1>4, <1>5, <2>1
  <2> QED
    BY <2>1, <2>2
<1> QED
  BY <1>5, <1>6, Zenon DEF Max

\* Hashes put together are one.
LEMMA MergedHash ==
  ASSUME NEW g, IsHash(g), NEW h, IsHash(h)
  PROVE  IsHash(Merged(g, h))
<1>1. /\ DOMAIN Merged(g, h) = DOMAIN g \cup DOMAIN h
      /\ Merged(g, h) = [x \in DOMAIN g \cup DOMAIN h |-> IF x \in DOMAIN g THEN g[x] ELSE h[x]]
  BY DEF Merged
<1>2. IsFiniteSet(DOMAIN g \cup DOMAIN h)
  BY FS_Union DEF IsHash
<1>3. \A x \in DOMAIN g \cup DOMAIN h : (IF x \in DOMAIN g THEN g[x] ELSE h[x]) \in Stored
  BY DEF IsHash
<1>4. DOMAIN g \cup DOMAIN h \subseteq Stored
  BY DEF IsHash
<1> QED
  BY <1>1, <1>2, <1>3, <1>4 DEF IsHash

\* A hash of one field.
LEMMA OneField ==
  ASSUME NEW f \in Stored, NEW t \in Stored
  PROVE  IsHash(One(f, t))
<1>1. IsFiniteSet({f})
  BY FS_Singleton
<1> QED
  BY <1>1 DEF IsHash, One

\* A hash without some of its fields.
LEMMA SubHash ==
  ASSUME NEW h, IsHash(h), NEW f
  PROVE  IsHash([x \in DOMAIN h \ {f} |-> h[x]])
<1>1. IsFiniteSet(DOMAIN h \ {f})
  BY FS_Subset DEF IsHash
<1> QED
  BY <1>1 DEF IsHash

\* The pairs of a sequence of texts, from place i on.
LEMMA PairsType ==
  ASSUME NEW a \in Seq(Stored), NEW i \in Nat \ {0}
  PROVE  IsHash(Pairs(a, i))
<1> DEFINE n == Len(a)
           places == {j \in i .. n - 1 : (j - i) % 2 = 0}
           named == {a[j] : j \in places}
           At(x) == {j \in places : a[j] = x}
           p == [x \in named |-> a[Max(At(x)) + 1]]
<1>1. Pairs(a, i) = p
  BY DEF Pairs
<1>2. n \in Nat /\ \A j \in 1 .. n : a[j] \in Stored
  OBVIOUS
<1>3. places \subseteq 1 .. n /\ \A j \in places : j + 1 \in 1 .. n
  BY <1>2
<1> HIDE DEF n, places
<1>4. named \subseteq Stored
  BY <1>2, <1>3
<1>5. IsFiniteSet(named)
  <2>1. IsFiniteSet(1 .. n)
    BY <1>2, FS_Interval
  <2>2. IsFiniteSet(places)
    BY <1>3, <2>1, FS_Subset
  <2> DEFINE f == [j \in places |-> a[j]]
  <2>3. f \in Surjection(places, named)
    BY DEF Surjection
  <2> QED
    BY <2>2, <2>3, FS_Surjection
<1>6. ASSUME NEW x \in named PROVE p[x] \in Stored
  <2>1. At(x) # {} /\ At(x) \subseteq 1 .. n /\ At(x) \subseteq places
    BY <1>3
  <2>2. Max(At(x)) \in At(x)
    <3> HIDE DEF At
    <3> QED
      BY <1>2, <2>1, MaxIn
  <2>3. Max(At(x)) + 1 \in 1 .. n
    BY <1>3, <2>1, <2>2
  <2> HIDE DEF At
  <2> QED
    BY <1>2, <2>3
<1>7. DOMAIN p = named /\ p = [x \in named |-> p[x]]
  OBVIOUS
<1> HIDE DEF p, named
<1>8. p \in [DOMAIN p -> Stored]
  BY <1>6, <1>7
<1> QED
  BY <1>1, <1>4, <1>5, <1>7, <1>8 DEF IsHash

\* A text that can count counts to a number.
LEMMA CountedNumber ==
  ASSUME NEW t \in Stored \cup {NoStr}, NEW n \in Int, CanCount(t, n)
  PROVE  Counted(t, n) \in Number /\ Decimal[Counted(t, n)] \in Stored
<1>1. PICK m \in Meaning(t) : m + n \in Number
  BY DEF CanCount
<1>2. \A k \in Meaning(t) : k = m
  BY CommandsAssumption DEF Meaning
<1>3. (CHOOSE k \in Meaning(t) : TRUE) = m
  BY <1>2
<1>4. m \in Int
  BY CommandsAssumption DEF Meaning
<1>5. Counted(t, n) = m + n
  <2>1. Counted(t, n) = n + m
    BY <1>3 DEF Counted
  <2> QED
    BY <1>4, <2>1
<1> QED
  BY <1>1, <1>5, CommandsAssumption

-----------------------------------------------------------------------------
(* What replies hold.                                                      *)

Figures == Nat \cup {-1, -2} \cup Number
Floats  == {"incrbyfloat", "hincrbyfloat"}
Many    == {"mget", "hmget"}

ReplyTyped(op, r) ==
  /\ r.integer \in Figures /\ r.element \in Seq(Texts)
  /\ r.type # "ARRAY" => r.element = <<>>
  /\ ~Failed(ReplyError(r)) =>
       /\ op \in Many => r.type = "ARRAY"
       /\ op \in TextOut => r.str \in Texts \cup {Serialized}
       /\ op \in Floats => \E m \in Number : r.str = Decimal[m]

\* The replies that fit each method.
LEMMA RepliesTyped ==
  ASSUME NEW op
  PROVE  /\ \A t : ReplyTyped(op, ErrorReply(t))
         /\ ReplyTyped(op, NilReply) /\ ReplyTyped(op, NullReply)
         /\ op \notin Many \cup TextOut \cup Floats =>
              /\ \A i \in Figures : ReplyTyped(op, IntegerReply(i))
              /\ \A t : ReplyTyped(op, StatusReply(t))
         /\ op \notin Many \cup Floats =>
              \A t \in Texts \cup {Serialized} : ReplyTyped(op, StringReply(t))
         /\ op \notin TextOut \cup Floats =>
              \A es \in Seq(Texts) : ReplyTyped(op, ArrayReply(es))
         /\ op \in Floats => \A m \in Number : ReplyTyped(op, StringReply(Decimal[m]))
<1>1. <<>> \in Seq(Texts) /\ 0 \in Figures
  BY DEF Figures
<1>2. \A t : ReplyTyped(op, ErrorReply(t))
  BY <1>1 DEF ReplyTyped, ErrorReply, TextReply, ReplyError, Failed
<1>3. ReplyTyped(op, NilReply) /\ ReplyTyped(op, NullReply)
  BY <1>1 DEF ReplyTyped, NilReply, NullReply, TextReply, ReplyError, Failed, SetError
<1>4. ASSUME op \notin Many \cup TextOut \cup Floats
      PROVE  /\ \A i \in Figures : ReplyTyped(op, IntegerReply(i))
             /\ \A t : ReplyTyped(op, StatusReply(t))
  BY <1>1, <1>4 DEF ReplyTyped, IntegerReply, StatusReply, TextReply
<1>5. ASSUME op \notin Many \cup Floats, NEW t \in Texts \cup {Serialized}
      PROVE  ReplyTyped(op, StringReply(t))
  BY <1>1, <1>5 DEF ReplyTyped, StringReply, TextReply
<1>6. ASSUME op \notin TextOut \cup Floats, NEW es \in Seq(Texts)
      PROVE  ReplyTyped(op, ArrayReply(es))
  BY <1>1, <1>6 DEF ReplyTyped, ArrayReply, TextReply
<1>7. ASSUME op \in Floats, NEW m \in Number
      PROVE  ReplyTyped(op, StringReply(Decimal[m]))
  BY <1>1, <1>7 DEF ReplyTyped, StringReply, TextReply, Floats, TextOut, Many
<1> QED
  BY <1>2, <1>3, <1>4, <1>5, <1>6, <1>7

OutcomeTyped(op, s) == DatabaseType(s.db) /\ ReplyTyped(op, s.reply)

\* An outcome has the type of its parts.
LEMMA OutcomeIs ==
  ASSUME NEW op, NEW d, DatabaseType(d), NEW r, ReplyTyped(op, r)
  PROVE  OutcomeTyped(op, Outcome(d, r))
BY DEF OutcomeTyped, Outcome

-----------------------------------------------------------------------------
(* What commands answer and leave behind.                                  *)

\* Numbers a reply can carry.
LEMMA SmallNumbers ==
  /\ 0 \in Figures /\ 1 \in Figures /\ -1 \in Figures /\ -2 \in Figures
  /\ \A b : Flag(b) \in Figures
  /\ \A i \in Nat : i \in Figures
  /\ \A i \in Number : i \in Figures
BY DEF Figures, Flag

\* The four families of commands that write.
LEMMA KeyOutcomeTyped ==
  ASSUME NEW d, DatabaseType(d), NEW op \in KeyWrite, NEW a, NEW n \in Int, a[1] \in Key,
         op \in {"rename", "renamenx"} => a[2] \in Key
  PROVE  OutcomeTyped(op, KeyOutcome(d, op, a, n))
<1> DEFINE k == a[1]
           e == d[k]
           Put(x, i) == Outcome([d EXCEPT ![k] = x], IntegerReply(i))
<1>1. k \in Key /\ IsEntry(e) /\ IsEntry(Absent)
  BY EntryForms DEF DatabaseType
<1>2. op \notin Many \cup TextOut \cup Floats
  BY DEF KeyWrite, Many, TextOut, Floats
<1>3. (\A i \in Figures : ReplyTyped(op, IntegerReply(i))) /\ (\A t : ReplyTyped(op, StatusReply(t)))
      /\ (\A t : ReplyTyped(op, ErrorReply(t)))
  BY <1>2, RepliesTyped
<1>4. ASSUME NEW x, IsEntry(x), NEW i \in Figures PROVE OutcomeTyped(op, Put(x, i))
  BY <1>3, <1>4, PutKeepsType, OutcomeIs
<1>5. ASSUME NEW i \in Figures PROVE OutcomeTyped(op, Outcome(d, IntegerReply(i)))
  BY <1>3, OutcomeIs
<1>6. CASE op = "del"
  <2>1. KeyOutcome(d, op, a, n) = Put(Absent, Flag(e # Absent))
    BY <1>6 DEF KeyOutcome
  <2> HIDE DEF Put
  <2> QED
    BY <2>1, <1>1, <1>4, SmallNumbers
<1>7. CASE op = "expire"
  <2>1. \/ KeyOutcome(d, op, a, n) = Outcome(d, IntegerReply(0))
        \/ e # Absent /\ KeyOutcome(d, op, a, n) = Put(IF n <= 0 THEN Absent ELSE Volatile(e), 1)
    BY <1>7 DEF KeyOutcome
  <2>2. e # Absent => IsEntry(IF n <= 0 THEN Absent ELSE Volatile(e))
    BY <1>1, EntryChanges
  <2> HIDE DEF Put
  <2> QED
    BY <2>1, <2>2, <1>4, <1>5, SmallNumbers
<1>8. CASE op = "persist"
  <2>1. \/ KeyOutcome(d, op, a, n) = Outcome(d, IntegerReply(0))
        \/ e.volatile /\ KeyOutcome(d, op, a, n) = Put(Lasting(e), 1)
    <3> HIDE DEF Outcome, IntegerReply
    <3> QED
      BY <1>8, Zenon DEF KeyOutcome
  <2>2. e.volatile => IsEntry(Lasting(e))
    <3>1. e = Absent => ~e.volatile
      BY DEF Absent, Entry
    <3> QED
      BY <1>1, <3>1, EntryChanges
  <2> HIDE DEF Put
  <2> QED
    BY <2>1, <2>2, <1>4, <1>5, SmallNumbers
<1>9. CASE op \in {"rename", "renamenx"}
  <2> DEFINE moved == [d EXCEPT ![k] = Absent, ![a[2]] = e]
             r == IF op = "rename" THEN StatusReply("OK") ELSE IntegerReply(1)
  <2>1. \/ KeyOutcome(d, op, a, n) = Outcome(d, ErrorReply("no such key"))
        \/ KeyOutcome(d, op, a, n) = Outcome(d, IntegerReply(0))
        \/ KeyOutcome(d, op, a, n) = Outcome(moved, r)
    <3> HIDE DEF Outcome
    <3> QED
      BY <1>9 DEF KeyOutcome
  <2>2. DatabaseType(moved)
    BY <1>1, PutKeepsType
  <2>3. ReplyTyped(op, r)
    BY <1>3, SmallNumbers
  <2> HIDE DEF moved, r
  <2> QED
    BY <2>1, <2>2, <2>3, <1>3, <1>5, OutcomeIs, SmallNumbers
<1> QED
  BY <1>6, <1>7, <1>8, <1>9 DEF KeyWrite

\* The words of a command are texts.
LEMMA SentTexts ==
  ASSUME NEW op, NEW a, WellSent(op, a)
  PROVE  /\ op \in TwoWords \cup ThreeWords => a[2] \in Stored
         /\ op \in ThreeWords => a[3] \in Stored
<1>1. a \in Seq(Stored) /\ (op \in TwoWords => Len(a) = 2) /\ (op \in ThreeWords => Len(a) = 3)
  BY DEF WellSent
<1>2. op \in TwoWords => a[2] \in Stored
  BY <1>1
<1>3. op \in ThreeWords => a[2] \in Stored /\ a[3] \in Stored
  BY <1>1
<1> QED
  BY <1>2, <1>3

LEMMA StringOutcomeTyped ==
  ASSUME NEW d, DatabaseType(d), NEW op \in StringWrite, NEW a, WellSent(op, a), NEW n \in Int,
         ~WrongType(d, op, a)
  PROVE  OutcomeTyped(op, StringOutcome(d, op, a, n))
<1> DEFINE k == a[1]
           e == d[k]
           all == Pairs(a, 1)
           merged == [x \in DOMAIN d |-> IF x \in DOMAIN all THEN String(all[x]) ELSE d[x]]
<1>1. op \notin {"mset", "msetnx"} => k \in Key /\ IsEntry(e)
  BY DEF WellSent, DatabaseType, Keyless, StringWrite, Edit
<1>2. op \in {"getset", "incr", "incrbyfloat"} \cup Edit => e.type \in {"none", "string"}
  BY DEF WrongType, StringWrite, Edit
<1>3. op \in {"set", "setnx", "setex", "getset"} => a[2] \in Stored
  BY SentTexts DEF TwoWords
<1>4. ASSUME op \notin {"mset", "msetnx"}, NEW x, IsEntry(x), NEW r, ReplyTyped(op, r)
      PROVE  OutcomeTyped(op, Outcome([d EXCEPT ![k] = x], r))
  BY <1>4, PutKeepsType, OutcomeIs
<1>5. ASSUME NEW r, ReplyTyped(op, r) PROVE OutcomeTyped(op, Outcome(d, r))
  BY <1>5, OutcomeIs
<1>6. ASSUME op \notin TextOut \cup Floats
      PROVE  /\ \A i \in Figures : ReplyTyped(op, IntegerReply(i))
             /\ \A t : ReplyTyped(op, StatusReply(t))
  <2>1. op \notin Many
    BY DEF StringWrite, Edit, Many
  <2> QED
    BY <1>6, <2>1, RepliesTyped
<1>7. CASE op \in {"set", "setex"}
  <2>1. StringOutcome(d, op, a, n) =
          Outcome([d EXCEPT ![k] = IF op = "set" THEN String(a[2]) ELSE Volatile(String(a[2]))],
                  StatusReply("OK"))
    <3> HIDE DEF Outcome
    <3>1. CASE op = "set"
      BY <3>1 DEF StringOutcome, Edit
    <3>2. CASE op = "setex"
      BY <3>2 DEF StringOutcome, Edit
    <3> QED
      BY <1>7, <3>1, <3>2
  <2>2. IsEntry(IF op = "set" THEN String(a[2]) ELSE Volatile(String(a[2])))
    BY <1>1, <1>3, <1>7, EntryChanges
  <2>3. op \notin TextOut \cup Floats
    BY <1>7 DEF TextOut, Floats
  <2> QED
    BY <1>4, <1>6, <1>7, <2>1, <2>2, <2>3
<1>8. CASE op = "setnx"
  <2>1. \/ StringOutcome(d, op, a, n) = Outcome([d EXCEPT ![k] = String(a[2])], IntegerReply(1))
        \/ StringOutcome(d, op, a, n) = Outcome(d, IntegerReply(0))
    BY <1>8 DEF StringOutcome, Edit
  <2>2. IsEntry(String(a[2]))
    BY <1>1, <1>3, <1>8, EntryChanges
  <2>3. op \notin TextOut \cup Floats
    BY <1>8 DEF TextOut, Floats
  <2> QED
    BY <1>4, <1>5, <1>6, <1>8, <2>1, <2>2, <2>3, SmallNumbers
<1>9. CASE op = "getset"
  <2>1. StringOutcome(d, op, a, n) = Outcome([d EXCEPT ![k] = String(a[2])], TextOrNil(e.str))
    BY <1>9 DEF StringOutcome, Edit
  <2>2. IsEntry(String(a[2]))
    BY <1>1, <1>3, <1>9, EntryChanges
  <2>3. ReplyTyped(op, TextOrNil(e.str))
    <3>1. e.str \in Texts
      BY <1>1, <1>9, EntryIs DEF Texts
    <3>2. op \notin Many \cup Floats
      BY <1>9 DEF Many, Floats
    <3> QED
      BY <3>1, <3>2, RepliesTyped DEF TextOrNil
  <2> QED
    BY <1>4, <1>9, <2>1, <2>2, <2>3
<1>10. CASE op \in {"mset", "msetnx"}
  <2> DEFINE r == IF op = "mset" THEN StatusReply("OK") ELSE IntegerReply(1)
  <2>1. \/ StringOutcome(d, op, a, n) = Outcome(d, IntegerReply(0))
        \/ StringOutcome(d, op, a, n) = Outcome(merged, r)
    <3> HIDE DEF Outcome
    <3> QED
      BY <1>10 DEF StringOutcome, Edit
  <2>2. DatabaseType(merged)
    <3>1. IsHash(all)
      BY PairsType DEF WellSent
    <3>2. \A x \in DOMAIN all : IsEntry(String(all[x]))
      <4>1. \A x \in DOMAIN all : all[x] \in Stored
        BY <3>1 DEF IsHash
      <4> QED
        BY <4>1, EntryForms, EntryChanges
    <3>3. DOMAIN d = Key /\ \A x \in Key : IsEntry(d[x])
      BY DEF DatabaseType
    <3> HIDE DEF all
    <3>4. merged = [x \in Key |-> merged[x]] /\ \A x \in Key : IsEntry(merged[x])
      BY <3>2, <3>3
    <3> HIDE DEF merged
    <3> QED
      BY <3>4 DEF DatabaseType
  <2>3. ReplyTyped(op, r) /\ ReplyTyped(op, IntegerReply(0))
    <3>1. op \notin TextOut \cup Floats
      BY <1>10 DEF TextOut, Floats
    <3> QED
      BY <1>6, <3>1, SmallNumbers
  <2> HIDE DEF merged, r
  <2> QED
    BY <2>1, <2>2, <2>3, OutcomeIs
<1>11. CASE op \in {"incr", "incrbyfloat"}
  <2> DEFINE m == Counted(e.str, n)
             x == [e EXCEPT !.type = "string", !.str = Decimal[m]]
  <2>1. \/ StringOutcome(d, op, a, n) = Outcome(d, ErrorReply("not an integer or out of range"))
        \/ /\ CanCount(e.str, n)
           /\ StringOutcome(d, op, a, n) = Outcome([d EXCEPT ![k] = x], CountReply(op, m))
    <3> HIDE DEF Outcome
    <3> QED
      BY <1>11 DEF StringOutcome, Edit
  <2>2. e.str \in Stored \cup {NoStr}
    BY <1>1, <1>11, EntryIs
  <2>3. CanCount(e.str, n) => m \in Number /\ Decimal[m] \in Stored
    BY <2>2, CountedNumber
  <2>4. CanCount(e.str, n) => IsEntry(x)
    BY <1>1, <1>2, <1>11, <2>3, EntryChanges
  <2> HIDE DEF m, x
  <2>5. CanCount(e.str, n) => ReplyTyped(op, CountReply(op, m))
    <3>1. CASE op = "incr"
      BY <2>3, <3>1, <1>6, SmallNumbers DEF CountReply, TextOut, Floats
    <3>2. CASE op = "incrbyfloat"
      BY <2>3, <3>2, RepliesTyped DEF CountReply, Floats
    <3> QED
      BY <1>11, <3>1, <3>2
  <2>6. ReplyTyped(op, ErrorReply("not an integer or out of range"))
    BY RepliesTyped
  <2> QED
    BY <1>4, <1>5, <1>11, <2>1, <2>4, <2>5, <2>6
<1>12. CASE op \in Edit
  <2> DEFINE x == [e EXCEPT !.type = "string", !.str = Edited]
             i == IF op = "setbit" THEN 0 ELSE Width[Edited]
  <2>1. StringOutcome(d, op, a, n) = Outcome([d EXCEPT ![k] = x], IntegerReply(i))
    BY <1>12 DEF StringOutcome, Edit
  <2>2. i \in Figures
    BY CommandsAssumption, SmallNumbers
  <2>3. IsEntry(x)
    BY <1>1, <1>2, <1>12, CommandsAssumption, EntryChanges DEF Edit
  <2>4. op \notin TextOut \cup Floats /\ op \notin {"mset", "msetnx"}
    BY <1>12 DEF TextOut, Floats, Edit
  <2> HIDE DEF x, i
  <2> QED
    BY <1>4, <1>6, <2>1, <2>2, <2>3, <2>4
<1> QED
  BY <1>7, <1>8, <1>9, <1>10, <1>11, <1>12 DEF StringWrite

LEMMA ListOutcomeTyped ==
  ASSUME NEW d, DatabaseType(d), NEW op \in ListWrite, NEW a, WellSent(op, a), NEW n \in Int,
         ~WrongType(d, op, a)
  PROVE  OutcomeTyped(op, ListOutcome(d, op, a, n))
<1> DEFINE k == a[1]
           e == d[k]
           l == e.list
<1>1. /\ k \in Key /\ IsEntry(e) /\ l \in Seq(Stored)
      /\ e.type = "list" \/ (e = Absent /\ l = <<>>)
  <2>1. k \in Key /\ IsEntry(e)
    BY DEF WellSent, DatabaseType, Keyless, ListWrite, Insert
  <2>2. e.type \in {"none", "list"}
    BY DEF WrongType
  <2> QED
    BY <2>1, <2>2, EntryIs
<1>2. op \notin Many \cup TextOut \cup Floats
  BY DEF ListWrite, Insert, Many, TextOut, Floats
<1>3. (\A i \in Figures : ReplyTyped(op, IntegerReply(i))) /\ (\A t : ReplyTyped(op, StatusReply(t)))
      /\ (\A t : ReplyTyped(op, ErrorReply(t)))
  BY <1>2, RepliesTyped
<1>4. ASSUME NEW m, m = <<>> \/ (e.type = "list" /\ m \in Seq(Stored)), NEW r, ReplyTyped(op, r)
      PROVE  OutcomeTyped(op, Outcome([d EXCEPT ![k] = Relisted(e, m)], r))
  <2>1. IsEntry(Relisted(e, m))
    BY <1>1, <1>4, EntryChanges, EntryForms DEF Relisted
  <2> QED
    BY <1>4, <2>1, PutKeepsType, OutcomeIs
<1>5. ASSUME NEW r, ReplyTyped(op, r) PROVE OutcomeTyped(op, Outcome(d, r))
  BY <1>5, OutcomeIs
<1>6. CASE op = "lset"
  <2> DEFINE m == [l EXCEPT ![Place(l, n)] = a[2]]
  <2>1. \/ ListOutcome(d, op, a, n) = Outcome(d, ErrorReply("no such key"))
        \/ /\ Place(l, n) \in DOMAIN l
           /\ ListOutcome(d, op, a, n) = Outcome([d EXCEPT ![k] = Relisted(e, m)], StatusReply("OK"))
    <3> HIDE DEF Outcome
    <3> QED
      BY <1>6 DEF ListOutcome, Insert
  <2>2. a[2] \in Stored
    BY <1>6, SentTexts DEF TwoWords
  <2>3. Place(l, n) \in DOMAIN l => e.type = "list" /\ m \in Seq(Stored)
    <3>1. DOMAIN <<>> = {}
      OBVIOUS
    <3>2. l \in [1 .. Len(l) -> Stored] /\ Len(l) \in Nat
      BY <1>1
    <3>3. m \in [1 .. Len(l) -> Stored]
      BY <2>2, <3>2
    <3>4. m \in Seq(Stored)
      <4> HIDE DEF m, l
      <4> QED
        BY <3>2, <3>3
    <3> HIDE DEF m
    <3> QED
      BY <1>1, <3>1, <3>4
  <2> HIDE DEF m
  <2> QED
    BY <2>1, <2>3, <1>3, <1>4, <1>5
<1>7. CASE op = "ltrim"
  <2>1. ListOutcome(d, op, a, n) = Outcome([d EXCEPT ![k] = Relisted(e, From(l, n))], StatusReply("OK"))
    BY <1>7 DEF ListOutcome, Insert
  <2>2. From(l, n) \in Seq(Stored)
    BY <1>1, FromType
  <2>3. l = <<>> => From(l, n) = <<>>
    <3>1. \A m \in Int : m >= 1 => SubSeq(<<>>, m, Len(<<>>)) = <<>>
      OBVIOUS
    <3>2. ASSUME l = <<>>
          PROVE  (IF Place(l, n) < 1 THEN 1 ELSE Place(l, n)) \in Int
                 /\ (IF Place(l, n) < 1 THEN 1 ELSE Place(l, n)) >= 1
      BY <3>2 DEF Place
    <3> QED
      BY <3>1, <3>2 DEF From
  <2> QED
    BY <1>1, <2>1, <2>2, <2>3, <1>3, <1>4
<1>8. CASE op \in Insert
  <2> DEFINE s == SelectInSeq(l, LAMBDA t : t = a[2])
             i == IF op = "linsertAfter" THEN s + 1 ELSE s
             m == InsertAt(l, i, a[3])
  <2>1. \/ ListOutcome(d, op, a, n) = Outcome(d, IntegerReply(0))
        \/ ListOutcome(d, op, a, n) = Outcome(d, IntegerReply(-1))
        \/ /\ e # Absent /\ a[2] \in ToSet(l)
           /\ ListOutcome(d, op, a, n) =
                Outcome([d EXCEPT ![k] = Relisted(e, m)], IntegerReply(Len(l) + 1))
    <3>1. op \notin {"lset", "ltrim"}
      BY <1>8 DEF Insert
    <3> HIDE DEF Outcome
    <3> QED
      BY <1>8, <3>1, Zenon DEF ListOutcome
  <2>2. a[3] \in Stored
    BY <1>8, SentTexts DEF ThreeWords
  <2>3. a[2] \in ToSet(l) => m \in Seq(Stored)
    <3>1. a[2] \in ToSet(l) => s \in 1 .. Len(l)
      BY <1>1, SelectedPlace
    <3> HIDE DEF s
    <3>2. a[2] \in ToSet(l) => i \in 1 .. Len(l) + 1
      BY <1>1, <3>1
    <3> HIDE DEF i, l
    <3>3. a[2] \in ToSet(l) => m \in Seq(Stored \cup {a[3]})
      BY <1>1, <3>2, InsertedType
    <3>4. Stored \cup {a[3]} = Stored
      BY <2>2
    <3> QED
      BY <3>3, <3>4
  <2>4. Len(l) + 1 \in Figures
    BY <1>1, SmallNumbers
  <2> HIDE DEF m, i, s
  <2> QED
    BY <1>1, <2>1, <2>3, <2>4, <1>3, <1>4, <1>5, SmallNumbers
<1> QED
  BY <1>6, <1>7, <1>8 DEF ListWrite

LEMMA HashOutcomeTyped ==
  ASSUME NEW d, DatabaseType(d), NEW op \in HashWrite, NEW a, WellSent(op, a), NEW n \in Int,
         ~WrongType(d, op, a)
  PROVE  OutcomeTyped(op, HashOutcome(d, op, a, n))
<1> DEFINE k == a[1]
           e == d[k]
           h == e.hash
<1>1. k \in Key /\ IsEntry(e) /\ IsHash(h) /\ e.type \in {"none", "hash"}
  <2>1. k \in Key /\ IsEntry(e)
    BY DEF WellSent, DatabaseType, Keyless, HashWrite
  <2>2. e.type \in {"none", "hash"}
    BY DEF WrongType
  <2> QED
    BY <2>1, <2>2, EntryIs
<1>2. op \notin Many \cup TextOut
  BY DEF HashWrite, Many, TextOut
<1>3. /\ op # "hincrbyfloat" => (\A i \in Figures : ReplyTyped(op, IntegerReply(i)))
                                /\ (\A t : ReplyTyped(op, StatusReply(t)))
      /\ \A t : ReplyTyped(op, ErrorReply(t))
  <2>1. op # "hincrbyfloat" => op \notin Floats
    BY DEF HashWrite, Floats
  <2> QED
    BY <1>2, <2>1, RepliesTyped
<1>4. ASSUME NEW g, IsHash(g), NEW r, ReplyTyped(op, r)
      PROVE  OutcomeTyped(op, Outcome([d EXCEPT ![k] = Rehashed(e, g)], r))
  <2>1. IsEntry(Rehashed(e, g))
    BY <1>1, <1>4, EntryChanges
  <2> QED
    BY <1>4, <2>1, PutKeepsType, OutcomeIs
<1>5. /\ op \in TwoWords \cup ThreeWords => a[2] \in Stored
      /\ op \in ThreeWords => a[3] \in Stored
  BY SentTexts
<1>6. CASE op = "hset"
  <2> DEFINE g == Merged(One(a[2], a[3]), h)
             r == IntegerReply(Flag(a[2] \notin DOMAIN h))
  <2>1. HashOutcome(d, op, a, n) = Outcome([d EXCEPT ![k] = Rehashed(e, g)], r)
    BY <1>6 DEF HashOutcome
  <2>2. IsHash(g)
    BY <1>1, <1>5, <1>6, OneField, MergedHash DEF ThreeWords
  <2>3. ReplyTyped(op, r)
    BY <1>3, <1>6, SmallNumbers
  <2> HIDE DEF g, r
  <2> QED
    BY <1>4, <2>1, <2>2, <2>3
<1>7. CASE op = "hsetnx"
  <2> DEFINE g == Merged(h, One(a[2], a[3]))
             r == IntegerReply(Flag(a[2] \notin DOMAIN h))
  <2>1. HashOutcome(d, op, a, n) = Outcome([d EXCEPT ![k] = Rehashed(e, g)], r)
    BY <1>7 DEF HashOutcome
  <2>2. IsHash(g)
    BY <1>1, <1>5, <1>7, OneField, MergedHash DEF ThreeWords
  <2>3. ReplyTyped(op, r)
    BY <1>3, <1>7, SmallNumbers
  <2> HIDE DEF g, r
  <2> QED
    BY <1>4, <2>1, <2>2, <2>3
<1>8. CASE op = "hdel"
  <2> DEFINE g == [f \in DOMAIN h \ {a[2]} |-> h[f]]
             r == IntegerReply(Flag(a[2] \in DOMAIN h))
  <2>1. HashOutcome(d, op, a, n) = Outcome([d EXCEPT ![k] = Rehashed(e, g)], r)
    BY <1>8 DEF HashOutcome
  <2>2. IsHash(g)
    BY <1>1, SubHash
  <2>3. ReplyTyped(op, r)
    BY <1>3, <1>8, SmallNumbers
  <2> HIDE DEF g, r
  <2> QED
    BY <1>4, <2>1, <2>2, <2>3
<1>9. CASE op = "hmset"
  <2> DEFINE g == Merged(Pairs(a, 2), h)
             r == StatusReply("OK")
  <2>1. HashOutcome(d, op, a, n) = Outcome([d EXCEPT ![k] = Rehashed(e, g)], r)
    BY <1>9 DEF HashOutcome
  <2>2. IsHash(g)
    BY <1>1, PairsType, MergedHash DEF WellSent
  <2>3. ReplyTyped(op, r)
    BY <1>3, <1>9
  <2> HIDE DEF g, r
  <2> QED
    BY <1>4, <2>1, <2>2, <2>3
<1>10. CASE op \in {"hincrby", "hincrbyfloat"}
  <2> DEFINE t == Cell(h, a[2])
             m == Counted(t, n)
             g == Merged(One(a[2], Decimal[m]), h)
             r == CountReply(op, m)
  <2>1. \/ HashOutcome(d, op, a, n) = Outcome(d, ErrorReply("not an integer or out of range"))
        \/ /\ CanCount(t, n)
           /\ HashOutcome(d, op, a, n) = Outcome([d EXCEPT ![k] = Rehashed(e, g)], r)
    <3> HIDE DEF Outcome
    <3> QED
      BY <1>10 DEF HashOutcome
  <2>2. t \in Stored \cup {NoStr}
    BY <1>1 DEF Cell, IsHash
  <2>3. CanCount(t, n) => m \in Number /\ Decimal[m] \in Stored
    BY <2>2, CountedNumber
  <2>4. CanCount(t, n) => IsHash(g)
    BY <1>1, <1>5, <1>10, <2>3, OneField, MergedHash DEF TwoWords
  <2> HIDE DEF m, g
  <2>5. CanCount(t, n) => ReplyTyped(op, r)
    <3>1. CASE op = "hincrby"
      BY <2>3, <3>1, <1>3, SmallNumbers DEF CountReply
    <3>2. CASE op = "hincrbyfloat"
      BY <2>3, <3>2, RepliesTyped DEF CountReply, Floats
    <3> QED
      BY <1>10, <3>1, <3>2
  <2> HIDE DEF r, t
  <2> QED
    BY <1>3, <1>4, <2>1, <2>4, <2>5, OutcomeIs
<1> QED
  BY <1>6, <1>7, <1>8, <1>9, <1>10 DEF HashWrite

\* What the commands that only read answer.
LEMMA ReadRepliesTyped ==
  ASSUME NEW d, DatabaseType(d), NEW op \in Read, NEW a, WellSent(op, a), NEW n \in Int,
         ~WrongType(d, op, a), NEW r \in ReadReplies(d, op, a, n)
  PROVE  ReplyTyped(op, r)
<1> DEFINE e == d[a[1]]
           l == e.list
           h == e.hash
           fields == SetToSeq(DOMAIN h)
           values == [i \in DOMAIN fields |-> h[fields[i]]]
<1>1. op # "mget" => /\ IsEntry(e) /\ IsHash(h) /\ l \in Seq(Stored)
                     /\ e.str \in Stored \cup {NoStr} /\ (e.type = "string" => e.str \in Stored)
                     /\ (e = Absent <=> e.type = "none")
  <2>1. op # "mget" => IsEntry(e)
    BY DEF WellSent, DatabaseType, Keyless, Read, KeyRead, StringRead, ListRead, HashRead
  <2> QED
    BY <2>1, EntryIs
<1>2. op \in StringRead \ {"mget"} => e.type \in {"none", "string"}
  BY DEF WrongType, StringRead
<1>3. /\ op \notin Many \cup TextOut => \A i \in Figures : ReplyTyped(op, IntegerReply(i))
      /\ op \notin Many \cup TextOut => \A t : ReplyTyped(op, StatusReply(t))
      /\ op \notin Many => \A t \in Texts \cup {Serialized} : ReplyTyped(op, StringReply(t))
      /\ op \notin TextOut => \A es \in Seq(Texts) : ReplyTyped(op, ArrayReply(es))
      /\ ReplyTyped(op, NilReply)
  <2>1. op \notin Floats
    BY DEF Read, KeyRead, StringRead, ListRead, HashRead, Floats
  <2> QED
    BY <2>1, RepliesTyped
<1>4. Stored \subseteq Texts /\ NoStr \in Texts /\ "" \in Texts
  BY DEF Texts
<1>5. ASSUME NEW s \in Seq(Stored \cup {NoStr}) PROVE s \in Seq(Texts)
  <2>1. Stored \cup {NoStr} \subseteq Texts
    BY <1>4
  <2> QED
    BY <2>1
<1>0. ASSUME NEW s \in Seq(Stored) PROVE s \in Seq(Texts)
  <2>1. Stored \subseteq Texts
    BY <1>4
  <2> QED
    BY <2>1
<1>6. ASSUME NEW t \in Stored \cup {NoStr}, op \notin Many PROVE ReplyTyped(op, TextOrNil(t))
  BY <1>3, <1>4, <1>6 DEF TextOrNil
<1>7. op # "mget" => /\ fields \in Seq(Stored) /\ values \in Seq(Stored) /\ Len(fields) = Len(values)
                     /\ Cardinality(DOMAIN h) \in Nat
  <2>1. ASSUME op # "mget" PROVE /\ fields \in Seq(DOMAIN h) /\ Cardinality(DOMAIN h) \in Nat
    BY <1>1, <2>1, SetListed DEF IsHash
  <2>2. ASSUME op # "mget" PROVE DOMAIN h \subseteq Stored /\ \A f \in DOMAIN h : h[f] \in Stored
    BY <1>1, <2>2 DEF IsHash
  <2> HIDE DEF h
  <2>3. ASSUME op # "mget"
        PROVE  /\ DOMAIN fields = 1 .. Len(fields) /\ Len(fields) \in Nat
               /\ \A i \in 1 .. Len(fields) : fields[i] \in DOMAIN h
    <3> HIDE DEF fields
    <3> QED
      BY <2>1, <2>3
  <2> HIDE DEF fields
  <2>4. ASSUME op # "mget"
        PROVE  values \in Seq(Stored) /\ Len(values) = Len(fields)
    <3>1. values \in [1 .. Len(fields) -> Stored]
      BY <2>2, <2>3, <2>4
    <3> HIDE DEF values
    <3> QED
      BY <2>3, <2>4, <3>1
  <2>5. op # "mget" => fields \in Seq(Stored)
    BY <2>1, <2>2
  <2> HIDE DEF values
  <2> QED
    BY <2>1, <2>4, <2>5
<1>8. CASE op = "exist"
  <2>1. r = IntegerReply(Flag(e # Absent))
    BY <1>8 DEF ReadReplies
  <2>2. (Flag(e # Absent)) \in Figures
    BY SmallNumbers
  <2>3. op \notin Many \cup TextOut
    BY <1>8 DEF Many, TextOut
  <2> QED
    BY <1>3, <2>1, <2>2, <2>3
<1>9. CASE op = "ttl"
  <2>1. r = IntegerReply(TimeToLive(e))
    BY <1>9 DEF ReadReplies
  <2>2. (TimeToLive(e)) \in Figures
    BY SmallNumbers DEF TimeToLive
  <2>3. op \notin Many \cup TextOut
    BY <1>9 DEF Many, TextOut
  <2> QED
    BY <1>3, <2>1, <2>2, <2>3
<1>10. CASE op = "strlen"
  <2>1. r = IntegerReply(IF e = Absent THEN 0 ELSE Width[e.str])
    BY <1>10 DEF ReadReplies
  <2>2. (IF e = Absent THEN 0 ELSE Width[e.str]) \in Figures
    BY <1>1, <1>2, <1>10, CommandsAssumption, SmallNumbers DEF StringRead
  <2>3. op \notin Many \cup TextOut
    BY <1>10 DEF Many, TextOut
  <2> QED
    BY <1>3, <2>1, <2>2, <2>3
<1>11. CASE op = "llen"
  <2>1. r = IntegerReply(Len(l))
    BY <1>11 DEF ReadReplies
  <2>2. (Len(l)) \in Figures
    BY <1>1, <1>11, SmallNumbers
  <2>3. op \notin Many \cup TextOut
    BY <1>11 DEF Many, TextOut
  <2> QED
    BY <1>3, <2>1, <2>2, <2>3
<1>12. CASE op = "hexists"
  <2>1. r = IntegerReply(Flag(a[2] \in DOMAIN h))
    BY <1>12 DEF ReadReplies
  <2>2. (Flag(a[2] \in DOMAIN h)) \in Figures
    BY SmallNumbers
  <2>3. op \notin Many \cup TextOut
    BY <1>12 DEF Many, TextOut
  <2> QED
    BY <1>3, <2>1, <2>2, <2>3
<1>13. CASE op = "hlen"
  <2>1. r = IntegerReply(Cardinality(DOMAIN h))
    BY <1>13 DEF ReadReplies
  <2>2. (Cardinality(DOMAIN h)) \in Figures
    BY <1>7, <1>13, SmallNumbers
  <2>3. op \notin Many \cup TextOut
    BY <1>13 DEF Many, TextOut
  <2> QED
    BY <1>3, <2>1, <2>2, <2>3
<1>14. CASE op = "hstrlen"
  <2>1. r = IntegerReply(IF a[2] \in DOMAIN h THEN Width[h[a[2]]] ELSE 0)
    BY <1>14 DEF ReadReplies
  <2>2. (IF a[2] \in DOMAIN h THEN Width[h[a[2]]] ELSE 0) \in Figures
    BY <1>1, <1>14, CommandsAssumption, SmallNumbers DEF IsHash
  <2>3. op \notin Many \cup TextOut
    BY <1>14 DEF Many, TextOut
  <2> QED
    BY <1>3, <2>1, <2>2, <2>3
<1>15. CASE op = "type"
  <2>1. r = StatusReply(e.type)
    BY <1>15 DEF ReadReplies
  <2>3. op \notin Many \cup TextOut
    BY <1>15 DEF Many, TextOut
  <2> QED
    BY <1>3, <2>1, <2>3
<1>16. CASE op = "getbit"
  <2>1. r = IntegerReply(0) \/ r = IntegerReply(1)
    BY <1>16 DEF ReadReplies
  <2>2. op \notin Many \cup TextOut
    BY <1>16 DEF Many, TextOut
  <2> QED
    BY <1>3, <2>1, <2>2, SmallNumbers
<1>17. CASE op = "dump"
  <2>1. r = IF e = Absent THEN NilReply ELSE StringReply(Serialized)
    BY <1>17 DEF ReadReplies
  <2>4. op \notin Many
    BY <1>17 DEF Many
  <2> QED
    BY <1>3, <2>1, <2>4
<1>18. CASE op = "get"
  <2>1. r = TextOrNil(e.str)
    BY <1>18 DEF ReadReplies
  <2>4. op \notin Many
    BY <1>18 DEF Many
  <2> QED
    BY <1>18, <1>1, <1>6, <2>1, <2>4
<1>19. CASE op = "getrange"
  <2>1. r = StringReply(Part(e, n))
    BY <1>19 DEF ReadReplies
  <2>4. op \notin Many
    BY <1>19 DEF Many
  <2>2. Part(e, n) \in Texts
    BY <1>1, <1>2, <1>4, <1>19 DEF Part, StringRead
  <2> QED
    BY <1>3, <2>1, <2>2, <2>4
<1>20. CASE op = "lindex"
  <2>1. r = IF Place(l, n) \in DOMAIN l THEN StringReply(l[Place(l, n)]) ELSE NilReply
    BY <1>20 DEF ReadReplies
  <2>4. op \notin Many
    BY <1>20 DEF Many
  <2>5. l \in Seq(Stored)
    BY <1>1, <1>20
  <2>2. Place(l, n) \in DOMAIN l => l[Place(l, n)] \in Texts
    <3>1. Place(l, n) \in DOMAIN l => l[Place(l, n)] \in Stored
      <4> HIDE DEF l
      <4> QED
        BY <2>5
    <3> QED
      BY <1>4, <3>1
  <2> QED
    BY <1>3, <2>1, <2>2, <2>4
<1>21. CASE op = "hget"
  <2>1. r = TextOrNil(Cell(h, a[2]))
    BY <1>21 DEF ReadReplies
  <2>4. op \notin Many
    BY <1>21 DEF Many
  <2>2. Cell(h, a[2]) \in Stored \cup {NoStr}
    BY <1>1, <1>21 DEF Cell, IsHash
  <2> QED
    BY <1>6, <2>1, <2>2, <2>4
<1>22. CASE op = "lrange"
  <2>1. r = ArrayReply(From(l, n))
    BY <1>22 DEF ReadReplies
  <2>4. op \notin TextOut
    BY <1>22 DEF TextOut
  <2>2. From(l, n) \in Seq(Texts)
    <3>1. l \in Seq(Texts)
      BY <1>0, <1>1, <1>22
    <3> HIDE DEF l
    <3> QED
      BY <3>1, FromType
  <2> QED
    BY <1>3, <2>1, <2>2, <2>4
<1>23. CASE op = "hkeys"
  <2>1. r = ArrayReply(fields)
    BY <1>23 DEF ReadReplies
  <2>4. op \notin TextOut
    BY <1>23 DEF TextOut
  <2> HIDE DEF fields, values
  <2>2. fields \in Seq(Texts)
    BY <1>0, <1>7, <1>23
  <2> QED
    BY <1>3, <2>1, <2>2, <2>4
<1>24. CASE op = "hvals"
  <2>1. r = ArrayReply(values)
    BY <1>24 DEF ReadReplies
  <2>4. op \notin TextOut
    BY <1>24 DEF TextOut
  <2> HIDE DEF fields, values
  <2>2. values \in Seq(Texts)
    BY <1>0, <1>7, <1>24
  <2> QED
    BY <1>3, <2>1, <2>2, <2>4
<1>25. CASE op = "hgetall"
  <2>1. r = ArrayReply(Alternated(fields, values))
    BY <1>25 DEF ReadReplies
  <2>4. op \notin TextOut
    BY <1>25 DEF TextOut
  <2> HIDE DEF fields, values
  <2>2. Alternated(fields, values) \in Seq(Texts)
    <3>1. Alternated(fields, values) \in Seq(Stored)
      BY <1>7, <1>25, AlternatedPairs
    <3> QED
      BY <1>0, <3>1
  <2> QED
    BY <1>3, <2>1, <2>2, <2>4
<1>26. CASE op = "mget"
  <2>1. r = ArrayReply([i \in DOMAIN a |-> d[a[i]].str])
    BY <1>26 DEF ReadReplies
  <2>4. op \notin TextOut
    BY <1>26 DEF TextOut
  <2>2. a \in Seq(Stored) /\ ToSet(a) \subseteq Key
    BY <1>26 DEF WellSent
  <2>3. DOMAIN a = 1 .. Len(a) /\ Len(a) \in Nat /\ \A i \in 1 .. Len(a) : a[i] \in Key
    BY <2>2 DEF ToSet
  <2>5. \A k \in Key : d[k].str \in Stored \cup {NoStr}
    <3>1. \A k \in Key : IsEntry(d[k])
      BY DEF DatabaseType
    <3> QED
      BY <3>1, EntryIs
  <2> DEFINE texts == [i \in 1 .. Len(a) |-> d[a[i]].str]
  <2>6. texts \in Seq(Stored \cup {NoStr})
    <3>1. texts \in [1 .. Len(a) -> Stored \cup {NoStr}]
      BY <2>3, <2>5
    <3> HIDE DEF texts
    <3> QED
      BY <2>3, <3>1
  <2>7. texts \in Seq(Texts) /\ r = ArrayReply(texts)
    BY <1>5, <2>1, <2>3, <2>6
  <2> HIDE DEF texts
  <2> QED
    BY <1>3, <2>4, <2>7
<1>27. CASE op = "hmget"
  <2>1. r = ArrayReply([i \in 1 .. Len(a) - 1 |-> Cell(h, a[i + 1])])
    BY <1>27 DEF ReadReplies
  <2>4. op \notin TextOut
    BY <1>27 DEF TextOut
  <2>2. Len(a) - 1 \in Nat
    <3>1. a \in Seq(Stored) /\ a # <<>>
      BY <1>27 DEF WellSent, Keyless
    <3> QED
      BY <3>1
  <2>3. \A f : Cell(h, f) \in Stored \cup {NoStr}
    BY <1>1, <1>27 DEF Cell, IsHash
  <2> HIDE DEF h
  <2> DEFINE texts == [i \in 1 .. Len(a) - 1 |-> Cell(h, a[i + 1])]
  <2>6. texts \in Seq(Stored \cup {NoStr})
    <3>1. texts \in [1 .. Len(a) - 1 -> Stored \cup {NoStr}]
      BY <2>3
    <3> HIDE DEF texts
    <3> QED
      BY <2>2, <3>1
  <2>7. texts \in Seq(Texts) /\ r = ArrayReply(texts)
    BY <1>5, <2>1, <2>6
  <2> HIDE DEF texts
  <2> QED
    BY <1>3, <2>4, <2>7
<1> QED
  BY <1>8, <1>9, <1>10, <1>11, <1>12, <1>13, <1>14, <1>15, <1>16, <1>17,
     <1>18, <1>19, <1>20, <1>21, <1>22, <1>23, <1>24, <1>25, <1>26, <1>27
  DEF Read, KeyRead, StringRead, ListRead, HashRead

\* Whatever comes of a command that a method sends.
LEMMA EffectsTyped ==
  ASSUME NEW d, DatabaseType(d), NEW op \in Read \cup Write, NEW a, WellSent(op, a), NEW n \in Int,
         NEW s \in Effects(d, op, a, n)
  PROVE  OutcomeTyped(op, s)
<1>1. ASSUME NEW t PROVE OutcomeTyped(op, Outcome(d, ErrorReply(t)))
  BY RepliesTyped, OutcomeIs
<1>2. CASE WrongArity(op, a) \/ OutOfRange(op, n) \/ WrongType(d, op, a)
  <2>1. \E t : s = Outcome(d, ErrorReply(t))
    <3> HIDE DEF Outcome
    <3> QED
      BY <1>2 DEF Effects
  <2> QED
    BY <1>1, <2>1
<1>3. CASE ~(WrongArity(op, a) \/ OutOfRange(op, n) \/ WrongType(d, op, a)) /\ op \in Read
  <2>1. \E r \in ReadReplies(d, op, a, n) : s = Outcome(d, r)
    BY <1>3 DEF Effects
  <2> QED
    BY <1>3, <2>1, ReadRepliesTyped, OutcomeIs
<1>4. CASE ~(WrongArity(op, a) \/ OutOfRange(op, n) \/ WrongType(d, op, a)) /\ op \notin Read
  <2>1. \/ s = Outcome(d, ErrorReply("OOM"))
        \/ s = IF op \in KeyWrite THEN KeyOutcome(d, op, a, n)
               ELSE IF op \in StringWrite THEN StringOutcome(d, op, a, n)
               ELSE IF op \in ListWrite THEN ListOutcome(d, op, a, n)
               ELSE HashOutcome(d, op, a, n)
    BY <1>4 DEF Effects
  <2>2. CASE op \in KeyWrite
    <3>1. a[1] \in Key /\ (op \in {"rename", "renamenx"} => a[2] \in Key)
      BY <2>2 DEF WellSent, Keyless, KeyWrite
    <3> QED
      BY <1>1, <2>1, <2>2, <3>1, KeyOutcomeTyped
  <2>3. CASE op \notin KeyWrite /\ op \in StringWrite
    BY <1>1, <1>4, <2>1, <2>3, StringOutcomeTyped
  <2>4. CASE op \notin KeyWrite \cup StringWrite /\ op \in ListWrite
    BY <1>1, <1>4, <2>1, <2>4, ListOutcomeTyped
  <2>5. CASE op \notin KeyWrite \cup StringWrite \cup ListWrite /\ op \in HashWrite
    BY <1>1, <1>4, <2>1, <2>5, HashOutcomeTyped
  <2> QED
    BY <1>4, <2>2, <2>3, <2>4, <2>5 DEF Write
<1> QED
  BY <1>2, <1>3, <1>4

-----------------------------------------------------------------------------
(* What a method leaves in its caller's variables.                         *)

HolderTyped(o) ==
  /\ o = Variables(o.num, o.text, o.list, o.map)
  /\ o.num \in Figures /\ o.text \in Texts \cup {Serialized} /\ o.list \in Seq(Texts)
  /\ o.map \in [DOMAIN o.map -> Texts] /\ DOMAIN o.map \subseteq Texts

\* The parts of a caller's variables.
LEMMA VariablesParts ==
  ASSUME NEW num, NEW text, NEW list, NEW map, NEW o, o = Variables(num, text, list, map)
  PROVE  /\ o.num = num /\ o.text = text /\ o.list = list /\ o.map = map
         /\ \A x : /\ [o EXCEPT !.num = x] = Variables(x, text, list, map)
                   /\ [o EXCEPT !.text = x] = Variables(num, x, list, map)
                   /\ [o EXCEPT !.list = x] = Variables(num, text, x, map)
                   /\ [o EXCEPT !.map = x] = Variables(num, text, list, x)
<1>1. o.num = num /\ o.text = text /\ o.list = list /\ o.map = map
  BY DEF Variables
<1>2. ASSUME NEW x
      PROVE  /\ [o EXCEPT !.num = x] = Variables(x, text, list, map)
             /\ [o EXCEPT !.text = x] = Variables(num, x, list, map)
             /\ [o EXCEPT !.list = x] = Variables(num, text, x, map)
             /\ [o EXCEPT !.map = x] = Variables(num, text, list, x)
  <2> USE DEF Variables
  <2>1. [o EXCEPT !.num = x] = Variables(x, text, list, map)
    OBVIOUS
  <2>2. [o EXCEPT !.text = x] = Variables(num, x, list, map)
    OBVIOUS
  <2>3. [o EXCEPT !.list = x] = Variables(num, text, x, map)
    OBVIOUS
  <2>4. [o EXCEPT !.map = x] = Variables(num, text, list, x)
    OBVIOUS
  <2> QED
    BY <2>1, <2>2, <2>3, <2>4
<1> QED
  BY <1>1, <1>2

\* Variables with a part replaced.
LEMMA HolderChanges ==
  ASSUME NEW o, HolderTyped(o)
  PROVE  /\ \A i \in Figures : HolderTyped([o EXCEPT !.num = i])
         /\ \A t \in Texts \cup {Serialized} : HolderTyped([o EXCEPT !.text = t])
         /\ \A l \in Seq(Texts) : HolderTyped([o EXCEPT !.list = l])
         /\ \A m : m \in [DOMAIN m -> Texts] /\ DOMAIN m \subseteq Texts
                     => HolderTyped([o EXCEPT !.map = m])
<1>1. PICK num, text, list, map :
        /\ num \in Figures /\ text \in Texts \cup {Serialized} /\ list \in Seq(Texts)
        /\ o = Variables(num, text, list, map)
        /\ map \in [DOMAIN map -> Texts] /\ DOMAIN map \subseteq Texts
  BY Zenon DEF HolderTyped
<1>2. \A i, t, l, m :
        i \in Figures /\ t \in Texts \cup {Serialized} /\ l \in Seq(Texts)
        /\ m \in [DOMAIN m -> Texts] /\ DOMAIN m \subseteq Texts
          => HolderTyped(Variables(i, t, l, m))
  <2> SUFFICES ASSUME NEW i \in Figures, NEW t \in Texts \cup {Serialized}, NEW l \in Seq(Texts),
                      NEW m, m \in [DOMAIN m -> Texts], DOMAIN m \subseteq Texts
               PROVE  HolderTyped(Variables(i, t, l, m))
    OBVIOUS
  <2> DEFINE v == Variables(i, t, l, m)
  <2>1. v.num = i /\ v.text = t /\ v.list = l /\ v.map = m
    BY VariablesParts
  <2>2. v = Variables(v.num, v.text, v.list, v.map)
    BY <2>1
  <2> HIDE DEF v
  <2>3. HolderTyped(v)
    BY <2>1, <2>2 DEF HolderTyped
  <2> QED
    BY <2>3 DEF v
<1>3. \A x : /\ [o EXCEPT !.num = x] = Variables(x, text, list, map)
             /\ [o EXCEPT !.text = x] = Variables(num, x, list, map)
             /\ [o EXCEPT !.list = x] = Variables(num, text, x, map)
             /\ [o EXCEPT !.map = x] = Variables(num, text, list, x)
  <2>0. o = Variables(num, text, list, map)
    BY <1>1
  <2> SUFFICES ASSUME NEW x
               PROVE  /\ [o EXCEPT !.num = x] = Variables(x, text, list, map)
                      /\ [o EXCEPT !.text = x] = Variables(num, x, list, map)
                      /\ [o EXCEPT !.list = x] = Variables(num, text, x, map)
                      /\ [o EXCEPT !.map = x] = Variables(num, text, list, x)
    OBVIOUS
  <2> USE <2>0 DEF Variables
  <2>1. [o EXCEPT !.num = x] = Variables(x, text, list, map)
    OBVIOUS
  <2>2. [o EXCEPT !.text = x] = Variables(num, x, list, map)
    OBVIOUS
  <2>3. [o EXCEPT !.list = x] = Variables(num, text, x, map)
    OBVIOUS
  <2>4. [o EXCEPT !.map = x] = Variables(num, text, list, x)
    OBVIOUS
  <2> QED
    BY <2>1, <2>2, <2>3, <2>4
<1>4. ASSUME NEW i \in Figures PROVE HolderTyped([o EXCEPT !.num = i])
  <2>1. HolderTyped(Variables(i, text, list, map))
    BY <1>1, <1>2
  <2> QED
    BY <1>3, <2>1
<1>5. ASSUME NEW t \in Texts \cup {Serialized} PROVE HolderTyped([o EXCEPT !.text = t])
  <2>1. HolderTyped(Variables(num, t, list, map))
    BY <1>1, <1>2
  <2> QED
    BY <1>3, <2>1
<1>6. ASSUME NEW l \in Seq(Texts) PROVE HolderTyped([o EXCEPT !.list = l])
  <2>1. HolderTyped(Variables(num, text, l, map))
    BY <1>1, <1>2
  <2> QED
    BY <1>3, <2>1
<1>7. ASSUME NEW m, m \in [DOMAIN m -> Texts], DOMAIN m \subseteq Texts
      PROVE  HolderTyped([o EXCEPT !.map = m])
  <2>1. HolderTyped(Variables(num, text, list, m))
    BY <1>1, <1>2, <1>7
  <2> QED
    BY <1>3, <2>1
<1> QED
  BY <1>4, <1>5, <1>6, <1>7

\* A list that texts are added to is one of texts.
LEMMA AppendedList ==
  ASSUME NEW o, HolderTyped(o), NEW s \in Seq(Texts)
  PROVE  HolderTyped([o EXCEPT !.list = @ \o s])
<1>1. o.list \o s \in Seq(Texts)
  BY DEF HolderTyped
<1>2. HolderTyped([o EXCEPT !.list = o.list \o s])
  BY <1>1, HolderChanges, Zenon
<1> QED
  BY <1>2

\* The elements of a reply are texts.
LEMMA ElementsType ==
  ASSUME NEW r, r.element \in Seq(Texts), NEW other \in Texts
  PROVE  Elements(r, other) \in Seq(Texts) /\ Len(Elements(r, other)) = Len(r.element)
<1> DEFINE s == r.element
<1>1. DOMAIN s = 1 .. Len(s) /\ Len(s) \in Nat /\ \A i \in 1 .. Len(s) : s[i] \in Texts
  OBVIOUS
<1>2. Elements(r, other) \in [1 .. Len(s) -> Texts]
  BY <1>1 DEF Elements, OrText
<1> HIDE DEF s
<1>3. Elements(r, other) \in Seq(Texts) /\ Len(Elements(r, other)) = Len(s)
  BY <1>1, <1>2
<1> QED
  BY <1>3 DEF s

\* The fields of a reply are texts.
LEMMA FieldsType ==
  ASSUME NEW r, r.element \in Seq(Texts)
  PROVE  Fields(r) \in [DOMAIN Fields(r) -> Texts] /\ DOMAIN Fields(r) \subseteq Texts
<1> DEFINE s == r.element
           n == Len(s) \div 2
           named == {s[2 * i - 1] : i \in 1 .. n}
           place(f) == CHOOSE i \in 1 .. n : s[2 * i - 1] = f
<1>1. Fields(r) = [f \in named |-> s[2 * place(f)]]
  BY DEF Fields
<1>2. Len(s) \in Nat /\ \A i \in 1 .. Len(s) : s[i] \in Texts
  OBVIOUS
<1>3. n \in Nat /\ \A i \in 1 .. n : 2 * i - 1 \in 1 .. Len(s) /\ 2 * i \in 1 .. Len(s)
  <2>1. ASSUME NEW k \in Nat PROVE k \div 2 \in Nat /\ 2 * (k \div 2) <= k
    OBVIOUS
  <2>2. n \in Nat /\ 2 * n <= Len(s)
    BY <1>2, <2>1
  <2> HIDE DEF n, s
  <2> QED
    BY <1>2, <2>2
<1> HIDE DEF n, s
<1>4. named \subseteq Texts
  BY <1>2, <1>3
<1>5. ASSUME NEW f \in named PROVE s[2 * place(f)] \in Texts
  <2>1. place(f) \in 1 .. n
    OBVIOUS
  <2> HIDE DEF place
  <2> QED
    BY <1>2, <1>3, <2>1
<1> HIDE DEF named, place
<1> QED
  BY <1>1, <1>4, <1>5

\* A map that fields are added to is one of texts.
LEMMA MergedMap ==
  ASSUME NEW o, HolderTyped(o), NEW m, m \in [DOMAIN m -> Texts], DOMAIN m \subseteq Texts
  PROVE  HolderTyped([o EXCEPT !.map = Merged(@, m)])
<1> DEFINE g == Merged(o.map, m)
<1>1. g \in [DOMAIN g -> Texts] /\ DOMAIN g \subseteq Texts
  <2>1. o.map \in [DOMAIN o.map -> Texts] /\ DOMAIN o.map \subseteq Texts
    BY DEF HolderTyped
  <2> QED
    BY <2>1 DEF Merged
<1> HIDE DEF g
<1>2. HolderTyped([o EXCEPT !.map = g])
  BY <1>1, HolderChanges, Zenon
<1> QED
  BY <1>2 DEF g

\* What a method stores is of the type of what holds it.
LEMMA FilledTyped ==
  ASSUME NEW op, NEW r, ReplyTyped(op, r), ~Failed(ReplyError(r)), NEW o, HolderTyped(o)
  PROVE  HolderTyped(Filled(op, r, o))
<1>1. HolderTyped([o EXCEPT !.num = r.integer])
  BY HolderChanges DEF ReplyTyped
<1>2. op \in TextOut => HolderTyped([o EXCEPT !.text = r.str])
  BY HolderChanges DEF ReplyTyped
<1>3. HolderTyped([o EXCEPT !.list = @ \o r.element])
  BY AppendedList DEF ReplyTyped
<1>4. \A t \in {"nil", ""} : HolderTyped([o EXCEPT !.list = @ \o Elements(r, t)])
  <2>1. \A t \in {"nil", ""} : Elements(r, t) \in Seq(Texts)
    BY ElementsType DEF ReplyTyped, Texts
  <2> QED
    BY <2>1, AppendedList
<1>5. HolderTyped([o EXCEPT !.map = Merged(@, Fields(r))])
  BY FieldsType, MergedMap DEF ReplyTyped
<1>6. op \in Floats => HolderTyped([o EXCEPT !.num = CHOOSE n \in Number : Decimal[n] = r.str])
  <2>1. op \in Floats => (CHOOSE n \in Number : Decimal[n] = r.str) \in Number
    BY DEF ReplyTyped
  <2> QED
    BY <2>1, HolderChanges DEF Figures
<1>7. r.str \in KeyType => HolderTyped([o EXCEPT !.text = r.str])
  BY HolderChanges DEF Texts
<1> HIDE DEF HolderTyped
<1>8. CASE op \in IntegerOut
  BY <1>1, <1>8 DEF Filled, IntegerOut, TextOut, ListRead, ListWrite, Insert
<1>9. CASE op \notin IntegerOut /\ op \in TextOut
  BY <1>2, <1>9 DEF Filled
<1>10. CASE op \notin IntegerOut \cup TextOut /\ op \in ListRead \cup ListWrite
  <2>1. Filled(op, r, o) = ListFilled(op, r, o)
    BY <1>10 DEF Filled, ListRead, ListWrite, Insert, HashRead, HashWrite
  <2> QED
    BY <1>1, <1>3, <2>1 DEF ListFilled
<1>11. CASE op \notin IntegerOut \cup TextOut \cup ListRead \cup ListWrite
            /\ op \in HashRead \cup HashWrite
  <2>1. Filled(op, r, o) = HashFilled(op, r, o)
    BY <1>11 DEF Filled
  <2>2. "hincrbyfloat" \in Floats
    BY DEF Floats
  <2> QED
    BY <1>1, <1>3, <1>4, <1>5, <1>6, <2>1, <2>2 DEF HashFilled
<1>12. CASE op \notin IntegerOut \cup TextOut \cup ListRead \cup ListWrite \cup HashRead \cup HashWrite
  <2>1. Filled(op, r, o) = StringFilled(op, r, o)
    BY <1>12 DEF Filled
  <2>2. "incrbyfloat" \in Floats
    BY DEF Floats
  <2> QED
    BY <1>4, <1>6, <1>7, <2>1, <2>2 DEF StringFilled
<1> QED
  BY <1>8, <1>9, <1>10, <1>11, <1>12

\* The number a decoder stores.
LEMMA IntegerTyped ==
  ASSUME NEW op, NEW r, ReplyTyped(op, r)
  PROVE  Integer(op, r) \in Figures
BY SmallNumbers DEF Integer, NoNumber, ReplyTyped

\* What a decoder leaves is of the type of what holds it.
LEMMA DecodedTyped ==
  ASSUME NEW q, NEW r, ReplyTyped(q.op, r), NEW o, HolderTyped(o)
  PROVE  HolderTyped(Decoded(q, r, o))
<1>1. HolderTyped([o EXCEPT !.num = Integer(q.op, r)])
  BY IntegerTyped, HolderChanges
<1>2. ~Failed(ReplyError(r)) => HolderTyped(Filled(q.op, r, o))
  BY FilledTyped
<1> HIDE DEF HolderTyped
<1> QED
  BY <1>1, <1>2 DEF Decoded

\* When a method fails, nothing but its number can have changed.
Kept(o, p) == p = o \/ \E i \in {0, -1} : p = [o EXCEPT !.num = i]

\* Nothing added to a list leaves it as it was,
LEMMA AppendedNothing ==
  ASSUME NEW o, HolderTyped(o)
  PROVE  [o EXCEPT !.list = @ \o <<>>] = o
<1>1. o.list \o <<>> = o.list
  BY DEF HolderTyped
<1>2. PICK num, text, list, map : o = Variables(num, text, list, map)
  BY Zenon DEF HolderTyped
<1>3. [o EXCEPT !.list = o.list] = o
  BY <1>2, VariablesParts
<1> QED
  BY <1>1, <1>3

\* and so does nothing added to a map.
LEMMA MergedNothing ==
  ASSUME NEW o, HolderTyped(o), NEW r, r.element = <<>>
  PROVE  [o EXCEPT !.map = Merged(@, Fields(r))] = o
<1>1. Merged(o.map, Fields(r)) = o.map
  <2>1. Len(r.element) = 0 /\ 0 \div 2 = 0 /\ 1 .. 0 = {}
    OBVIOUS
  <2>2. DOMAIN Fields(r) = {}
    BY <2>1 DEF Fields
  <2>3. o.map = [f \in DOMAIN o.map |-> o.map[f]]
    BY DEF HolderTyped
  <2> QED
    BY <2>2, <2>3 DEF Merged
<1>2. PICK num, text, list, map : o = Variables(num, text, list, map)
  BY Zenon DEF HolderTyped
<1>3. [o EXCEPT !.map = o.map] = o
  BY <1>2, VariablesParts
<1> QED
  BY <1>1, <1>3

\* A decoder that fails fills in nothing.
LEMMA FailureFills ==
  ASSUME NEW op, NEW r, ReplyTyped(op, r), ~Failed(ReplyError(r)), ~Verdict(op, r),
         NEW o, HolderTyped(o)
  PROVE  Filled(op, r, o) = o
<1>1. PlainResult(r)
  BY DEF PlainResult
<1>2. op \in Many => r.type = "ARRAY"
  BY DEF ReplyTyped
<1>3. CASE op \in ListRead \cup ListWrite
  <2>1. ~ListVerdict(op, r)
    BY <1>3 DEF Verdict, ListRead, ListWrite, Insert, HashRead, HashWrite
  <2>2. CASE op = "lrange"
    <3>1. r.element = <<>>
      BY <1>1, <2>1, <2>2 DEF ListVerdict, Insert
    <3>2. Filled(op, r, o) = [o EXCEPT !.list = @ \o <<>>]
      BY <2>2, <3>1 DEF Filled, ListFilled, IntegerOut, TextOut, ListRead, ListWrite, Insert,
         HashRead, HashWrite
    <3> QED
      BY <3>2, AppendedNothing
  <2>3. CASE op \in Insert
    <3>1. r.integer \in {-1, 0}
      BY <1>1, <2>1, <2>3 DEF ListVerdict, Insert
    <3> QED
      BY <2>3, <3>1 DEF Filled, ListFilled, IntegerOut, TextOut, ListRead, ListWrite, Insert,
         HashRead, HashWrite
  <2>4. CASE op \in {"lset", "ltrim"}
    BY <2>4 DEF Filled, ListFilled, IntegerOut, TextOut, ListRead, ListWrite, Insert,
         HashRead, HashWrite
  <2> QED
    BY <1>1, <2>1, <2>2, <2>3, <2>4 DEF ListVerdict
<1>4. CASE op \notin ListRead \cup ListWrite /\ op \in HashRead \cup HashWrite
  <2>1. ~HashVerdict(op, r)
    BY <1>4 DEF Verdict
  <2>2. CASE op \in {"hkeys", "hvals"}
    <3>1. r.element = <<>>
      BY <1>1, <2>1, <2>2 DEF HashVerdict
    <3>2. Filled(op, r, o) = [o EXCEPT !.list = @ \o <<>>]
      BY <2>2, <3>1 DEF Filled, HashFilled, IntegerOut, TextOut, ListRead, ListWrite, Insert, HashRead
    <3> QED
      BY <3>2, AppendedNothing
  <2>3. CASE op = "hgetall"
    <3>1. r.element = <<>>
      BY <1>1, <2>1, <2>3 DEF HashVerdict
    <3>2. Filled(op, r, o) = [o EXCEPT !.map = Merged(@, Fields(r))]
      BY <2>3 DEF Filled, HashFilled, IntegerOut, TextOut, ListRead, ListWrite, Insert, HashRead
    <3> QED
      BY <3>1, <3>2, MergedNothing
  <2>4. CASE op \in {"hexists", "hmset"}
    BY <2>4 DEF Filled, HashFilled, IntegerOut, TextOut, ListRead, ListWrite, Insert, HashRead, HashWrite
  <2> QED
    BY <1>1, <1>2, <2>1, <2>2, <2>3, <2>4 DEF HashVerdict, Many
<1>5. CASE op \notin ListRead \cup ListWrite \cup HashRead \cup HashWrite
  <2>1. ~StringVerdict(op, r)
    BY <1>5 DEF Verdict
  <2>2. op \in {"exist", "rename", "renamenx", "expire", "persist", "set", "setnx", "msetnx", "setex"}
    BY <1>1, <1>2, <2>1 DEF StringVerdict, Many
  <2> QED
    BY <1>5, <2>2 DEF Filled, StringFilled, IntegerOut, TextOut
<1> QED
  BY <1>3, <1>4, <1>5

\* A method that fails leaves its caller's variables, but for the number.
LEMMA FailureKept ==
  ASSUME NEW q, NEW r, ReplyTyped(q.op, r), Told(q.op, r) # "confirmed", NEW o, HolderTyped(o)
  PROVE  Kept(o, Decoded(q, r, o))
<1>0. /\ ~Verdict(q.op, r) \/ Failed(ReplyError(r))
      /\ q.op # "mset" => ~Verdict(q.op, r)
  BY DEF Told
<1>1. Integer(q.op, r) \in {0, -1} \/ ~Failed(ReplyError(r))
  BY DEF Integer, NoNumber
<1>2. q.op \in Lengths \cup {"getbit", "setbit"} => Failed(ReplyError(r))
  BY <1>0 DEF Verdict, StringVerdict, ListVerdict, HashVerdict, PlainResult, Lengths, Insert
<1>3. ~Failed(ReplyError(r)) => Filled(q.op, r, o) = o
  BY <1>0, FailureFills
<1>4. \A i \in {0, -1} : Kept(o, [o EXCEPT !.num = i])
  BY DEF Kept
<1>5. Kept(o, o)
  BY DEF Kept
<1> HIDE DEF Kept
<1>6. CASE q.op \in Lengths \cup {"getbit"}
  <2>1. Decoded(q, r, o) = [o EXCEPT !.num = Integer(q.op, r)]
    BY <1>6 DEF Decoded
  <2> QED
    BY <1>1, <1>2, <1>4, <1>6, <2>1
<1>7. CASE q.op = "setbit"
  <2>1. Decoded(q, r, o) = o \/ Decoded(q, r, o) = [o EXCEPT !.num = Integer(q.op, r)]
    BY <1>7 DEF Decoded, Lengths
  <2> QED
    BY <1>1, <1>2, <1>4, <1>5, <1>7, <2>1
<1>8. CASE q.op \notin Lengths \cup {"getbit", "setbit"}
  <2>1. Decoded(q, r, o) = IF Failed(ReplyError(r)) THEN o ELSE Filled(q.op, r, o)
    BY <1>8 DEF Decoded
  <2> QED
    BY <1>3, <1>5, <2>1
<1> QED
  BY <1>6, <1>7, <1>8

-----------------------------------------------------------------------------
(* The types of the variables.                                             *)

Requested(q) == q.op \in Method \ {"expireat"} /\ q \in Requests(q.op)

\* What the server has answered, and from which database if it was a question.
Given(x) ==
  /\ ReplyTyped(x.q.op, x.reply)
  /\ IF x.q.op \in Read
     THEN /\ DatabaseType(x.snap)
          /\ \E s \in Effects(x.snap, x.q.op, Sent(x.q), Printed(x.q)) : s.reply = x.reply
     ELSE x.snap = NoSnapshot

\* A client's call is one of its methods', and its variables hold what methods
\* store.
ClientTyped(c) ==
  /\ call[c] # Idle => Requested(call[c].q) /\ call[c].q.op \in Uses[c]
  /\ IF call[c].phase = "answered" THEN Given(call[c]) ELSE call[c].snap = NoSnapshot
  /\ link[c] \in {"closed", "up", "down", "broken", "gone"}
  /\ HolderTyped(out[c])

TInv ==
  /\ DatabaseType(db)
  /\ \A o \in orphans : Requested(o.q)
  /\ \A c \in Client : ClientTyped(c)
  /\ out = [c \in Client |-> out[c]]
  /\ drops \in 0 .. MaxDrops

\* What is requested is asked for in words a command can be carried out on.
LEMMA RequestedAsked ==
  ASSUME NEW q, Requested(q)
  PROVE  q.op \in Read \cup Write /\ Printed(q) \in Int /\ WellSent(q.op, Sent(q))
BY RequestsAsked, RequestsWellSent DEF Requested, Asked

\* The server's keys stay well-formed, and its answers fit the method.
LEMMA ServedTyped ==
  ASSUME NEW d, DatabaseType(d), NEW q, Requested(q),
         NEW s \in Effects(d, q.op, Sent(q), Printed(q))
  PROVE  DatabaseType(s.db) /\ ReplyTyped(q.op, s.reply)
<1>1. OutcomeTyped(q.op, s)
  BY RequestedAsked, EffectsTyped
<1> QED
  BY <1>1 DEF OutcomeTyped

\* The types hold at first,
LEMMA InitTInv == Init => TInv
<1> SUFFICES ASSUME Init PROVE TInv
  OBVIOUS
<1>1. DatabaseType(db)
  BY DatabaseAssumption DEF Init
<1>2. HolderTyped(Variables(0, "", <<>>, <<>>))
  <2> DEFINE o == Variables(0, "", <<>>, <<>>)
  <2>1. o.num = 0 /\ o.text = "" /\ o.list = <<>> /\ o.map = <<>>
    BY DEF Variables
  <2>2. o = Variables(o.num, o.text, o.list, o.map)
    BY <2>1
  <2>3. <<>> \in Seq(Texts) /\ DOMAIN <<>> = {} /\ <<>> \in [DOMAIN <<>> -> Texts]
    OBVIOUS
  <2>4. "" \in Texts /\ 0 \in Figures
    BY SmallNumbers DEF Texts
  <2> HIDE DEF o
  <2>5. HolderTyped(o)
    BY <2>1, <2>2, <2>3, <2>4 DEF HolderTyped
  <2> QED
    BY <2>5 DEF o
<1>3. Idle.snap = NoSnapshot /\ Idle.phase # "answered"
  BY DEF Idle, Call
<1>4. ASSUME NEW c \in Client PROVE ClientTyped(c)
  BY <1>2, <1>3 DEF Init, ClientTyped
<1>5. drops \in 0 .. MaxDrops
  <2>1. MaxDrops \in Nat /\ drops = 0
    BY StoreAssumption DEF Init
  <2> QED
    BY <2>1
<1>6. out = [c \in Client |-> out[c]]
  BY DEF Init
<1> QED
  BY <1>1, <1>4, <1>5, <1>6 DEF TInv, Init

\* A step that leaves the server's keys alone, or leaves them well-formed, and
\* one client's context, call and variables.
LEMMA ClientStep ==
  ASSUME IInv, TInv, NEW c \in Client,
         DatabaseType(db'), drops' \in 0 .. MaxDrops,
         \A o \in orphans' : o \in orphans \/ Requested(o.q),
         \A b \in Client : b # c => call'[b] = call[b] /\ link'[b] = link[b] /\ out'[b] = out[b],
         out' = [b \in Client |-> out'[b]], ClientTyped(c)'
  PROVE  TInv'
<1>1. ASSUME NEW b \in Client PROVE ClientTyped(b)'
  <2>1. CASE b = c
    BY <2>1
  <2>2. CASE b # c
    BY <2>2 DEF TInv, ClientTyped
  <2> QED
    BY <2>1, <2>2
<1> QED
  BY <1>1 DEF TInv

\* The end of a call.
LEMMA ReturnTyped ==
  ASSUME IInv, TInv, NEW c \in Client, NEW r, ReplyTyped(call[c].q.op, r), Return(c, r),
         UNCHANGED <<db, orphans, drops>>,
         \A b \in Client : b # c => link'[b] = link[b],
         link'[c] \in {"closed", "up", "down", "broken", "gone"}
  PROVE  TInv'
<1> DEFINE q == call[c].q
           p == Decoded(q, r, out[c])
<1>1. out' = [b \in Client |-> IF b = c THEN p ELSE out[b]]
  BY DEF Return, TInv
<1>2. call' = [b \in Client |-> IF b = c THEN Idle ELSE call[b]]
  BY DEF Return, IInv, Types
<1>3. HolderTyped(p)
  BY DecodedTyped DEF TInv, ClientTyped
<1>4. Idle.snap = NoSnapshot /\ Idle.phase # "answered"
  BY DEF Idle, Call
<1> HIDE DEF p, q
<1>5. ClientTyped(c)'
  BY <1>1, <1>2, <1>3, <1>4 DEF ClientTyped
<1>6. out' = [b \in Client |-> out'[b]]
  BY <1>1
<1>7. \A b \in Client : b # c => call'[b] = call[b] /\ out'[b] = out[b]
  BY <1>1, <1>2
<1>8. DatabaseType(db') /\ drops' \in 0 .. MaxDrops /\ \A o \in orphans' : o \in orphans
  BY DEF TInv, DatabaseType
<1> QED
  BY <1>5, <1>6, <1>7, <1>8, ClientStep

\* and every step keeps them.
LEMMA NextTInv == IInv /\ TInv /\ [Next]_vars => TInv'
<1> SUFFICES ASSUME IInv, TInv, [Next]_vars PROVE TInv'
  OBVIOUS
<1>0. /\ call = [c \in Client |-> call[c]] /\ link = [c \in Client |-> link[c]]
      /\ out = [c \in Client |-> out[c]]
  BY DEF IInv, Types, TInv
<1>1. CASE UNCHANGED vars
  BY <1>1 DEF vars, TInv, ClientTyped, DatabaseType
<1>2. ASSUME NEW c \in Client, Send(c) PROVE TInv'
  <2>1. PICK op \in Uses[c] \ {"expireat"} : \E q \in Requests(op) :
          call' = [call EXCEPT ![c] = Call(q, "sent", Len(tale) + 1, NullReply, NoSnapshot)]
    BY <1>2, Zenon DEF Send
  <2>2. PICK q \in Requests(op) :
          call' = [call EXCEPT ![c] = Call(q, "sent", Len(tale) + 1, NullReply, NoSnapshot)]
    BY <2>1
  <2> DEFINE x == Call(q, "sent", Len(tale) + 1, NullReply, NoSnapshot)
  <2>3. x.q = q /\ x.phase = "sent" /\ x.snap = NoSnapshot
    BY CallFields
  <2> HIDE DEF x
  <2>4. call' = [b \in Client |-> IF b = c THEN x ELSE call[b]]
    BY <1>0, <2>2 DEF x
  <2>5. op \in Method \ {"expireat"} /\ q.op = op
    BY StoreAssumption, RequestShape
  <2>6. UNCHANGED <<db, orphans, link, out, drops>>
    BY <1>2 DEF Send
  <2>7. ClientTyped(c)'
    BY <2>3, <2>4, <2>5, <2>6 DEF TInv, ClientTyped, Requested
  <2>8. DatabaseType(db')
    BY <2>6 DEF TInv, DatabaseType
  <2> QED
    BY <1>0, <2>4, <2>6, <2>7, <2>8, ClientStep DEF TInv
<1>3. ASSUME NEW c \in Client, Refuse(c) PROVE TInv'
  <2>1. UNCHANGED <<db, orphans, call, link, drops>>
    BY <1>3 DEF Refuse
  <2>2. out' = out \/ \E op : out' = [out EXCEPT ![c].num = NoNumber(op)]
    BY <1>3 DEF Refuse
  <2>3. CASE out' = out
    BY <2>1, <2>3 DEF TInv, ClientTyped, DatabaseType
  <2>4. ASSUME NEW op, out' = [out EXCEPT ![c].num = NoNumber(op)] PROVE TInv'
    <3> DEFINE p == [out[c] EXCEPT !.num = NoNumber(op)]
    <3>1. out' = [b \in Client |-> IF b = c THEN p ELSE out[b]]
      BY <1>0, <2>4
    <3>2. HolderTyped(p)
      BY SmallNumbers, HolderChanges DEF NoNumber, TInv, ClientTyped
    <3> HIDE DEF p
    <3>3. ClientTyped(c)'
      BY <2>1, <3>1, <3>2 DEF TInv, ClientTyped
    <3>4. DatabaseType(db')
      BY <2>1 DEF TInv, DatabaseType
    <3> QED
      BY <1>0, <2>1, <3>1, <3>3, <3>4, ClientStep DEF TInv
  <2> QED
    BY <2>2, <2>3, <2>4
<1>4. ASSUME NEW c \in Client, FailFast(c) PROVE TInv'
  <2>1. UNCHANGED <<db, orphans, call, link, drops>>
    BY <1>4 DEF FailFast
  <2> DEFINE answer == IF link[c] = "broken" THEN NullReply
                       ELSE ErrorReply(kErrorDesc["REDIS_NO_CONNECT"])
  <2>8. PICK q : out' = [out EXCEPT ![c] = Decoded(q, answer, @)]
    BY <1>4, Zenon DEF FailFast
  <2>9. answer = NullReply \/ \E t : answer = ErrorReply(t)
    OBVIOUS
  <2> HIDE DEF answer
  <2>2. PICK r : /\ out' = [out EXCEPT ![c] = Decoded(q, r, @)]
                 /\ r = NullReply \/ \E t : r = ErrorReply(t)
    BY <2>8, <2>9
  <2> DEFINE p == Decoded(q, r, out[c])
  <2>3. out' = [b \in Client |-> IF b = c THEN p ELSE out[b]]
    BY <1>0, <2>2
  <2>4. ReplyTyped(q.op, r)
    BY <2>2, RepliesTyped
  <2>5. HolderTyped(p)
    BY <2>4, DecodedTyped DEF TInv, ClientTyped
  <2> HIDE DEF p
  <2>6. ClientTyped(c)'
    BY <2>1, <2>3, <2>5 DEF TInv, ClientTyped
  <2>7. DatabaseType(db')
    BY <2>1 DEF TInv, DatabaseType
  <2> QED
    BY <1>0, <2>1, <2>3, <2>6, <2>7, ClientStep DEF TInv
<1>5. ASSUME NEW c \in Client, Receive(c) PROVE TInv'
  <2>1. ReplyTyped(call[c].q.op, call[c].reply)
    BY <1>5 DEF Receive, TInv, ClientTyped, Given
  <2> QED
    BY <1>5, <2>1, ReturnTyped DEF Receive, TInv, ClientTyped
<1>6. ASSUME NEW c \in Client, ReceiveNothing(c) PROVE TInv'
  <2>1. ReplyTyped(call[c].q.op, NullReply)
    BY RepliesTyped
  <2>2. link' = [b \in Client |-> IF b = c THEN "broken" ELSE link[b]]
    BY <1>0, <1>6 DEF ReceiveNothing
  <2> QED
    BY <1>6, <2>1, <2>2, ReturnTyped DEF ReceiveNothing
<1>7. ASSUME NEW c \in Client, Connect(c) \/ Dies(c) PROVE TInv'
  <2>1. PICK l \in {"up", "closed", "gone"} : link' = [link EXCEPT ![c] = l]
    BY <1>7 DEF Connect, Dies
  <2>2. link' = [b \in Client |-> IF b = c THEN l ELSE link[b]]
    BY <1>0, <2>1
  <2>3. UNCHANGED <<db, orphans, call, out, drops>>
    BY <1>7 DEF Connect, Dies
  <2>4. ClientTyped(c)'
    BY <2>2, <2>3 DEF TInv, ClientTyped
  <2>5. DatabaseType(db')
    BY <2>3 DEF TInv, DatabaseType
  <2> QED
    BY <1>0, <2>2, <2>3, <2>4, <2>5, ClientStep DEF TInv
<1>8. ASSUME NEW c \in Client, Apply(c) PROVE TInv'
  <2> DEFINE q == call[c].q
  <2>1. PICK s \in Effects(db, q.op, Sent(q), Printed(q)) :
          /\ db' = s.db
          /\ call' = [call EXCEPT ![c] = Call(q, "answered", @.n, s.reply,
                                              IF q.op \in Read THEN db ELSE NoSnapshot)]
    BY <1>8, Zenon DEF Apply
  <2>2. call[c] # Idle /\ UNCHANGED <<orphans, link, out, drops>>
    BY <1>8, IdleFields DEF Apply
  <2>3. Requested(q) /\ q.op \in Uses[c] /\ DatabaseType(db)
    BY <2>2 DEF TInv, ClientTyped
  <2>4. DatabaseType(s.db) /\ ReplyTyped(q.op, s.reply)
    BY <2>1, <2>3, ServedTyped
  <2> DEFINE x == Call(q, "answered", call[c].n, s.reply, IF q.op \in Read THEN db ELSE NoSnapshot)
  <2>5. /\ x.q = q /\ x.phase = "answered" /\ x.reply = s.reply
        /\ x.snap = IF q.op \in Read THEN db ELSE NoSnapshot
    BY CallFields
  <2>6. call' = [b \in Client |-> IF b = c THEN x ELSE call[b]]
    BY <1>0, <2>1
  <2> HIDE DEF x, q
  <2>7. Given(x)
    BY <2>1, <2>3, <2>4, <2>5 DEF Given
  <2>8. ClientTyped(c)'
    <3>1. call'[c] = x /\ link'[c] = link[c] /\ out'[c] = out[c]
      BY <2>2, <2>6
    <3>2. ClientTyped(c)
      BY DEF TInv
    <3> QED
      BY <2>3, <2>5, <2>7, <3>1, <3>2 DEF ClientTyped
  <2> QED
    BY <1>0, <2>1, <2>2, <2>4, <2>6, <2>8, ClientStep DEF TInv
<1>9. ASSUME NEW c \in Client, LinkDrop(c) PROVE TInv'
  <2>1. UNCHANGED <<db, call, out, tale>> /\ drops' = drops + 1 /\ drops < MaxDrops
    BY <1>9 DEF LinkDrop
  <2>2. link' = [b \in Client |-> IF b = c THEN "down" ELSE link[b]]
    BY <1>0, <1>9 DEF LinkDrop
  <2>3. ASSUME NEW o \in orphans' PROVE o \in orphans \/ Requested(o.q)
    <3>1. o \in orphans \/ (call[c].phase = "sent" /\ o = [q |-> call[c].q, n |-> call[c].n])
      BY <1>9 DEF LinkDrop
    <3>2. call[c].phase = "sent" => Requested(call[c].q)
      BY IdleFields DEF TInv, ClientTyped
    <3> QED
      BY <3>1, <3>2
  <2>4. drops' \in 0 .. MaxDrops
    BY <2>1, StoreAssumption DEF TInv
  <2>5. ClientTyped(c)'
    BY <2>1, <2>2 DEF TInv, ClientTyped
  <2>6. DatabaseType(db')
    BY <2>1 DEF TInv, DatabaseType
  <2> QED
    BY <1>0, <2>1, <2>2, <2>3, <2>4, <2>5, <2>6, ClientStep
<1>10. ASSUME NEW k \in Key, Vanish(k) PROVE TInv'
  <2>1. UNCHANGED <<orphans, call, link, out, drops>> /\ db' = [db EXCEPT ![k] = Absent]
    BY <1>10 DEF Vanish
  <2>2. DatabaseType(db')
    BY <2>1, EntryForms, PutKeepsType DEF TInv
  <2> QED
    BY <2>1, <2>2 DEF TInv, ClientTyped
<1>11. ASSUME NEW o \in orphans, Orphaned(o) PROVE TInv'
  <2>1. UNCHANGED <<call, link, out, drops>> /\ orphans' \subseteq orphans
    BY <1>11 DEF Orphaned
  <2>2. db' = db \/ \E s \in Effects(db, o.q.op, Sent(o.q), Printed(o.q)) : db' = s.db
    BY <1>11, Zenon DEF Orphaned
  <2>3. DatabaseType(db')
    <3>1. CASE db' = db
      BY <3>1 DEF TInv, DatabaseType
    <3>2. ASSUME NEW s \in Effects(db, o.q.op, Sent(o.q), Printed(o.q)), db' = s.db
          PROVE  DatabaseType(db')
      BY <3>2, ServedTyped DEF TInv
    <3> QED
      BY <2>2, <3>1, <3>2
  <2> QED
    BY <2>1, <2>3 DEF TInv, ClientTyped
<1>12. ASSUME NEW c \in Client, DiesStoring(c) PROVE TInv'
  <2>1. /\ call' = [b \in Client |-> IF b = c THEN Idle ELSE call[b]]
        /\ link' = [b \in Client |-> IF b = c THEN "gone" ELSE link[b]]
    BY <1>0, <1>12 DEF DiesStoring
  <2>2. UNCHANGED <<db, orphans, out, drops>>
    BY <1>12 DEF DiesStoring
  <2>3. ClientTyped(c)'
    <3>1. call'[c] = Idle /\ link'[c] = "gone" /\ out'[c] = out[c]
      BY <2>1, <2>2
    <3>2. Idle.snap = NoSnapshot /\ Idle.phase = "idle"
      BY DEF Idle, Call
    <3>3. ClientTyped(c)
      BY DEF TInv
    <3> QED
      BY <3>1, <3>2, <3>3 DEF ClientTyped
  <2>4. DatabaseType(db')
    BY <2>2 DEF TInv, DatabaseType
  <2> QED
    BY <1>0, <2>1, <2>2, <2>3, <2>4, ClientStep DEF TInv
<1> QED
  BY <1>1, <1>2, <1>3, <1>4, <1>5, <1>6, <1>7, <1>8, <1>9, <1>10, <1>11, <1>12 DEF Next

\* Whatever happens, the server's keys, the calls, what the server has answered
\* them and the variables of the callers hold what their types allow.
THEOREM TInvHolds == Spec => []TInv
BY InitTInv, NextTInv, IInvHolds, PTL DEF Spec

\* The invariants give the type invariant.
LEMMA TypeFollows == IInv /\ TInv => TypeOK
<1> SUFFICES ASSUME IInv, TInv PROVE TypeOK
  OBVIOUS
<1>1. DatabaseType(db) /\ drops \in 0 .. MaxDrops
  BY DEF TInv
<1>2. ASSUME NEW o \in orphans PROVE o.q.op \in Read \cup Write /\ o.n \in DOMAIN tale
  BY Numbers DEF IInv, OrphansOpen, Orphan, Asked
<1>3. tale \in Seq([ told : {"pending", "confirmed", "swallowed", "nil", "denied", "unknown"},
                     done : {"no", "same", "changed"} ])
  BY DEF IInv, Types, Tales, Telling, Doing
<1>4. ASSUME NEW c \in Client
      PROVE  /\ call[c].phase \in {"idle", "sent", "answered"}
             /\ call[c] # Idle => call[c].q.op \in Uses[c] /\ call[c].n \in DOMAIN tale
             /\ call[c].snap # NoSnapshot => DatabaseType(call[c].snap)
             /\ link[c] \in {"closed", "up", "down", "broken", "gone"}
  <2>1. ClientTyped(c)
    BY DEF TInv
  <2>2. call[c] = Idle \/ Open(call[c])
    BY DEF IInv, CallsOpen
  <2> HIDE DEF DatabaseType, HolderTyped
  <2>3. call[c] # Idle => call[c].n \in DOMAIN tale
    BY <2>2, Numbers DEF Open
  <2> QED
    BY <2>1, <2>2, <2>3, IdleFields DEF ClientTyped, Given, Open
<1>5. ASSUME NEW c \in Client
      PROVE  /\ out[c].num \in Nat \cup {-1, -2} \cup Number
             /\ out[c].text \in Texts \cup {Serialized}
             /\ ToSet(out[c].list) \subseteq Texts
             /\ \A f \in DOMAIN out[c].map : {f, out[c].map[f]} \subseteq Texts
  <2>1. HolderTyped(out[c])
    BY DEF TInv, ClientTyped
  <2>2. out[c].list \in Seq(Texts)
    BY <2>1 DEF HolderTyped
  <2>3. ToSet(out[c].list) \subseteq Texts
    BY <2>2 DEF ToSet
  <2>4. /\ out[c].num \in Nat \cup {-1, -2} \cup Number
        /\ out[c].text \in Texts \cup {Serialized}
    BY <2>1 DEF HolderTyped, Figures
  <2>5. \A f \in DOMAIN out[c].map : {f, out[c].map[f]} \subseteq Texts
    BY <2>1 DEF HolderTyped
  <2> QED
    BY <2>3, <2>4, <2>5
<1> QED
  BY <1>1, <1>2, <1>3, <1>4, <1>5 DEF TypeOK

\* The type invariant: entries of every key stay well-formed under every command
\* and every variable of a caller holds numbers and texts that replies can carry.
THEOREM TypeCorrect == Spec => []TypeOK
BY IInvHolds, TInvHolds, TypeFollows, PTL

\* A call that ends without success has kept its caller's variables.
LEMMA EndKeeps ==
  ASSUME TInv, NEW c \in Client, NEW q, NEW r, ReplyTyped(q.op, r),
         out' = [out EXCEPT ![c] = Decoded(q, r, @)], Told(q.op, r) # "confirmed"
  PROVE  \A b \in Client : out'[b] # out[b] => b = c /\ Kept(out[c], out'[c])
<1>1. out' = [b \in Client |-> IF b = c THEN Decoded(q, r, out[c]) ELSE out[b]]
  BY DEF TInv
<1>2. HolderTyped(out[c])
  BY DEF TInv, ClientTyped
<1>3. Kept(out[c], Decoded(q, r, out[c]))
  BY <1>2, FailureKept
<1> QED
  BY <1>1, <1>3

\* A step that changes a caller's variables ends a call with success, or sets a
\* number to 0 or -1.
LEMMA NextKeeps ==
  ASSUME IInv, TInv, [Next]_vars, NEW c \in Client, out'[c] # out[c]
  PROVE  LET n == IF call[c] = Idle THEN Len(tale') ELSE call[c].n IN
         tale'[n].told = "confirmed" \/ \E i \in {0, -1} : out'[c] = [out[c] EXCEPT !.num = i]
<1> DEFINE n == IF call[c] = Idle THEN Len(tale') ELSE call[c].n
           P == tale'[n].told = "confirmed" \/ \E i \in {0, -1} : out'[c] = [out[c] EXCEPT !.num = i]
<1>1. out = [b \in Client |-> out[b]] /\ tale \in Tales /\ Len(tale) \in Nat
  BY Numbers DEF IInv, Types, TInv
<1>2. ASSUME NEW b \in Client, Refuse(b) PROVE P
  <2>1. PICK op : out' = [out EXCEPT ![b].num = NoNumber(op)]
    BY <1>2, <1>1 DEF Refuse
  <2>2. out'[c] = [out[c] EXCEPT !.num = NoNumber(op)]
    BY <1>1, <2>1
  <2> QED
    BY <2>2 DEF NoNumber
<1>3. ASSUME NEW b \in Client, FailFast(b) PROVE P
  <2> DEFINE r == IF link[b] = "broken" THEN NullReply
                  ELSE ErrorReply(kErrorDesc["REDIS_NO_CONNECT"])
  <2>1. \E op : \E q \in Requests(op) :
          /\ op \in Method
          /\ out' = [out EXCEPT ![b] = Decoded(q, r, @)]
          /\ tale' = Append(tale, Tale(Told(op, r), "no"))
    <3>1. Uses[b] \subseteq Method
      BY StoreAssumption
    <3> QED
      BY <1>3, <3>1, Zenon DEF FailFast
  <2>2. \A op, q : ReplyTyped(q.op, r) /\ Told(op, r) # "confirmed"
    BY RepliesTyped, ToldWithoutReply
  <2> HIDE DEF r
  <2>3. PICK q : out' = [out EXCEPT ![b] = Decoded(q, r, @)]
    BY <2>1
  <2>4. \A a \in Client : out'[a] # out[a] => a = b /\ Kept(out[b], out'[b])
    BY <2>2, <2>3, EndKeeps
  <2>5. Kept(out[c], out'[c])
    BY <2>4
  <2> QED
    BY <2>5 DEF Kept
<1>4. ASSUME NEW b \in Client, call[b] # Idle, NEW r, ReplyTyped(call[b].q.op, r), Return(b, r)
      PROVE  P
  <2> DEFINE q == call[b].q
             m == call[b].n
             t == Told(q.op, r)
  <2>1. out' = [out EXCEPT ![b] = Decoded(q, r, @)] /\ tale' = [tale EXCEPT ![m].told = t]
    BY <1>4 DEF Return
  <2>2. m \in 1 .. Len(tale)
    BY <1>4, OpenCall DEF Open
  <2>3. c = b
    BY <1>1, <2>1
  <2>4. tale'[m].told = t
    <3>1. t \in Telling
      BY ToldType DEF Telling
    <3> HIDE DEF t, m
    <3> QED
      BY <1>1, <2>1, <2>2, <3>1, TellsAnew
  <2>5. CASE t = "confirmed"
    BY <1>4, <2>3, <2>4, <2>5
  <2>6. CASE t # "confirmed"
    <3>1. Kept(out[c], out'[c])
      BY <1>4, <2>1, <2>3, <2>6, EndKeeps
    <3> QED
      BY <3>1 DEF Kept
  <2> QED
    BY <2>5, <2>6
<1>5. ASSUME NEW b \in Client, Receive(b) PROVE P
  <2>1. call[b] # Idle /\ ReplyTyped(call[b].q.op, call[b].reply)
    BY <1>5, IdleFields DEF Receive, TInv, ClientTyped, Given
  <2> QED
    BY <1>4, <1>5, <2>1 DEF Receive
<1>6. ASSUME NEW b \in Client, ReceiveNothing(b) PROVE P
  BY <1>4, <1>6, RepliesTyped DEF ReceiveNothing
<1>7. CASE UNCHANGED out
  BY <1>7
<1>8. \/ UNCHANGED out
      \/ \E b \in Client : Refuse(b) \/ FailFast(b) \/ Receive(b) \/ ReceiveNothing(b)
  BY DEF Next, vars, Orphaned, Vanish, Send, Dies, DiesStoring, Connect, Apply, LinkDrop
<1> HIDE DEF P
<1>9. P
  BY <1>2, <1>3, <1>5, <1>6, <1>7, <1>8
<1> QED
  BY <1>9 DEF P

\* A call that does not report success leaves what its caller passed as it was,
\* but for the number that some methods set to 0 or -1 before they ask.
THEOREM FailureIsQuiet == Spec => FailureKeepsOutputs
<1> DEFINE Keeps(c) ==
      out'[c] # out[c] =>
        LET n == IF call[c] = Idle THEN Len(tale') ELSE call[c].n IN
        tale'[n].told = "confirmed" \/ \E i \in {0, -1} : out'[c] = [out[c] EXCEPT !.num = i]
<1>1. IInv /\ TInv /\ [Next]_vars => [\A c \in Client : Keeps(c)]_vars
  BY NextKeeps
<1> QED
  BY IInvHolds, TInvHolds, <1>1, PTL DEF Spec, FailureKeepsOutputs
=============================================================================
