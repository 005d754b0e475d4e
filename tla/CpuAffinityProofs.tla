--------------------------- MODULE CpuAffinityProofs ---------------------------
(***************************************************************************)
(* Proofs about CpuAffinity, for any threads, and for any finite set of    *)
(* CPUs, with holes in their numbers or without.                           *)
(***************************************************************************)
EXTENDS CpuAffinity, FiniteSetTheorems, WellFoundedInduction, TLAPS

\* A thread that is pinned, and not thrown off by the kernel, runs nowhere else.
PinIsMask == \A t \in Thread : pin[t] # NoPin => mask[t] = {pin[t]}

\* The inductive invariant.  The types hold of themselves; what a getter finds
\* depends on the mask being the pin alone.
IInv == TypeOK /\ PinIsMask

\* get_nprocs() counts at least one CPU and never more than there are.
LEMMA CoresType ==
  ASSUME TypeOK
  PROVE  getCpuCores \in 1 .. Cardinality(Cpu)
<1>1. IsFiniteSet(Cpu) /\ online \subseteq Cpu /\ online # {}
  BY AffinityAssumption DEF TypeOK
<1>2. /\ IsFiniteSet(online) /\ Cardinality(online) <= Cardinality(Cpu)
      /\ Cardinality(online) \in Nat /\ Cardinality(Cpu) \in Nat
  BY <1>1, FS_Subset, FS_CardinalityType
<1>3. Cardinality(online) # 0
  BY <1>1, <1>2, FS_EmptySet
<1> QED
  BY <1>2, <1>3 DEF getCpuCores

\* The loop of the getters, on a mask of CPUs.
LEMMA FoundType ==
  ASSUME NEW m \in SUBSET Cpu, NEW cores
  PROVE  Found(cores, m) \in Cpu \cup {-1}
<1> DEFINE below == {i \in m : i < cores}
<1>1. CASE below = {}
  BY <1>1 DEF Found
<1>2. CASE below # {}
  <2> DEFINE less == OpToRel(<, Nat)
  <2>1. below \subseteq Nat
    BY AffinityAssumption
  <2>2. PICK i \in below : \A j \in below : <<j, i>> \notin less
    BY <1>2, <2>1, WFMin, NatLessThanWellFounded, Zenon
  <2>3. \A j, k \in Nat : j < k => <<j, k>> \in less
    BY Z3 DEF OpToRel
  <2>4. \A j \in below : ~(j < i)
    BY <2>1, <2>2, <2>3, Zenon
  <2> HIDE DEF less
  <2>5. \A j \in below : i <= j
    <3> HIDE DEF below
    <3> QED
      BY <2>1, <2>2, <2>4
  <2>6. Found(cores, m) \in below
    BY <1>2, <2>2, <2>5, Zenon DEF Found
  <2> QED
    BY <2>6
<1> QED
  BY <1>1, <1>2

LEMMA FoundSingle ==
  ASSUME NEW i \in Cpu, NEW cores
  PROVE  Found(cores, {i}) = IF i < cores THEN i ELSE -1
<1> DEFINE below == {j \in {i} : j < cores}
<1>1. i <= i
  BY AffinityAssumption
<1>2. CASE i < cores
  <2>1. below = {i}
    BY <1>2
  <2>2. below # {} /\ \A j \in below : (\A k \in below : j <= k) <=> j = i
    BY <1>1, <2>1
  <2> QED
    BY <1>2, <2>1, <2>2 DEF Found
<1>3. CASE ~(i < cores)
  BY <1>3 DEF Found
<1> QED
  BY <1>2, <1>3

-----------------------------------------------------------------------------
(* One step per action.                                                    *)

LEMMA InitIInv == Init => IInv
<1> SUFFICES ASSUME Init PROVE IInv
  OBVIOUS
<1>1. online \in SUBSET Cpu /\ online # {}
  BY Zenon DEF Init
<1>2. PICK c \in online : c \in Cpu
  BY <1>1
<1> QED
  BY <1>1, <1>2, AffinityAssumption DEF Init, IInv, TypeOK, PinIsMask

LEMMA HotplugStep ==
  ASSUME IInv, Hotplug
  PROVE  IInv'
<1>1. online' \subseteq Cpu /\ online' # {}
  BY DEF Hotplug, IInv, TypeOK
<1>2. /\ mask' \in [Thread -> SUBSET Cpu]
      /\ \A t \in Thread : mask'[t] \cap online' # {}
  BY <1>1 DEF Hotplug, Allowed, IInv, TypeOK
<1>3. /\ pin' \in [Thread -> Cpu \cup {NoPin}]
      /\ \A t \in Thread : pin'[t] # NoPin => pin'[t] = pin[t] /\ mask'[t] = mask[t]
  BY DEF Hotplug, IInv, TypeOK
<1>4. UNCHANGED <<alive, reading, answer>>
  BY DEF Hotplug
<1> QED
  BY <1>1, <1>2, <1>3, <1>4 DEF IInv, TypeOK, PinIsMask

LEMMA SpawnStep ==
  ASSUME IInv, NEW t \in Thread, NEW u \in Thread, Spawn(t, u)
  PROVE  IInv'
<1>1. TypeOK'
  BY DEF Spawn, IInv, TypeOK
<1>2. PinIsMask'
  BY DEF Spawn, IInv, TypeOK, PinIsMask
<1> QED
  BY <1>1, <1>2 DEF IInv

LEMMA SetAffinityStep ==
  ASSUME IInv, NEW t \in Thread, NEW target \in Thread, NEW id \in CpuId,
         NEW failure \in {EINVAL, -1}, SetAffinity(t, target, id, failure)
  PROVE  IInv'
<1>1. TypeOK'
  BY AffinityAssumption DEF SetAffinity, IInv, TypeOK
<1>2. PinIsMask'
  BY DEF SetAffinity, IInv, TypeOK, PinIsMask
<1> QED
  BY <1>1, <1>2 DEF IInv

LEMMA ReadCoresStep ==
  ASSUME IInv, NEW t \in Thread, ReadCores(t)
  PROVE  IInv'
BY CoresType DEF ReadCores, IInv, TypeOK, PinIsMask

LEMMA ReadMaskStep ==
  ASSUME IInv, NEW t \in Thread, ReadMask(t)
  PROVE  IInv'
<1>1. Found(reading[t], mask[t] \cap online) \in Cpu \cup {-1}
  BY FoundType DEF IInv, TypeOK
<1> HIDE DEF Found
<1> QED
  BY <1>1 DEF ReadMask, IInv, TypeOK, PinIsMask

LEMMA NextIInv == IInv /\ [Next]_vars => IInv'
<1> SUFFICES ASSUME IInv, [Next]_vars PROVE IInv'
  OBVIOUS
<1>1. CASE Hotplug
  BY <1>1, HotplugStep
<1>2. CASE \E t \in Thread : ReadCores(t) \/ ReadMask(t)
  BY <1>2, ReadCoresStep, ReadMaskStep
<1>3. CASE \E t, u \in Thread : Spawn(t, u)
  BY <1>3, SpawnStep
<1>4. CASE \E t \in Thread : \E id \in CpuId :
             setCurThreadCpuAffinity(t, id) \/ setCurProccessCpuAffinity(t, id)
  BY <1>4, SetAffinityStep, AffinityAssumption
     DEF setCurThreadCpuAffinity, setCurProccessCpuAffinity
<1>5. CASE UNCHANGED vars
  BY <1>5 DEF vars, IInv, TypeOK, PinIsMask
<1> QED
  BY <1>1, <1>2, <1>3, <1>4, <1>5 DEF Next

LEMMA Inductive == Spec => []IInv
BY InitIInv, NextIInv, PTL DEF Spec

-----------------------------------------------------------------------------
(* The theorems.                                                           *)

\* No thread is left without an online CPU, a getter counts at least one, and
\* answers with a CPU of the machine or an error.
THEOREM TypeCorrect == Spec => []TypeOK
<1>1. IInv => TypeOK
  BY DEF IInv
<1> QED
  BY <1>1, Inductive, PTL

\* A getter of a pinned thread names its CPU, or fails because the number of
\* that CPU is not below the count of those online.
THEOREM PinIsNamed == Spec => GetterNamesPin
<1> DEFINE Named(t) ==
      reading[t] # NotReading /\ reading'[t] = NotReading /\ pin[t] # NoPin
        => answer'[t] = IF pin[t] < reading[t] THEN pin[t] ELSE -1
<1>1. ASSUME IInv, NEW t \in Thread, ReadMask(t), pin[t] # NoPin
      PROVE  answer'[t] = IF pin[t] < reading[t] THEN pin[t] ELSE -1
  <2>1. mask[t] \cap online = {pin[t]} /\ pin[t] \in Cpu
    BY <1>1 DEF IInv, TypeOK, PinIsMask
  <2>2. answer'[t] = Found(reading[t], mask[t] \cap online)
    BY <1>1 DEF ReadMask, IInv, TypeOK
  <2> QED
    BY <2>1, <2>2, FoundSingle
<1>2. ASSUME IInv, [Next]_vars, NEW t \in Thread,
             reading[t] # NotReading, reading'[t] = NotReading
      PROVE  ReadMask(t)
  <2>1. reading' # reading
    BY <1>2
  <2>2. ASSUME NEW u \in Thread, ReadCores(u)
        PROVE  reading'[t] # NotReading
    BY <1>2, <2>2, CoresType DEF ReadCores, IInv, TypeOK, NotReading
  <2>3. PICK u \in Thread : ReadMask(u)
    BY <1>2, <2>1, <2>2 DEF Next, vars, Hotplug, Spawn, SetAffinity,
       setCurThreadCpuAffinity, setCurProccessCpuAffinity
  <2>4. u = t
    BY <1>2, <2>3 DEF ReadMask, IInv, TypeOK
  <2> QED
    BY <2>3, <2>4
<1>3. IInv /\ [Next]_vars => \A t \in Thread : Named(t)
  BY <1>1, <1>2
<1> QED
  BY <1>3, Inductive, PTL DEF Spec, GetterNamesPin
=============================================================================
