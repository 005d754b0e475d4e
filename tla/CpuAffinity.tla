----------------------------- MODULE CpuAffinity -----------------------------
(***************************************************************************)
(* The threads of a process that pin themselves with CpuAffinity and ask   *)
(* where they are pinned, over a kernel that keeps a mask for each thread  *)
(* and takes CPUs offline and online.  The numbers of the online CPUs may  *)
(* have holes.                                                             *)
(***************************************************************************)
EXTENDS Integers, FiniteSets

CONSTANTS
  Thread, Main,  \* the threads, and the one whose id is the process's
  Cpu,           \* the CPUs of the machine
  CpuId          \* the numbers given to the setters

ASSUME AffinityAssumption ==
  /\ Main \in Thread
  /\ Cpu \subseteq Nat /\ IsFiniteSet(Cpu) /\ CpuId \subseteq Nat

VARIABLES
  online,   \* the CPUs that are online
  alive,    \* the threads there are
  mask,     \* the kernel's mask of each thread
  reading,  \* the count of CPUs a getter has read, NotReading outside of one
  answer,   \* what the last call of each thread returned
  pin       \* history: the CPU each thread was pinned to, by whom ever

vars == <<online, alive, mask, reading, answer, pin>>

NotReading == -1
NoPin      == -1

-----------------------------------------------------------------------------
(* The kernel.                                                             *)

\* A CPU that goes offline takes the last one from a thread's mask: the thread
\* gets all of them.
Allowed(m, on) == IF m \cap on = {} THEN Cpu ELSE m

Hotplug ==
  /\ \E c \in Cpu : online' = IF c \in online THEN online \ {c} ELSE online \cup {c}
  /\ online' # {}
  /\ mask' = [t \in Thread |-> Allowed(mask[t], online')]
  /\ pin' = [t \in Thread |-> IF mask'[t] = mask[t] THEN pin[t] ELSE NoPin]
  /\ UNCHANGED <<alive, reading, answer>>

\* A new thread has its creator's mask.
Spawn(t, u) ==
  /\ t \in alive /\ u \notin alive /\ reading[t] = NotReading
  /\ alive' = alive \cup {u}
  /\ mask' = [mask EXCEPT ![u] = mask[t]]
  /\ pin' = [pin EXCEPT ![u] = pin[t]]
  /\ UNCHANGED <<online, reading, answer>>

EINVAL == 22

\* CPU_SET of a number beyond the machine leaves a mask the kernel refuses, as
\* it does one without a CPU that is online; then the system call returns failure.
SetAffinity(caller, target, id, failure) ==
  /\ caller \in alive /\ reading[caller] = NotReading
  /\ answer' = [answer EXCEPT ![caller] = IF id \in online THEN 0 ELSE failure]
  /\ mask' = [mask EXCEPT ![target] = IF id \in online THEN {id} ELSE @]
  /\ pin' = [pin EXCEPT ![target] = IF id \in online THEN id ELSE @]
  /\ UNCHANGED <<online, alive, reading>>

-----------------------------------------------------------------------------
(* The functions.                                                          *)

\* pthread_setaffinity_np() returns the error number.
setCurThreadCpuAffinity(t, id) == SetAffinity(t, t, id, EINVAL)

\* To the kernel getpid() is the main thread alone.  sched_setaffinity() returns -1.
setCurProccessCpuAffinity(t, id) == SetAffinity(t, Main, id, -1)

\* Mutant: the largest number, for a loop with <=, where the loop has <.
getCpuCores_Largest == Cardinality(online) - 1

\* getCpuCores(): get_nprocs() counts the CPUs that are online.
getCpuCores == Cardinality(online)

\* The loop of the getters: the first number below cores in the mask.
Found(cores, m) ==
  LET set == {i \in m : i < cores} IN
  IF set = {} THEN -1 ELSE CHOOSE i \in set : \A j \in set : i <= j

\* getCpuIdOfCurThread() and getCpuIdOfCurProccess(), which passes pid 0 and so
\* reads the mask of its own thread as well: first the count, then the mask.
ReadCores(t) ==
  /\ t \in alive /\ reading[t] = NotReading
  /\ reading' = [reading EXCEPT ![t] = getCpuCores]
  /\ UNCHANGED <<online, alive, mask, answer, pin>>

\* Mutant: getpid() where the getter has 0.
ReadMask_OfProcess(t) ==
  /\ reading[t] # NotReading
  /\ answer' = [answer EXCEPT ![t] = Found(reading[t], mask[Main] \cap online)]
  /\ reading' = [reading EXCEPT ![t] = NotReading]
  /\ UNCHANGED <<online, alive, mask, pin>>

ReadMask(t) ==
  /\ reading[t] # NotReading
  /\ answer' = [answer EXCEPT ![t] = Found(reading[t], mask[t] \cap online)]
  /\ reading' = [reading EXCEPT ![t] = NotReading]
  /\ UNCHANGED <<online, alive, mask, pin>>

-----------------------------------------------------------------------------

Init ==
  /\ online \in (SUBSET Cpu) \ {{}}
  /\ alive = {Main}
  /\ mask = [t \in Thread |-> Cpu]
  /\ reading = [t \in Thread |-> NotReading]
  /\ answer = [t \in Thread |-> 0]
  /\ pin = [t \in Thread |-> NoPin]

Next ==
  \/ Hotplug
  \/ \E t \in Thread :
       \/ ReadCores(t) \/ ReadMask(t)
       \/ \E u \in Thread : Spawn(t, u)
       \/ \E id \in CpuId : setCurThreadCpuAffinity(t, id) \/ setCurProccessCpuAffinity(t, id)

Spec == Init /\ [][Next]_vars

-----------------------------------------------------------------------------

\* Type invariant: masks are never without an online CPU, and a getter has
\* counted at least one.
TypeOK ==
  /\ online \subseteq Cpu /\ online # {}
  /\ alive \subseteq Thread /\ Main \in alive
  /\ mask \in [Thread -> SUBSET Cpu] /\ \A t \in Thread : mask[t] \cap online # {}
  /\ reading \in [Thread -> (1 .. Cardinality(Cpu)) \cup {NotReading}]
  /\ answer \in [Thread -> Cpu \cup {0, -1, EINVAL}]
  /\ pin \in [Thread -> Cpu \cup {NoPin}]

\* A getter of a thread that is pinned, and whose pin the kernel has not undone,
\* names that CPU and no other one, whatever CPUs come and go during the call;
\* it fails only for a number that is not below the count it has read first.
GetterNamesPin ==
  [][\A t \in Thread : reading[t] # NotReading /\ reading'[t] = NotReading /\ pin[t] # NoPin
       => answer'[t] = IF pin[t] < reading[t] THEN pin[t] ELSE -1]_vars
=============================================================================
