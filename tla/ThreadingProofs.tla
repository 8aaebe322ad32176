---------------------------- MODULE ThreadingProofs ----------------------------
(***************************************************************************)
(* Proofs about ThreadRacer, for every number of threads: its types, and   *)
(* that nobody starts to race before everybody has arrived.  And about     *)
(* PThreadsMutex, for any number of threads and objects and whichever       *)
(* system calls fail: its properties rest on how far each call has got (the *)
(* constructor has its object to itself, knows what it has set up so far,   *)
(* and all other calls are on living objects).                             *)
(***************************************************************************)
EXTENDS ThreadRacer, PThreadsMutex, FiniteSetTheorems, TLAPS

(* ThreadRacer *)

\* The threads that have incremented the counter.
Arrived == {t \in Thread : pc[t] \notin {"absent", "begin"}}

\* The counter counts the arrived threads.
CountInv == num_threads_ready = Cardinality(Arrived)

\* Who found the gate open found the counter at its final value.
OpenInv ==
  \A t \in Thread :
    pc[t] \in {"notify", "unlock", "race", "done"} => num_threads_ready = num_threads

\* Only threads that main created are under way, and main gathers only then.
CreatedInv ==
  /\ \A t \in Thread : pc[t] = "absent" <=> t > created
  /\ main = "gather" => gathered < num_threads
  /\ gathered <= created
  /\ \A t \in cv_start : pc[t] = "waiting"

IInv == TypeOK /\ CountInv /\ OpenInv /\ CreatedInv

--------------------------------------------------------------------------------
\* Thread is finite and has num_threads elements; so a set of arrived threads has
\* at most that many, and all of them when it has as many.
LEMMA ThreadCount ==
  ASSUME NEW S \in SUBSET Thread
  PROVE  /\ IsFiniteSet(S)
         /\ Cardinality(S) \in Nat
         /\ Cardinality(S) <= num_threads
         /\ Cardinality(S) = num_threads => S = Thread
<1>1. IsFiniteSet(Thread) /\ Cardinality(Thread) = num_threads
  BY RacerAssumption, FS_Interval DEF Thread
<1> QED
  BY <1>1, FS_Subset, FS_CardinalityType

LEMMA InitIInv == Init => IInv
<1> SUFFICES ASSUME Init PROVE IInv
  OBVIOUS
<1> USE RacerAssumption DEF Init
<1>1. Arrived = {}
  BY DEF Arrived
<1>2. TypeOK /\ OpenInv /\ CreatedInv
  BY DEF TypeOK, OpenInv, CreatedInv, Thread, Positions
<1> QED
  BY <1>1, <1>2, FS_EmptySet DEF IInv, CountInv

\* The step of a thread other than an arrival leaves the counter and the set of
\* arrived threads alone; an arrival adds one to both.
LEMMA NextIInv == IInv /\ [Next]_vars => IInv'
<1> SUFFICES ASSUME IInv, [Next]_vars PROVE IInv'
  OBVIOUS
<1> USE RacerAssumption
      DEF IInv, TypeOK, OpenInv, CreatedInv, Positions, Holding, Thread, Goto,
          mainVars, gateVars
<1>count. ASSUME UNCHANGED num_threads_ready, Arrived' = Arrived PROVE CountInv'
  BY <1>count DEF CountInv
<1>1. CASE Create
  <2>1. Arrived' = Arrived
    BY <1>1 DEF Create, Arrived
  <2> QED
    BY <1>1, <2>1, <1>count DEF Create
<1>2. CASE CreateFails
  BY <1>2, <1>count DEF CreateFails, Arrived
<1>3. CASE Gather
  BY <1>3, <1>count DEF Gather, Arrived
<1>4. CASE Join
  BY <1>4, <1>count DEF Join, Arrived
<1>5. ASSUME NEW t \in Thread, Arrive(t) PROVE IInv'
  <2>1. /\ t \notin Arrived
        /\ Arrived' = Arrived \cup {t}
        /\ Arrived \in SUBSET Thread
        /\ Arrived \subseteq 1 .. created
    BY <1>5 DEF Arrive, Arrived
  <2>2. Cardinality(Arrived') = Cardinality(Arrived) + 1
    BY <2>1, ThreadCount, FS_AddElement
  <2>3. CountInv'
    BY <1>5, <2>2 DEF Arrive, CountInv
  <2>4. num_threads_ready' <= created
    <3>1. created \in Nat /\ t \in 1 .. created
      BY <1>5 DEF Arrive
    <3>2. IsFiniteSet(1 .. created) /\ Cardinality(1 .. created) = created
      <4> HIDE DEF IInv
      <4> QED
        BY <3>1, FS_Interval
    <3>3. Arrived' \in SUBSET (1 .. created)
      BY <2>1, <3>1
    <3>4. Cardinality(Arrived') <= Cardinality(1 .. created)
      BY <3>2, <3>3, FS_Subset
    <3> QED
      BY <2>3, <3>2, <3>4 DEF CountInv
  <2>5. num_threads_ready < num_threads
    BY <1>5, <2>4 DEF Arrive
  <2> QED
    BY <1>5, <2>3, <2>4, <2>5 DEF Arrive
<1>6. ASSUME NEW t \in Thread, NotifyAll(t) PROVE IInv'
  <2>1. Arrived' = Arrived
    BY <1>6 DEF NotifyAll, Arrived
  <2> QED
    BY <1>6, <2>1, <1>count DEF NotifyAll
<1>7. ASSUME NEW t \in Thread, Lock(t) PROVE IInv'
  <2>1. Arrived' = Arrived
    BY <1>7 DEF Lock, Arrived
  <2> QED
    BY <1>7, <2>1, <1>count DEF Lock
<1>8. ASSUME NEW t \in Thread, Check(t) PROVE IInv'
  <2>1. Arrived' = Arrived
    BY <1>8 DEF Check, Arrived
  <2> QED
    BY <1>8, <2>1, <1>count DEF Check
<1>9. ASSUME NEW t \in Thread, Block(t) PROVE IInv'
  <2>1. Arrived' = Arrived
    BY <1>9 DEF Block, Arrived
  <2> QED
    BY <1>9, <2>1, <1>count DEF Block
<1>10. ASSUME NEW t \in Thread, SpuriousWake(t) PROVE IInv'
  <2>1. Arrived' = Arrived
    BY <1>10 DEF SpuriousWake, Arrived
  <2> QED
    BY <1>10, <2>1, <1>count DEF SpuriousWake
<1>11. ASSUME NEW t \in Thread, Unlock(t) PROVE IInv'
  <2>1. Arrived' = Arrived
    BY <1>11 DEF Unlock, Arrived
  <2> QED
    BY <1>11, <2>1, <1>count DEF Unlock
<1>12. ASSUME NEW t \in Thread, Finish(t) PROVE IInv'
  <2>1. Arrived' = Arrived
    BY <1>12 DEF Finish, Arrived
  <2> QED
    BY <1>12, <2>1, <1>count DEF Finish
<1>13. CASE UNCHANGED vars
  BY <1>13, <1>count DEF vars, Arrived
<1> QED
  BY <1>1, <1>2, <1>3, <1>4, <1>5, <1>6, <1>7, <1>8, <1>9, <1>10, <1>11, <1>12,
     <1>13 DEF Next, MainStep, ThreadStep, Exited

\* Nobody races before everybody has arrived: the counter has reached
\* num_threads, so the arrived threads are all threads.
LEMMA IInvFairStart == IInv => FairStart
<1> SUFFICES ASSUME IInv, NEW t \in Thread, pc[t] \in {"race", "done"},
                    NEW u \in Thread
             PROVE  pc[u] \notin {"absent", "begin"}
  BY DEF FairStart
<1>1. Cardinality(Arrived) = num_threads
  BY DEF IInv, CountInv, OpenInv
<1>2. Arrived = Thread
  BY <1>1, ThreadCount DEF Arrived
<1> QED
  BY <1>2 DEF Arrived

\* The types hold, and main takes only results that have been set.
THEOREM TypeCorrect == Spec => []TypeOK
BY InitIInv, NextIInv, PTL DEF Spec, IInv

\* The start gate is fair for any number of threads, and also when main fails to
\* create one of them (then nobody ever races).
THEOREM StartIsFair == Spec => []FairStart
BY InitIInv, NextIInv, IInvFairStart, PTL DEF Spec

--------------------------------------------------------------------------------
(* PThreadsMutex *)

\* What a constructor has done before each of its steps.
BuildInProgress ==
  \A t \in Threads :
    /\ position[t] \in Building =>
         object[on[t]] = "building" /\ \A u \in Threads \ {t} : on[u] # on[t]
    /\ position[t] = "attr_init" => attr[on[t]] = "none"
    /\ position[t] = "mutex_init" => attr[on[t]] = "ERRORCHECK"
    /\ position[t] \in Building \ {"attr_destroy"} => kind[on[t]] = "uninit"
    /\ position[t] = "attr_destroy" => kind[on[t]] = "ERRORCHECK"

\* Living objects only are used, and locked.
UsesAlive ==
  \A t \in Threads :
    /\ position[t] \in {"lock", "waiting", "try_lock", "unlock"} => object[on[t]] = "alive"
    /\ \A m \in holds[t] : object[m] = "alive"

PThreadsInv ==
  /\ PThreadsTypeOK
  /\ BuildInProgress
  /\ UsesAlive
  /\ ConstructionCleansUp
  /\ MutualExclusion
  /\ NoSelfDeadlock

LEMMA PThreadsInitInv == PThreadsInit => PThreadsInv
BY MutexAssumption
DEF PThreadsInit, PThreadsInv, PThreadsTypeOK, BuildInProgress, UsesAlive, ConstructionCleansUp,
    MutualExclusion, NoSelfDeadlock, Building

\* Every step of the constructor preserves the invariant.
LEMMA ConstructorInv ==
  ASSUME PThreadsInv, NEW t \in Threads,
         \/ \E m \in Mutexes : Construct(t, m)
         \/ AttrInit(t) \/ SetType(t) \/ MutexInit(t) \/ Catch(t) \/ AttrDestroy(t)
  PROVE  PThreadsInv'
<1> USE MutexAssumption
    DEF PThreadsInv, PThreadsTypeOK, BuildInProgress, UsesAlive, ConstructionCleansUp,
        MutualExclusion, NoSelfDeadlock, Building, Proceed, Return, libraryVars
<1>1. ASSUME NEW m \in Mutexes, Construct(t, m) PROVE PThreadsInv'
  BY <1>1 DEF Construct
<1>2. CASE AttrInit(t)
  <2>1. PThreadsTypeOK'
    BY <1>2 DEF AttrInit
  <2>2. BuildInProgress'
    BY <1>2 DEF AttrInit
  <2>3. UsesAlive'
    BY <1>2 DEF AttrInit
  <2>4. ConstructionCleansUp'
    BY <1>2 DEF AttrInit
  <2>5. MutualExclusion'
    BY <1>2 DEF AttrInit
  <2>6. NoSelfDeadlock'
    BY <1>2 DEF AttrInit
  <2> QED
    BY <2>1, <2>2, <2>3, <2>4, <2>5, <2>6
<1>3. CASE SetType(t)
  BY <1>3 DEF SetType
<1>4. CASE MutexInit(t)
  <2>1. PThreadsTypeOK'
    BY <1>4 DEF MutexInit
  <2>2. BuildInProgress'
    BY <1>4 DEF MutexInit
  <2>3. UsesAlive'
    BY <1>4 DEF MutexInit
  <2>4. ConstructionCleansUp'
    BY <1>4 DEF MutexInit
  <2>5. MutualExclusion'
    BY <1>4 DEF MutexInit
  <2>6. NoSelfDeadlock'
    BY <1>4 DEF MutexInit
  <2> QED
    BY <2>1, <2>2, <2>3, <2>4, <2>5, <2>6
<1>5. CASE Catch(t)
  BY <1>5 DEF Catch
<1>6. CASE AttrDestroy(t)
  BY <1>6 DEF AttrDestroy
<1> QED
  BY <1>1, <1>2, <1>3, <1>4, <1>5, <1>6

\* Every other step preserves it as well.
LEMMA CallInv ==
  ASSUME PThreadsInv, NEW t \in Threads,
         \/ \E m \in Mutexes :
              \/ Destruct(t, m)
              \/ \E function \in {"lock", "try_lock", "unlock"} : Call(t, m, function)
         \/ lock(t) \/ Granted(t) \/ try_lock(t) \/ unlock(t)
  PROVE  PThreadsInv'
<1> USE MutexAssumption
    DEF PThreadsInv, PThreadsTypeOK, BuildInProgress, UsesAlive, ConstructionCleansUp,
        MutualExclusion, NoSelfDeadlock, Building, Proceed, Return, libraryVars, Take, Keep
<1>1. ASSUME NEW m \in Mutexes, Destruct(t, m) PROVE PThreadsInv'
  BY <1>1 DEF Destruct
<1>2. ASSUME NEW m \in Mutexes, NEW function \in {"lock", "try_lock", "unlock"},
             Call(t, m, function)
      PROVE  PThreadsInv'
  BY <1>2 DEF Call
<1>3. CASE lock(t)
  <2>1. PThreadsTypeOK'
    <3>1. CASE position' = [position EXCEPT ![t] = "idle"]
      BY <1>3, <3>1 DEF lock
    <3>2. CASE position' = [position EXCEPT ![t] = "waiting"]
      BY <1>3, <3>2 DEF lock
    <3> QED
      BY <1>3, <3>1, <3>2 DEF lock
  <2>2. BuildInProgress'
    BY <1>3 DEF lock
  <2>3. UsesAlive'
    BY <1>3 DEF lock
  <2>4. ConstructionCleansUp'
    BY <1>3 DEF lock
  <2>5. MutualExclusion'
    BY <1>3 DEF lock
  <2>6. NoSelfDeadlock'
    BY <1>3 DEF lock
  <2> QED
    BY <2>1, <2>2, <2>3, <2>4, <2>5, <2>6
<1>4. CASE Granted(t)
  BY <1>4 DEF Granted
<1>5. CASE try_lock(t)
  <2>1. PThreadsTypeOK'
    BY <1>5 DEF try_lock
  <2>2. BuildInProgress'
    BY <1>5 DEF try_lock
  <2>3. UsesAlive'
    BY <1>5 DEF try_lock
  <2>4. ConstructionCleansUp'
    BY <1>5 DEF try_lock
  <2>5. MutualExclusion'
    BY <1>5 DEF try_lock
  <2>6. NoSelfDeadlock'
    BY <1>5 DEF try_lock
  <2> QED
    BY <2>1, <2>2, <2>3, <2>4, <2>5, <2>6
<1>6. CASE unlock(t)
  <2>1. PThreadsTypeOK'
    BY <1>6 DEF unlock
  <2>2. BuildInProgress'
    BY <1>6 DEF unlock
  <2>3. UsesAlive'
    BY <1>6 DEF unlock
  <2>4. ConstructionCleansUp'
    BY <1>6 DEF unlock
  <2>5. MutualExclusion'
    BY <1>6 DEF unlock
  <2>6. NoSelfDeadlock'
    BY <1>6 DEF unlock
  <2> QED
    BY <2>1, <2>2, <2>3, <2>4, <2>5, <2>6
<1> QED
  BY <1>1, <1>2, <1>3, <1>4, <1>5, <1>6

LEMMA PThreadsNextInv == PThreadsInv /\ [PThreadsNext]_pthreadsVars => PThreadsInv'
<1> SUFFICES ASSUME PThreadsInv, [PThreadsNext]_pthreadsVars PROVE PThreadsInv'
  OBVIOUS
<1>1. CASE PThreadsNext
  BY <1>1, ConstructorInv, CallInv DEF PThreadsNext
<1>2. CASE UNCHANGED pthreadsVars
  BY <1>2
  DEF pthreadsVars, libraryVars, PThreadsInv, PThreadsTypeOK, BuildInProgress, UsesAlive,
      ConstructionCleansUp, MutualExclusion, NoSelfDeadlock
<1> QED
  BY <1>1, <1>2

--------------------------------------------------------------------------------
\* Types: every mutex that is initialized is an error-checking one.
THEOREM PThreadsTypes == PThreadsSpec => []PThreadsTypeOK
BY PThreadsInitInv, PThreadsNextInv, PTL DEF PThreadsSpec, PThreadsInv

\* Whichever system call of the constructor fails, it leaves nothing behind.
THEOREM ConstructionIsAllOrNothing == PThreadsSpec => []ConstructionCleansUp
BY PThreadsInitInv, PThreadsNextInv, PTL DEF PThreadsSpec, PThreadsInv

\* At most one thread at a time was told that it holds a mutex.
THEOREM LockExcludes == PThreadsSpec => []MutualExclusion
BY PThreadsInitInv, PThreadsNextInv, PTL DEF PThreadsSpec, PThreadsInv

\* No thread ever waits for itself.
THEOREM RelockingIsDetected == PThreadsSpec => []NoSelfDeadlock
BY PThreadsInitInv, PThreadsNextInv, PTL DEF PThreadsSpec, PThreadsInv

================================================================================
