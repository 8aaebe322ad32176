---------------------- MODULE BoundedBlockingQueueProofs ----------------------
(***************************************************************************)
(* Proofs about BoundedBlockingQueue, for every number of threads and      *)
(* every capacity: the type invariant (with the bound on the size), the    *)
(* ownership of the mutex, the implementation of the bounded FIFO, and     *)
(* that no wakeup is lost but by an exception.                             *)
(***************************************************************************)
EXTENDS BoundedBlockingQueue, FiniteSetTheorems, TLAPS

\* A thread sleeps on a condition variable exactly while it is waiting there.
SleepersInv ==
  \A t \in Threads :
    /\ t \in m_cv_push <=> pc[t] = "waiting" /\ call[t] = "push"
    /\ t \in m_cv_pop <=> pc[t] = "waiting" /\ call[t] = "pop"

\* A thread is in a member function exactly while its position says so; a push
\* has its argument, and a pop that left the queue has its element.
CallInv ==
  \A t \in Threads :
    /\ call[t] = "none" <=> pc[t] = "idle"
    /\ call[t] = "push" => value[t] \in Values

\* What the predicate said still holds when the thread acts on it: nobody else
\* changes m_queue while the mutex is held.
PredicateInv ==
  \A t \in Threads :
    /\ pc[t] = "access" => Ready(t)
    /\ pc[t] = "block" => ~Ready(t)

IInv == TypeOK /\ MutexHeldInside /\ SleepersInv /\ CallInv /\ PredicateInv

--------------------------------------------------------------------------------
LEMMA InitIInv == Init => IInv
<1> SUFFICES ASSUME Init PROVE IInv
  OBVIOUS
<1> USE QueueAssumption DEF Init
<1>1. TypeOK
  BY DEF TypeOK, Positions
<1>2. MutexHeldInside
  BY DEF MutexHeldInside, Holding
<1>3. SleepersInv /\ CallInv /\ PredicateInv
  BY DEF SleepersInv, CallInv, PredicateInv
<1> QED
  BY <1>1, <1>2, <1>3 DEF IInv

\* Every step of the queue preserves the invariant.
LEMMA NextIInv == IInv /\ [Next]_vars => IInv'
<1> SUFFICES ASSUME IInv, [Next]_vars PROVE IInv'
  OBVIOUS
<1> USE QueueAssumption
      DEF IInv, TypeOK, MutexHeldInside, SleepersInv, CallInv, PredicateInv,
          Positions, Holding, Goto, Leave, Ready
<1>1. ASSUME NEW t \in Threads, NEW v \in Values, CallPush(t, v) PROVE IInv'
  BY <1>1 DEF CallPush
<1>2. ASSUME NEW t \in Threads, CallPop(t) PROVE IInv'
  BY <1>2 DEF CallPop
<1>3. ASSUME NEW t \in Threads, Acquire(t) PROVE IInv'
  BY <1>3 DEF Acquire
<1>4. ASSUME NEW t \in Threads, Check(t) PROVE IInv'
  BY <1>4 DEF Check
<1>5. ASSUME NEW t \in Threads, Block(t) PROVE IInv'
  BY <1>5 DEF Block
<1>6. ASSUME NEW t \in Threads, SpuriousWake(t) PROVE IInv'
  BY <1>6 DEF SpuriousWake
<1>7. ASSUME NEW t \in Threads, Enqueue(t) PROVE IInv'
  BY <1>7 DEF Enqueue
<1>8. ASSUME NEW t \in Threads, Dequeue(t) PROVE IInv'
  BY <1>8 DEF Dequeue
<1>9. ASSUME NEW t \in Threads, Throw(t) PROVE IInv'
  BY <1>9 DEF Throw
<1>10. ASSUME NEW t \in Threads, Unlock(t) PROVE IInv'
  BY <1>10 DEF Unlock
<1>11. ASSUME NEW t \in Threads, NotifyPop(t) PROVE IInv'
  BY <1>11 DEF NotifyPop
<1>12. ASSUME NEW t \in Threads, NotifyPush(t) PROVE IInv'
  BY <1>12 DEF NotifyPush
<1>13. CASE UNCHANGED vars
  BY <1>13 DEF vars
<1> QED
  BY <1>1, <1>2, <1>3, <1>4, <1>5, <1>6, <1>7, <1>8, <1>9, <1>10, <1>11, <1>12,
     <1>13 DEF Next, Call, Step

\* The types hold and m_queue never outgrows m_capacity.
THEOREM TypeCorrect == Spec => []TypeOK
BY InitIInv, NextIInv, PTL DEF Spec, IInv

\* The mutex is owned exactly by the thread inside the critical section, also
\* when elements throw.
THEOREM MutexDiscipline == Spec => []MutexHeldInside
BY InitIInv, NextIInv, PTL DEF Spec, IInv

--------------------------------------------------------------------------------
(* No wakeup is lost. *)

\* Adding threads to a finite set of carriers keeps a lower bound on its size.
LEMMA CarriersGrow ==
  ASSUME NEW S \in SUBSET Threads, NEW T \in SUBSET Threads, S \subseteq T,
         NEW n \in Int, n <= Cardinality(S)
  PROVE  n <= Cardinality(T)
<1>1. IsFiniteSet(T) /\ IsFiniteSet(S)
  BY QueueAssumption, FS_Subset
<1>2. Cardinality(S) <= Cardinality(T)
  BY <1>1, FS_Subset
<1> QED
  BY <1>1, <1>2, FS_CardinalityType

\* Carriers that lose t and gain w \notin S are as many as before.
LEMMA CarriersHandOver ==
  ASSUME NEW S \in SUBSET Threads, NEW t \in S, NEW w \in Threads \ S
  PROVE  Cardinality((S \ {t}) \cup {w}) = Cardinality(S)
<1>1. IsFiniteSet(S)
  BY QueueAssumption, FS_Subset
<1>2. IsFiniteSet(S \ {t}) /\ Cardinality(S \ {t}) = Cardinality(S) - 1
  BY <1>1, FS_RemoveElement
<1>3. w \notin S \ {t}
  OBVIOUS
<1>4. Cardinality((S \ {t}) \cup {w}) = Cardinality(S \ {t}) + 1
  BY <1>2, <1>3, FS_AddElement
<1> QED
  BY <1>1, <1>2, <1>4, FS_CardinalityType

\* A carrier more, or a carrier less, is one more, or one less, in number.
LEMMA CarriersCount ==
  ASSUME NEW S \in SUBSET Threads
  PROVE  /\ Cardinality(S) \in Nat
         /\ \A t \in S : Cardinality(S \ {t}) = Cardinality(S) - 1
         /\ \A t \in Threads \ S : Cardinality(S \cup {t}) = Cardinality(S) + 1
<1>1. IsFiniteSet(S)
  BY QueueAssumption, FS_Subset
<1> QED
  BY <1>1, FS_CardinalityType, FS_AddElement, FS_RemoveElement

\* The lock, the predicates and the carriers together keep every wakeup: the
\* step that puts a consumer to sleep finds m_queue empty, the step that adds an
\* element also makes its producer a carrier, and a producer that stops being
\* one hands its role to the consumer it wakes, or throws and is counted.
LEMMA NextNoLostWakeup == IInv /\ NoLostWakeup /\ [Next]_vars => NoLostWakeup'
<1> SUFFICES ASSUME IInv, NoLostWakeup, [Next]_vars PROVE NoLostWakeup'
  OBVIOUS
<1> USE QueueAssumption
      DEF IInv, TypeOK, SleepersInv, CallInv, PredicateInv,
          Positions, Holding, Goto, Leave, Ready
<1> DEFINE P == PopCarriers
           Q == PushCarriers
<1>0. /\ P \in SUBSET Threads /\ P' \in SUBSET Threads
      /\ Q \in SUBSET Threads /\ Q' \in SUBSET Threads
      /\ Len(m_queue) \in Nat /\ Capacity - Len(m_queue) \in Int
      /\ thrown.pop \in Nat /\ thrown.push \in Nat
      /\ Cardinality(P) \in Nat /\ Cardinality(P') \in Nat
      /\ Cardinality(Q) \in Nat /\ Cardinality(Q') \in Nat
  <2>1. /\ P \in SUBSET Threads /\ P' \in SUBSET Threads
        /\ Q \in SUBSET Threads /\ Q' \in SUBSET Threads
    BY DEF PopCarriers, PushCarriers
  <2> QED
    BY <2>1, CarriersCount
\* Steps that leave m_queue alone, add no sleeper and lose no carrier.
<1>grow. ASSUME UNCHANGED <<m_queue, thrown>>, P \subseteq P', Q \subseteq Q',
                m_cv_pop' \subseteq m_cv_pop, m_cv_push' \subseteq m_cv_push
         PROVE  NoLostWakeup'
  <2>1. Cardinality(P) <= Cardinality(P') /\ Cardinality(Q) <= Cardinality(Q')
    BY <1>0, <1>grow, CarriersGrow
  <2> HIDE DEF IInv, TypeOK, SleepersInv, CallInv, PredicateInv
  <2> QED
    BY <1>0, <2>1, <1>grow DEF NoLostWakeup
<1>1. ASSUME NEW t \in Threads, NEW v \in Values, CallPush(t, v)
      PROVE  NoLostWakeup'
  BY <1>1, <1>grow DEF CallPush, PopCarriers, PushCarriers
<1>2. ASSUME NEW t \in Threads, CallPop(t) PROVE NoLostWakeup'
  BY <1>2, <1>grow DEF CallPop, PopCarriers, PushCarriers
<1>3. ASSUME NEW t \in Threads, Acquire(t) PROVE NoLostWakeup'
  BY <1>3, <1>grow DEF Acquire, PopCarriers, PushCarriers
<1>4. ASSUME NEW t \in Threads, Check(t) PROVE NoLostWakeup'
  <2>1. CASE Ready(t)
    BY <1>4, <2>1, <1>grow DEF Check, PopCarriers, PushCarriers
  <2>2. CASE ~Ready(t) /\ call[t] = "push"
    <3>1. Len(m_queue) = Capacity /\ UNCHANGED <<m_queue, thrown>> /\ P = P'
      BY <1>4, <2>2 DEF Check, PopCarriers
    <3> QED
      BY <1>0, <1>4, <3>1 DEF Check, NoLostWakeup
  <2>3. CASE ~Ready(t) /\ call[t] = "pop"
    <3>1. Len(m_queue) = 0 /\ UNCHANGED <<m_queue, thrown>> /\ Q = Q'
      BY <1>4, <2>3 DEF Check, PushCarriers
    <3> QED
      BY <1>0, <1>4, <3>1 DEF Check, NoLostWakeup
  <2> QED
    BY <1>4, <2>1, <2>2, <2>3 DEF Check
<1>5. ASSUME NEW t \in Threads, Block(t) PROVE NoLostWakeup'
  <2>1. P = P' /\ Q = Q' /\ UNCHANGED <<m_queue, thrown>>
    BY <1>5 DEF Block, PopCarriers, PushCarriers
  <2>2. CASE call[t] = "push"
    <3>1. Len(m_queue) = Capacity /\ UNCHANGED m_cv_pop
      BY <1>5, <2>2 DEF Block
    <3> HIDE DEF IInv, TypeOK, SleepersInv, CallInv, PredicateInv
    <3> QED
      BY <1>0, <2>1, <3>1 DEF NoLostWakeup
  <2>3. CASE call[t] = "pop"
    <3>1. Len(m_queue) = 0 /\ UNCHANGED m_cv_push
      BY <1>5, <2>3 DEF Block
    <3> HIDE DEF IInv, TypeOK, SleepersInv, CallInv, PredicateInv
    <3> QED
      BY <1>0, <2>1, <3>1 DEF NoLostWakeup
  <2> QED
    BY <1>5, <2>2, <2>3 DEF Block
<1>6. ASSUME NEW t \in Threads, SpuriousWake(t) PROVE NoLostWakeup'
  BY <1>6, <1>grow DEF SpuriousWake, PopCarriers, PushCarriers
<1>7. ASSUME NEW t \in Threads, Enqueue(t) PROVE NoLostWakeup'
  <2>1. /\ t \notin P /\ P' = P \cup {t}
        /\ t \in Q /\ Q' = Q \ {t}
        /\ Len(m_queue') = Len(m_queue) + 1
        /\ UNCHANGED <<m_cv_push, m_cv_pop, thrown>>
    BY <1>7 DEF Enqueue, PopCarriers, PushCarriers
  <2>2. Cardinality(P') = Cardinality(P) + 1 /\ Cardinality(Q') = Cardinality(Q) - 1
    BY <1>0, <2>1, CarriersCount
  <2> HIDE DEF IInv, TypeOK, SleepersInv, CallInv, PredicateInv
  <2>3. m_cv_pop # {} => Len(m_queue') <= Cardinality(P') + thrown.pop
    <3>1. m_cv_pop # {} => Len(m_queue) <= Cardinality(P) + thrown.pop
      BY DEF NoLostWakeup
    <3> HIDE DEF P, Q
    <3> QED
      BY <1>0, <2>1, <2>2, <3>1
  <2>4. m_cv_push # {} => Capacity - Len(m_queue') <= Cardinality(Q') + thrown.push
    <3>1. m_cv_push # {} => Capacity - Len(m_queue) <= Cardinality(Q) + thrown.push
      BY DEF NoLostWakeup
    <3> HIDE DEF P, Q
    <3> QED
      BY <1>0, <2>1, <2>2, <3>1
  <2> QED
    BY <2>1, <2>3, <2>4 DEF NoLostWakeup
<1>8. ASSUME NEW t \in Threads, Dequeue(t) PROVE NoLostWakeup'
  <2>1. /\ t \in P /\ P' = P \ {t}
        /\ t \notin Q /\ Q' = Q \cup {t}
        /\ Len(m_queue') = Len(m_queue) - 1
        /\ UNCHANGED <<m_cv_push, m_cv_pop, thrown>>
    BY <1>8 DEF Dequeue, PopCarriers, PushCarriers
  <2>2. Cardinality(P') = Cardinality(P) - 1 /\ Cardinality(Q') = Cardinality(Q) + 1
    BY <1>0, <2>1, CarriersCount
  <2> HIDE DEF IInv, TypeOK, SleepersInv, CallInv, PredicateInv
  <2>3. m_cv_pop # {} => Len(m_queue') <= Cardinality(P') + thrown.pop
    <3>1. m_cv_pop # {} => Len(m_queue) <= Cardinality(P) + thrown.pop
      BY DEF NoLostWakeup
    <3> HIDE DEF P, Q
    <3> QED
      BY <1>0, <2>1, <2>2, <3>1
  <2>4. m_cv_push # {} => Capacity - Len(m_queue') <= Cardinality(Q') + thrown.push
    <3>1. m_cv_push # {} => Capacity - Len(m_queue) <= Cardinality(Q) + thrown.push
      BY DEF NoLostWakeup
    <3> HIDE DEF P, Q
    <3> QED
      BY <1>0, <2>1, <2>2, <3>1
  <2> QED
    BY <2>1, <2>3, <2>4 DEF NoLostWakeup
<1>9. ASSUME NEW t \in Threads, Unlock(t) PROVE NoLostWakeup'
  BY <1>9, <1>grow DEF Unlock, PopCarriers, PushCarriers
<1>10. ASSUME NEW t \in Threads, NotifyPop(t) PROVE NoLostWakeup'
  <2>1. Q = Q' /\ UNCHANGED <<m_queue, m_cv_push, thrown>>
    BY <1>10 DEF NotifyPop, PushCarriers
  <2>2. CASE m_cv_pop = {}
    BY <1>10, <2>1, <2>2 DEF NotifyPop, NoLostWakeup
  <2>3. ASSUME NEW w \in m_cv_pop,
               pc' = [pc EXCEPT ![t] = "idle", ![w] = "acquire"],
               m_cv_pop' = m_cv_pop \ {w}
        PROVE  NoLostWakeup'
    <3>1. t \in P /\ w \in Threads \ P /\ P' = (P \ {t}) \cup {w}
      BY <1>10, <2>3 DEF NotifyPop, PopCarriers
    <3>2. Cardinality(P') = Cardinality(P)
      BY <1>0, <3>1, CarriersHandOver
    <3> HIDE DEF IInv, TypeOK, SleepersInv, CallInv, PredicateInv
    <3> QED
      BY <1>0, <2>1, <2>3, <3>2 DEF NoLostWakeup
  <2> QED
    BY <1>10, <2>2, <2>3 DEF NotifyPop
<1>11. ASSUME NEW t \in Threads, NotifyPush(t) PROVE NoLostWakeup'
  <2>1. P = P' /\ UNCHANGED <<m_queue, m_cv_pop, thrown>>
    BY <1>11 DEF NotifyPush, PopCarriers
  <2>2. CASE m_cv_push = {}
    BY <1>11, <2>1, <2>2 DEF NotifyPush, NoLostWakeup
  <2>3. ASSUME NEW w \in m_cv_push,
               pc' = [pc EXCEPT ![t] = "idle", ![w] = "acquire"],
               m_cv_push' = m_cv_push \ {w}
        PROVE  NoLostWakeup'
    <3>1. t \in Q /\ w \in Threads \ Q /\ Q' = (Q \ {t}) \cup {w}
      BY <1>11, <2>3 DEF NotifyPush, PushCarriers
    <3>2. Cardinality(Q') = Cardinality(Q)
      BY <1>0, <3>1, CarriersHandOver
    <3> HIDE DEF IInv, TypeOK, SleepersInv, CallInv, PredicateInv
    <3> QED
      BY <1>0, <2>1, <2>3, <3>2 DEF NoLostWakeup
  <2> QED
    BY <1>11, <2>2, <2>3 DEF NotifyPush
<1>12. ASSUME NEW t \in Threads, Throw(t) PROVE NoLostWakeup'
  <2>1. UNCHANGED <<m_queue, m_cv_push, m_cv_pop>>
    BY <1>12 DEF Throw
  <2>2. CASE call[t] = "push"
    <3>1. /\ t \in Q /\ Q' = Q \ {t} /\ P' = P
          /\ thrown'.push = thrown.push + 1 /\ thrown'.pop = thrown.pop
      BY <1>12, <2>2 DEF Throw, PopCarriers, PushCarriers
    <3>2. Cardinality(Q') = Cardinality(Q) - 1
      BY <1>0, <3>1, CarriersCount
    <3> HIDE DEF IInv, TypeOK, SleepersInv, CallInv, PredicateInv
    <3> QED
      BY <1>0, <2>1, <3>1, <3>2 DEF NoLostWakeup
  <2>3. CASE call[t] = "pop"
    <3>1. /\ t \in P /\ P' = P \ {t} /\ Q' = Q
          /\ thrown'.pop = thrown.pop + 1 /\ thrown'.push = thrown.push
      BY <1>12, <2>3 DEF Throw, PopCarriers, PushCarriers
    <3>2. Cardinality(P') = Cardinality(P) - 1
      BY <1>0, <3>1, CarriersCount
    <3> HIDE DEF IInv, TypeOK, SleepersInv, CallInv, PredicateInv
    <3> QED
      BY <1>0, <2>1, <3>1, <3>2 DEF NoLostWakeup
  <2> QED
    BY <1>12, <2>2, <2>3 DEF Throw
<1>13. CASE UNCHANGED vars
  BY <1>13, <1>grow DEF vars, PopCarriers, PushCarriers
<1> QED
  BY <1>1, <1>2, <1>3, <1>4, <1>5, <1>6, <1>7, <1>8, <1>9, <1>10, <1>11, <1>12,
     <1>13 DEF Next, Call, Step

\* A sleeping consumer (producer) always has, for every element (free place) but
\* one for each exception, a thread that will take it or tell about it.
THEOREM NoWakeupIsLost == Spec => []NoLostWakeup
<1>1. Init => NoLostWakeup
  BY DEF Init, NoLostWakeup
<1> QED
  BY <1>1, InitIInv, NextIInv, NextNoLostWakeup, PTL DEF Spec

--------------------------------------------------------------------------------
(* The queue implements the bounded FIFO. *)

\* Enqueue and Dequeue are the effects of push and pop; a call and a return are
\* calls and returns; every other step is invisible to the caller.
LEMMA NextImplementsFifo ==
  IInv /\ [Next]_vars => [Fifo!Next]_(Fifo!vars)
<1> SUFFICES ASSUME IInv, [Next]_vars
             PROVE  [Fifo!Next]_<<m_queue, Seen>>
  BY DEF Fifo!vars
<1> USE DEF IInv, TypeOK, SleepersInv, CallInv, PredicateInv, Positions, Holding,
            Goto, Leave, Ready, TookEffect
<1> DEFINE Quiet == UNCHANGED <<m_queue, Seen>>
<1>1. ASSUME NEW t \in Threads, NEW v \in Values, CallPush(t, v)
      PROVE  Fifo!CallPush(t, v)
  BY <1>1 DEF CallPush, Fifo!CallPush, Seen, Fifo!Idle, Fifo!Pushing
<1>2. ASSUME NEW t \in Threads, CallPop(t) PROVE Fifo!CallPop(t)
  BY <1>2 DEF CallPop, Fifo!CallPop, Seen, Fifo!Idle, Fifo!Popping
<1>3. ASSUME NEW t \in Threads, Acquire(t) PROVE Quiet
  BY <1>3 DEF Acquire, Seen
<1>4. ASSUME NEW t \in Threads, Check(t) PROVE Quiet
  BY <1>4 DEF Check, Seen
<1>5. ASSUME NEW t \in Threads, Block(t) PROVE Quiet
  BY <1>5 DEF Block, Seen
<1>6. ASSUME NEW t \in Threads, SpuriousWake(t) PROVE Quiet
  BY <1>6 DEF SpuriousWake, Seen
<1>7. ASSUME NEW t \in Threads, Enqueue(t) PROVE Fifo!PushEffect(t)
  BY <1>7 DEF Enqueue, Fifo!PushEffect, Seen, Fifo!Pushed
<1>8. ASSUME NEW t \in Threads, Dequeue(t) PROVE Fifo!PopEffect(t)
  BY <1>8 DEF Dequeue, Fifo!PopEffect, Seen, Fifo!Popping, Fifo!Popped
<1>9. ASSUME NEW t \in Threads, Throw(t) PROVE Fifo!Return(t)
  BY <1>9 DEF Throw, Fifo!Return, Seen, Fifo!Idle
<1>10. ASSUME NEW t \in Threads, Unlock(t) PROVE Quiet
  BY <1>10 DEF Unlock, Seen
<1>11. ASSUME NEW t \in Threads, NotifyPop(t) PROVE Fifo!Return(t)
  BY <1>11 DEF NotifyPop, Fifo!Return, Seen, Fifo!Idle
<1>12. ASSUME NEW t \in Threads, NotifyPush(t) PROVE Fifo!Return(t)
  BY <1>12 DEF NotifyPush, Fifo!Return, Seen, Fifo!Idle
<1>13. CASE UNCHANGED vars
  BY <1>13 DEF vars, Seen
<1> QED
  BY <1>1, <1>2, <1>3, <1>4, <1>5, <1>6, <1>7, <1>8, <1>9, <1>10, <1>11, <1>12,
     <1>13 DEF Next, Call, Step, Fifo!Next

\* push, emplace and pop of every number of threads are linearizable: each takes
\* effect at one instant, in first-in first-out order, within the capacity.
THEOREM LinearizableFifo == Spec => ImplementsFifo
<1>1. Init => Fifo!Init
  BY DEF Init, Fifo!Init, Fifo!Idle, Seen
<1> QED
  BY <1>1, InitIInv, NextIInv, NextImplementsFifo, PTL
  DEF Spec, ImplementsFifo, Fifo!Spec

================================================================================
