------------------------- MODULE BoundedBlockingQueue -------------------------
(***************************************************************************)
(* BoundedBlockingQueue<T> (concurrency/mpsc_blocking_queue.hpp): a         *)
(* std::queue guarded by one mutex, with one condition variable for the     *)
(* threads that wait for room and one for those that wait for an element.   *)
(*                                                                         *)
(* push and emplace have the same control and are one operation here.      *)
(* std::mutex and std::condition_variable are modelled by their contract:  *)
(* wait() releases the mutex and starts to wait in one step, a waiter may  *)
(* wake up spuriously, notify_one() wakes one waiter of its choice if      *)
(* there is one, and a woken waiter competes for the mutex again.          *)
(***************************************************************************)
EXTENDS Naturals, Sequences, FiniteSets

CONSTANTS
  Producers,   \* threads that call push / emplace
  Consumers,   \* threads that call pop (a thread may be both)
  Values,      \* the elements
  Capacity,    \* m_capacity; the constructor accepts every size, 0 too
  NoThread,    \* "nobody owns the mutex"
  NoValue      \* "no element in this local variable"

Threads == Producers \cup Consumers

ASSUME QueueAssumption ==
  /\ IsFiniteSet(Threads)
  /\ Capacity \in Nat
  /\ NoThread \notin Threads
  /\ NoValue \notin Values

VARIABLES
  m_queue,     \* the elements, oldest first
  m_mutex,     \* the owner of m_mutex, or NoThread
  m_cv_push,   \* the threads asleep in m_cv_push.wait
  m_cv_pop,    \* the threads asleep in m_cv_pop.wait
  call,        \* which member function each thread is in
  value,       \* its argument (push) or its local `value' (pop)
  pc,          \* where each thread is in that function
  thrown       \* how many calls of push and of pop ended with an exception

vars == <<m_queue, m_mutex, m_cv_push, m_cv_pop, call, value, pc, thrown>>

\* Positions: "acquire" wants the mutex; "check" evaluates the wait predicate;
\* "block" found it false and is about to call wait; "waiting" sleeps in wait;
\* "access" found it true and touches m_queue; "unlock" is about to unlock;
\* "notify" is about to call notify_one.  "check", "block", "access" and
\* "unlock" run with the mutex held.
Holding == {"check", "block", "access", "unlock"}
Positions == Holding \cup {"idle", "acquire", "waiting", "notify"}

Init ==
  /\ m_queue = <<>>
  /\ m_mutex = NoThread
  /\ m_cv_push = {}
  /\ m_cv_pop = {}
  /\ call = [t \in Threads |-> "none"]
  /\ value = [t \in Threads |-> NoValue]
  /\ pc = [t \in Threads |-> "idle"]
  /\ thrown = [push |-> 0, pop |-> 0]

Goto(t, from, to) ==
  /\ pc[t] = from
  /\ pc' = [pc EXCEPT ![t] = to]

--------------------------------------------------------------------------------
CallPush(t, v) ==
  /\ t \in Producers
  /\ Goto(t, "idle", "acquire")
  /\ call' = [call EXCEPT ![t] = "push"]
  /\ value' = [value EXCEPT ![t] = v]
  /\ UNCHANGED <<m_queue, m_mutex, m_cv_push, m_cv_pop, thrown>>

CallPop(t) ==
  /\ t \in Consumers
  /\ Goto(t, "idle", "acquire")
  /\ call' = [call EXCEPT ![t] = "pop"]
  /\ UNCHANGED <<m_queue, m_mutex, m_cv_push, m_cv_pop, value, thrown>>

\* The mutex is granted, to std::unique_lock or to a wait() that was woken.
Acquire(t) ==
  /\ m_mutex = NoThread
  /\ Goto(t, "acquire", "check")
  /\ m_mutex' = t
  /\ UNCHANGED <<m_queue, m_cv_push, m_cv_pop, call, value, thrown>>

\* Mutant of Ready: the size may reach the capacity before the test.
ReadyOffByOne(t) ==
  \/ call[t] = "push" /\ Len(m_queue) <= Capacity
  \/ call[t] = "pop" /\ m_queue # <<>>

\* The predicate handed to wait.
Ready(t) ==
  \/ call[t] = "push" /\ Len(m_queue) < Capacity
  \/ call[t] = "pop" /\ m_queue # <<>>

Check(t) ==
  /\ Goto(t, "check", IF Ready(t) THEN "access" ELSE "block")
  /\ UNCHANGED <<m_queue, m_mutex, m_cv_push, m_cv_pop, call, value, thrown>>

Block(t) ==
  /\ Goto(t, "block", "waiting")
  /\ m_mutex' = NoThread
  /\ \/ /\ call[t] = "push"
        /\ m_cv_push' = m_cv_push \cup {t}
        /\ UNCHANGED m_cv_pop
     \/ /\ call[t] = "pop"
        /\ m_cv_pop' = m_cv_pop \cup {t}
        /\ UNCHANGED m_cv_push
  /\ UNCHANGED <<m_queue, call, value, thrown>>

SpuriousWake(t) ==
  /\ Goto(t, "waiting", "acquire")
  /\ m_cv_push' = m_cv_push \ {t}
  /\ m_cv_pop' = m_cv_pop \ {t}
  /\ UNCHANGED <<m_queue, m_mutex, call, value, thrown>>

Enqueue(t) ==
  /\ call[t] = "push"
  /\ Goto(t, "access", "unlock")
  /\ m_queue' = Append(m_queue, value[t])
  /\ UNCHANGED <<m_mutex, m_cv_push, m_cv_pop, call, value, thrown>>

Dequeue(t) ==
  /\ call[t] = "pop"
  /\ Goto(t, "access", "unlock")
  /\ value' = [value EXCEPT ![t] = Head(m_queue)]
  /\ m_queue' = Tail(m_queue)
  /\ UNCHANGED <<m_mutex, m_cv_push, m_cv_pop, call, thrown>>

Leave(t) ==
  /\ call' = [call EXCEPT ![t] = "none"]
  /\ value' = [value EXCEPT ![t] = NoValue]

\* Mutant of Throw: the mutex is locked and unlocked by hand, so an exception
\* leaves it locked.
ThrowKeepsMutex(t) ==
  /\ Goto(t, "access", "idle")
  /\ thrown' = [thrown EXCEPT ![call[t]] = @ + 1]
  /\ Leave(t)
  /\ UNCHANGED <<m_queue, m_mutex, m_cv_push, m_cv_pop>>

\* Mutant of Throw: pop removes the element before it moves it out.
ThrowAfterRemoval(t) ==
  /\ Goto(t, "access", "idle")
  /\ m_mutex' = NoThread
  /\ thrown' = [thrown EXCEPT ![call[t]] = @ + 1]
  /\ m_queue' = IF call[t] = "pop" THEN Tail(m_queue) ELSE m_queue
  /\ Leave(t)
  /\ UNCHANGED <<m_cv_push, m_cv_pop>>

\* Storing the element (push) or moving it out (pop) throws: the queue keeps
\* what it had, std::unique_lock releases the mutex, nobody is notified.
Throw(t) ==
  /\ Goto(t, "access", "idle")
  /\ m_mutex' = NoThread
  /\ thrown' = [thrown EXCEPT ![call[t]] = @ + 1]
  /\ Leave(t)
  /\ UNCHANGED <<m_queue, m_cv_push, m_cv_pop>>

Unlock(t) ==
  /\ Goto(t, "unlock", "notify")
  /\ m_mutex' = NoThread
  /\ UNCHANGED <<m_queue, m_cv_push, m_cv_pop, call, value, thrown>>

\* Mutant of NotifyPop: only the push that ends emptiness notifies.
NotifyPopIfWasEmpty(t) ==
  /\ pc[t] = "notify"
  /\ call[t] = "push"
  /\ \/ /\ m_cv_pop = {} \/ Len(m_queue) # 1
        /\ pc' = [pc EXCEPT ![t] = "idle"]
        /\ UNCHANGED m_cv_pop
     \/ \E w \in m_cv_pop :
          /\ Len(m_queue) = 1
          /\ pc' = [pc EXCEPT ![t] = "idle", ![w] = "acquire"]
          /\ m_cv_pop' = m_cv_pop \ {w}
  /\ Leave(t)
  /\ UNCHANGED <<m_queue, m_mutex, m_cv_push, thrown>>

\* Of a thread that pushed: m_cv_pop.notify_one() and the return.  One of the
\* waiters, if there is any, goes back to competing for the mutex.
NotifyPop(t) ==
  /\ pc[t] = "notify"
  /\ call[t] = "push"
  /\ \/ /\ m_cv_pop = {}
        /\ pc' = [pc EXCEPT ![t] = "idle"]
        /\ UNCHANGED m_cv_pop
     \/ \E w \in m_cv_pop :
          /\ pc' = [pc EXCEPT ![t] = "idle", ![w] = "acquire"]
          /\ m_cv_pop' = m_cv_pop \ {w}
  /\ Leave(t)
  /\ UNCHANGED <<m_queue, m_mutex, m_cv_push, thrown>>

\* Mutant of NotifyPush: a pop returns without notifying the producers.
NotifyPushForgotten(t) ==
  /\ Goto(t, "notify", "idle")
  /\ call[t] = "pop"
  /\ Leave(t)
  /\ UNCHANGED <<m_queue, m_mutex, m_cv_push, m_cv_pop, thrown>>

\* Of a thread that popped: m_cv_push.notify_one() and the return.
NotifyPush(t) ==
  /\ pc[t] = "notify"
  /\ call[t] = "pop"
  /\ \/ /\ m_cv_push = {}
        /\ pc' = [pc EXCEPT ![t] = "idle"]
        /\ UNCHANGED m_cv_push
     \/ \E w \in m_cv_push :
          /\ pc' = [pc EXCEPT ![t] = "idle", ![w] = "acquire"]
          /\ m_cv_push' = m_cv_push \ {w}
  /\ Leave(t)
  /\ UNCHANGED <<m_queue, m_mutex, m_cv_pop, thrown>>

Call(t) == CallPop(t) \/ \E v \in Values : CallPush(t, v)

\* What a thread inside a call does on its own.
Step(t) ==
  \/ Acquire(t) \/ Check(t) \/ Block(t)
  \/ Enqueue(t) \/ Dequeue(t) \/ Throw(t)
  \/ Unlock(t) \/ NotifyPop(t) \/ NotifyPush(t)

Next == \E t \in Threads : Call(t) \/ Step(t) \/ SpuriousWake(t)

Spec == Init /\ [][Next]_vars

--------------------------------------------------------------------------------
(* Properties *)

\* The variables keep their types, and m_queue never holds more than m_capacity
\* elements: the predicate of m_cv_push.wait guards m_queue.push.
TypeOK ==
  /\ m_queue \in Seq(Values)
  /\ Len(m_queue) <= Capacity
  /\ m_mutex \in Threads \cup {NoThread}
  /\ m_cv_push \subseteq Threads
  /\ m_cv_pop \subseteq Threads
  /\ call \in [Threads -> {"none", "push", "pop"}]
  /\ value \in [Threads -> Values \cup {NoValue}]
  /\ pc \in [Threads -> Positions]
  /\ thrown \in [push : Nat, pop : Nat]

\* Threads that will still look at the queue, or signal the other side that it
\* changed, before they can fall asleep.
PopCarriers ==
  {t \in Threads : \/ call[t] = "pop" /\ pc[t] \in {"acquire", "check", "access"}
                   \/ call[t] = "push" /\ pc[t] \in {"unlock", "notify"}}
PushCarriers ==
  {t \in Threads : \/ call[t] = "push" /\ pc[t] \in {"acquire", "check", "access"}
                   \/ call[t] = "pop" /\ pc[t] \in {"unlock", "notify"}}

\* No wakeup is lost but by an exception, and each exception loses at most one:
\* while a consumer sleeps, every element in m_queue has a thread of its own that
\* is on its way to pop it or to notify about it, except for one element for each
\* pop that threw; and while a producer sleeps, so has every free place, except
\* for one for each push that threw.  Notifying after lock.unlock(), once for
\* every element, is what this relies on.
NoLostWakeup ==
  /\ m_cv_pop # {} => Len(m_queue) <= Cardinality(PopCarriers) + thrown.pop
  /\ m_cv_push # {} =>
       Capacity - Len(m_queue) <= Cardinality(PushCarriers) + thrown.push

\* Whoever left a member function, by returning or by an exception, no longer
\* owns m_mutex, and only one thread at a time is inside the critical section.
MutexHeldInside ==
  \A t \in Threads : m_mutex = t <=> pc[t] \in Holding

\* What each thread is doing, seen from its caller: push and pop take effect
\* when m_queue changes, with the mutex held.
TookEffect(t) == pc[t] \in {"unlock", "notify"}
Seen ==
  [t \in Threads |->
     CASE call[t] = "none"                   -> [phase |-> "idle"]
       [] call[t] = "push" /\ ~TookEffect(t) -> [phase |-> "push", val |-> value[t]]
       [] call[t] = "push" /\ TookEffect(t)  -> [phase |-> "pushed"]
       [] call[t] = "pop" /\ ~TookEffect(t)  -> [phase |-> "pop"]
       [] call[t] = "pop" /\ TookEffect(t)   -> [phase |-> "popped", val |-> value[t]]]

Fifo == INSTANCE BoundedFifo WITH items <- m_queue, op <- Seen

\* Linearizability: every run of the queue is a run of the bounded FIFO, in
\* which each call takes effect at one instant and elements leave in the order
\* they came in.
ImplementsFifo == Fifo!Spec

================================================================================
