--------------------- MODULE BoundedBlockingQueueWorkload ---------------------
(***************************************************************************)
(* The queue under a finite workload: every thread makes a fixed number of *)
(* calls and a fixed number of wakeups are spurious.  This is how a program *)
(* that shuts down uses the queue, and what makes "every call returns" a    *)
(* question about lost wakeups alone: std::mutex is not fair, so with       *)
(* endless calls a thread could compete for it for ever.                   *)
(***************************************************************************)
EXTENDS BoundedBlockingQueue

CONSTANTS
  Calls,       \* how many calls each thread makes
  MaxSpurious  \* how many wakeups are spurious

VARIABLES
  left,        \* the calls each thread has still to make
  spurious     \* the spurious wakeups still to come

wvars == <<vars, left, spurious>>

WInit ==
  /\ Init
  /\ left = [t \in Threads |-> Calls]
  /\ spurious = MaxSpurious

WCall(t) ==
  /\ left[t] > 0
  /\ Call(t)
  /\ left' = [left EXCEPT ![t] = @ - 1]
  /\ UNCHANGED spurious

WStep(t) == Step(t) /\ UNCHANGED <<left, spurious>>

WSpuriousWake(t) ==
  /\ spurious > 0
  /\ SpuriousWake(t)
  /\ spurious' = spurious - 1
  /\ UNCHANGED left

WNext == \E t \in Threads : WCall(t) \/ WStep(t) \/ WSpuriousWake(t)

\* A thread that can run is run: the scheduler starves no thread for ever.
WSpec ==
  /\ WInit
  /\ [][WNext]_wvars
  /\ \A t \in Threads : WF_wvars(WCall(t) \/ WStep(t))

\* With as many pops as pushes, and no element that throws, every call returns: no
\* producer and no consumer sleeps for ever on a condition variable nobody will
\* notify.
EveryCallReturns ==
  [](thrown = [push |-> 0, pop |-> 0])
    => <>[](\A t \in Threads : left[t] = 0 /\ pc[t] = "idle")

================================================================================
