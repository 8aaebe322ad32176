----------------------------- MODULE ThreadRacer -----------------------------
(***************************************************************************)
(* thread_racer.cpp: main creates num_threads threads, which wait for each *)
(* other at a start gate (an atomic counter, a mutex and a condition        *)
(* variable), race, and hand their result to main through a promise.       *)
(*                                                                         *)
(* The last thread to arrive opens the gate: it increments the counter and *)
(* calls notify_all, both without the mutex.  The others wait for the       *)
(* counter under the mutex.                                                *)
(***************************************************************************)
EXTENDS Naturals, FiniteSets

CONSTANTS
  num_threads,     \* the -n option, checked to be at least 1
  NoThread,        \* "nobody owns the mutex"
  MaySpawnFail     \* whether the constructor of std::jthread may throw

Thread == 1 .. num_threads

ASSUME RacerAssumption ==
  /\ num_threads \in Nat \ {0}
  /\ NoThread \notin Thread
  /\ MaySpawnFail \in BOOLEAN

VARIABLES
  num_threads_ready,   \* the threads that arrived
  mutex,               \* its owner, or NoThread
  cv_start,            \* the threads asleep in cv_start.wait
  pc,                  \* where each thread is
  created,             \* the threads main has created so far
  gathered,            \* the results main has taken from its futures so far
  main                 \* where main is

vars == <<num_threads_ready, mutex, cv_start, pc, created, gathered, main>>

\* Positions of a thread: "absent" not created yet; "begin" about to arrive;
\* "notify" arrived last; "lock" wants the mutex, at first or inside wait;
\* "check" evaluates the predicate; "block" found it false and is about to
\* sleep; "waiting" sleeps; "unlock" found it true; "race"; "done" has set its
\* promise.
Holding == {"check", "block", "unlock"}
Positions == Holding \cup {"absent", "begin", "notify", "lock", "waiting", "race", "done"}

Init ==
  /\ num_threads_ready = 0
  /\ mutex = NoThread
  /\ cv_start = {}
  /\ pc = [t \in Thread |-> "absent"]
  /\ created = 0
  /\ gathered = 0
  /\ main = "create"

mainVars == <<created, gathered, main>>
gateVars == <<num_threads_ready, mutex, cv_start>>

Goto(t, from, to) ==
  /\ pc[t] = from
  /\ pc' = [pc EXCEPT ![t] = to]

--------------------------------------------------------------------------------
(* main *)

Create ==
  /\ main = "create"
  /\ created < num_threads
  /\ Goto(created + 1, "absent", "begin")
  /\ created' = created + 1
  /\ main' = IF created' = num_threads THEN "gather" ELSE "create"
  /\ UNCHANGED <<gateVars, gathered>>

\* A thread cannot be created: main unwinds and joins those it has.
CreateFails ==
  /\ MaySpawnFail
  /\ main = "create"
  /\ main' = "join"
  /\ UNCHANGED <<gateVars, pc, created, gathered>>

\* future.get() of the next thread, in the order of creation.
Gather ==
  /\ main = "gather"
  /\ pc[gathered + 1] = "done"
  /\ gathered' = gathered + 1
  /\ main' = IF gathered' = num_threads THEN "join" ELSE "gather"
  /\ UNCHANGED <<gateVars, pc, created>>

\* The destructors of the threads join them all, and the process ends.
Join ==
  /\ main = "join"
  /\ \A t \in 1 .. created : pc[t] = "done"
  /\ main' = "exit"
  /\ UNCHANGED <<gateVars, pc, created, gathered>>

--------------------------------------------------------------------------------
(* thread_func *)

Arrive(t) ==
  /\ num_threads_ready' = num_threads_ready + 1
  /\ Goto(t, "begin", IF num_threads_ready' = num_threads THEN "notify" ELSE "lock")
  /\ UNCHANGED <<mutex, cv_start, mainVars>>

\* Mutant of NotifyAll: one sleeping thread is woken, not all of them.
NotifyOne(t) ==
  /\ pc[t] = "notify"
  /\ \/ cv_start = {} /\ pc' = [pc EXCEPT ![t] = "race"] /\ UNCHANGED cv_start
     \/ \E w \in cv_start :
          /\ pc' = [pc EXCEPT ![t] = "race", ![w] = "lock"]
          /\ cv_start' = cv_start \ {w}
  /\ UNCHANGED <<num_threads_ready, mutex, mainVars>>

NotifyAll(t) ==
  /\ pc[t] = "notify"
  /\ pc' = [u \in Thread |-> IF u = t THEN "race"
                             ELSE IF u \in cv_start THEN "lock" ELSE pc[u]]
  /\ cv_start' = {}
  /\ UNCHANGED <<num_threads_ready, mutex, mainVars>>

Lock(t) ==
  /\ mutex = NoThread
  /\ Goto(t, "lock", "check")
  /\ mutex' = t
  /\ UNCHANGED <<num_threads_ready, cv_start, mainVars>>

\* Mutant of Check: the predicate counts the thread itself a second time.
CheckOffByOne(t) ==
  /\ Goto(t, "check", IF num_threads_ready + 1 >= num_threads THEN "unlock" ELSE "block")
  /\ UNCHANGED <<gateVars, mainVars>>

\* The predicate of wait, read while the mutex is held.
Check(t) ==
  /\ Goto(t, "check", IF num_threads_ready = num_threads THEN "unlock" ELSE "block")
  /\ UNCHANGED <<gateVars, mainVars>>

Block(t) ==
  /\ Goto(t, "block", "waiting")
  /\ mutex' = NoThread
  /\ cv_start' = cv_start \cup {t}
  /\ UNCHANGED <<num_threads_ready, mainVars>>

SpuriousWake(t) ==
  /\ Goto(t, "waiting", "lock")
  /\ cv_start' = cv_start \ {t}
  /\ UNCHANGED <<num_threads_ready, mutex, mainVars>>

Unlock(t) ==
  /\ Goto(t, "unlock", "race")
  /\ mutex' = NoThread
  /\ UNCHANGED <<num_threads_ready, cv_start, mainVars>>

\* Counts to Goal and sets the promise.
Finish(t) ==
  /\ Goto(t, "race", "done")
  /\ UNCHANGED <<gateVars, mainVars>>

--------------------------------------------------------------------------------
MainStep == Create \/ Gather \/ Join

ThreadStep(t) ==
  \/ Arrive(t) \/ NotifyAll(t) \/ Lock(t) \/ Check(t) \/ Block(t)
  \/ Unlock(t) \/ Finish(t)

\* The process has ended; nothing more happens.
Exited == main = "exit" /\ UNCHANGED vars

Next ==
  \/ MainStep
  \/ CreateFails
  \/ \E t \in Thread : ThreadStep(t) \/ SpuriousWake(t)
  \/ Exited

Spec == Init /\ [][Next]_vars

\* The scheduler runs main and every thread that can run; nobody may rely on a
\* spurious wakeup, nor is the creation of a thread ever obliged to fail.
FairSpec == Spec /\ WF_vars(MainStep) /\ \A t \in Thread : WF_vars(ThreadStep(t))

--------------------------------------------------------------------------------
(* Properties *)

\* The variables keep their types; main has gathered only results that are set,
\* and it is past gathering only when it has them all or creation failed.
TypeOK ==
  /\ num_threads_ready \in 0 .. created
  /\ mutex \in Thread \cup {NoThread}
  /\ cv_start \subseteq Thread
  /\ pc \in [Thread -> Positions]
  /\ created \in 0 .. num_threads
  /\ gathered \in 0 .. num_threads
  /\ main \in {"create", "gather", "join", "exit"}
  /\ \A t \in 1 .. gathered : pc[t] = "done"

\* A fair start: no thread races before every thread has been created and has
\* arrived at the gate, spurious wakeups or not.
FairStart ==
  (\E t \in Thread : pc[t] \in {"race", "done"})
    => \A u \in Thread : pc[u] \notin {"absent", "begin"}

\* A thread that sleeps when the last one is about to notify gets to race.
SleepersReleased ==
  \A t \in Thread :
    (t \in cv_start /\ \E u \in Thread : pc[u] = "notify") ~> pc[t] = "done"

\* The threads race against each other: when they all could be created, every
\* one of them passes the gate and finishes.
EveryThreadRaces == (created = num_threads) ~> (\A t \in Thread : pc[t] = "done")

================================================================================
