---------------------- MODULE ThreadLocalLifetimeTracker ----------------------
(***************************************************************************)
(* ThreadLocalLifetimeTracker and its fixture                              *)
(* (testing/thread_local_lifetime_tracker.hpp): the special member functions *)
(* count what happens to objects, for each thread; a fixture starts and     *)
(* ends a test with counters of zero, and the test may reset them itself,   *)
(* whatever it has made until then.  Tests run on several threads at once   *)
(* and leave it open whether objects of one cross into another.            *)
(***************************************************************************)
EXTENDS Integers, FiniteSets

CONSTANTS
  TestThreads,
  Objects,       \* storage for trackers
  NoOne,         \* of an object that does not exist: its maker
  MaxEvents      \* bound: the events between two resets

ASSUME TrackerAssumption == NoOne \notin TestThreads /\ MaxEvents \in Nat

Counters ==
  {"num_constructions", "num_destructions", "num_default_constructions",
   "num_copy_constructions", "num_move_constructions",
   "num_copy_assignments", "num_move_assignments"}

VARIABLES
  counters,   \* the thread-local counters
  testing,    \* the threads with a fixture
  maker,      \* of each object, the thread whose test made it
  crossed,    \* the threads with an object that another thread destroyed, or
              \* that destroyed another's, since their latest reset
  baseline    \* of each thread, the objects it had at its latest reset

trackerVars == <<counters, testing, maker, crossed, baseline>>

Zero == [k \in Counters |-> 0]

TrackerInit ==
  /\ counters = [t \in TestThreads |-> Zero]
  /\ testing = {}
  /\ maker = [o \in Objects |-> NoOne]
  /\ crossed = {}
  /\ baseline = [t \in TestThreads |-> 0]

--------------------------------------------------------------------------------
Made(t) == {o \in Objects : maker[o] = t}

\* What the counters of t are counted from.
Remember(t) ==
  /\ baseline' = [baseline EXCEPT ![t] = Cardinality(Made(t))]
  /\ crossed' = crossed \ {t}

\* Mutant of Reset: the counters are those of all threads.
ResetAll(t) ==
  /\ counters' = [u \in TestThreads |-> Zero]
  /\ Remember(t)

\* reset() on the thread t
Reset(t) ==
  /\ counters' = [counters EXCEPT ![t] = Zero]
  /\ Remember(t)

BeginFixture(t) ==
  /\ t \notin testing
  /\ Reset(t)
  /\ testing' = testing \cup {t}
  /\ UNCHANGED maker

\* The objects of a test are gone when its fixture, made before them, goes.
EndFixture(t) ==
  /\ t \in testing /\ Made(t) = {}
  /\ Reset(t)
  /\ testing' = testing \ {t}
  /\ UNCHANGED maker

\* reset() called by a test, also with objects that are alive.
ResetInTest(t) ==
  /\ t \in testing
  /\ Reset(t)
  /\ UNCHANGED <<testing, maker>>

Count(t, names) ==
  /\ LET of == counters[t]
     IN  of["num_constructions"] + of["num_destructions"]
           + of["num_copy_assignments"] + of["num_move_assignments"] < MaxEvents
  /\ counters' = [counters EXCEPT ![t] = [k \in Counters |->
                    IF k \in names THEN @[k] + 1 ELSE @[k]]]

\* Default, copy and move construction; any object may be the source.
ConstructTracker(t, o) ==
  /\ t \in testing /\ maker[o] = NoOne
  /\ \/ Count(t, {"num_default_constructions", "num_constructions"})
     \/ /\ \E p \in Objects : maker[p] # NoOne
        /\ \E k \in {"num_copy_constructions", "num_move_constructions"} :
             Count(t, {k, "num_constructions"})
  /\ maker' = [maker EXCEPT ![o] = t]
  /\ UNCHANGED <<testing, crossed, baseline>>

\* Assignment, by either operator; to itself nothing is counted.
AssignTracker(t, o, p) ==
  /\ t \in testing /\ NoOne \notin {maker[o], maker[p]}
  /\ \/ o = p /\ UNCHANGED counters
     \/ o # p /\ \E k \in {"num_copy_assignments", "num_move_assignments"} : Count(t, {k})
  /\ UNCHANGED <<testing, maker, crossed, baseline>>

DestroyTracker(t, o) ==
  /\ t \in testing /\ maker[o] # NoOne
  /\ Count(t, {"num_destructions"})
  /\ maker' = [maker EXCEPT ![o] = NoOne]
  /\ crossed' = IF maker[o] = t THEN crossed ELSE crossed \cup {t, maker[o]}
  /\ UNCHANGED <<testing, baseline>>

TrackerNext ==
  \E t \in TestThreads :
    \/ BeginFixture(t) \/ EndFixture(t) \/ ResetInTest(t)
    \/ \E o \in Objects :
         \/ ConstructTracker(t, o) \/ DestroyTracker(t, o)
         \/ \E p \in Objects : AssignTracker(t, o, p)

TrackerSpec == TrackerInit /\ [][TrackerNext]_trackerVars

--------------------------------------------------------------------------------
(* Properties *)

\* "Tests running in parallel do not interfere": since its latest reset, the
\* counters of a thread account for exactly what became of the objects of its own
\* test, whatever the others count and reset; of those alive at a reset the
\* destruction is counted and the construction no longer.  (Until the next reset
\* this is lost once an object is destroyed on another thread than it was made on.)
TestsDoNotInterfere ==
  \A t \in testing \ crossed :
    LET of == counters[t]
    IN  /\ of["num_constructions"] - of["num_destructions"]
             = Cardinality(Made(t)) - baseline[t]
        /\ of["num_constructions"] = of["num_default_constructions"]
             + of["num_copy_constructions"] + of["num_move_constructions"]

================================================================================
