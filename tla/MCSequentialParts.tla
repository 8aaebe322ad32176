-------------------------- MODULE MCSequentialParts --------------------------
(* The parts of the library that share nothing, one of them in each behaviour. *)
EXTENDS FixedCapacityQueue, MemoryPool, Optional, Function, CompileTimeGcd,
        Fibonacci, ThreadLocalLifetimeTracker, SignalHandling

CONSTANTS a, b, c, o1, o2, o3, x, y, f1, f2, c1, c2, c3, t1, t2

MCValues == {a, b, c}
MCOptionals == {o1, o2, o3}
MCOptionalValues == {x, y}
MCFunctions == {f1, f2}
MCCallables == {c1, c2, c3}
MCTestThreads == {t1, t2}

VARIABLE part   \* the part that runs

PartsInit ==
  /\ part \in {"queue", "pool", "optional", "function", "gcd", "fibonacci", "tracker", "signals"}
  /\ Init /\ PoolInit /\ OptionalInit /\ FunctionInit /\ GcdInit /\ FibonacciInit
  /\ TrackerInit /\ SignalInit
  /\ part # "optional" => assigns_nothrow

\* A step of a part leaves the variables of the others alone.
PartsNext ==
  /\ \/ part = "queue" /\ Next
     \/ part # "queue" /\ UNCHANGED vars
  /\ \/ part = "pool" /\ PoolNext
     \/ part # "pool" /\ UNCHANGED poolVars
  /\ \/ part = "optional" /\ OptionalNext
     \/ part # "optional" /\ UNCHANGED optionalVars
  /\ \/ part = "function" /\ FunctionNext
     \/ part # "function" /\ UNCHANGED functionVars
  /\ \/ part = "gcd" /\ GcdNext
     \/ part # "gcd" /\ UNCHANGED gcdVars
  /\ \/ part = "fibonacci" /\ FibonacciNext
     \/ part # "fibonacci" /\ UNCHANGED fibonacciVars
  /\ \/ part = "tracker" /\ TrackerNext
     \/ part # "tracker" /\ UNCHANGED trackerVars
  /\ \/ part = "signals" /\ SignalNext
     \/ part # "signals" /\ UNCHANGED signalVars
  /\ UNCHANGED part

partsVars ==
  <<part, vars, poolVars, optionalVars, functionVars, gcdVars, fibonacciVars,
    trackerVars, signalVars>>

PartsSpec == PartsInit /\ [][PartsNext]_partsVars

================================================================================
