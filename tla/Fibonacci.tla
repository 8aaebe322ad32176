------------------------------- MODULE Fibonacci -------------------------------
(***************************************************************************)
(* The generator of src/coroutines_fibonacci.cpp: fibonacci_limit finds the *)
(* largest number of the sequence that the type can hold, in a loop of its  *)
(* own; fibonacci_numbers yields the sequence up to it, and its consumer    *)
(* may stop at any number.  Integers are unsigned and wrap.                *)
(***************************************************************************)
EXTENDS Naturals

CONSTANTS
  Maxima,    \* std::numeric_limits<T>::max() of the types T (not bool)
  MaxYields  \* the bound on the numbers a consumer takes

ASSUME FibonacciAssumption == Maxima \subseteq Nat \ {0, 1} /\ MaxYields \in Nat

VARIABLES
  fib_max,      \* that of the type at hand, 0 before the templates are instantiated
  fib_pc,       \* "start", "limit" in fibonacci_limit, "yield", "resume", "done"
  fib_current, fib_next,
  fib_limit,
  fib_yields    \* how many numbers were yielded

fibonacciVars == <<fib_max, fib_pc, fib_current, fib_next, fib_limit, fib_yields>>

FibonacciInit ==
  /\ fib_max = 0
  /\ fib_pc = "start"
  /\ fib_current = 0 /\ fib_next = 1
  /\ fib_limit = 0
  /\ fib_yields = 0

InstantiateLimit ==
  /\ fib_pc = "start"
  /\ fib_pc' = "limit"
  /\ fib_max' \in Maxima
  /\ UNCHANGED <<fib_current, fib_next, fib_limit, fib_yields>>

\* next += std::exchange(current, next)
Advance ==
  /\ fib_current' = fib_next
  /\ fib_next' = (fib_next + fib_current) % (fib_max + 1)

\* Mutant of FindLimit: the smaller of the two numbers is taken for the limit.
FindLimitCurrent ==
  /\ fib_pc = "limit"
  /\ IF fib_max - fib_next < fib_current
     THEN fib_limit' = fib_current /\ fib_pc' = "yield" /\ fib_current' = 0 /\ fib_next' = 1
     ELSE Advance /\ UNCHANGED <<fib_pc, fib_limit>>
  /\ UNCHANGED <<fib_max, fib_yields>>

\* fibonacci_limit: next is the limit when the sum would not fit.
FindLimit ==
  /\ fib_pc = "limit"
  /\ IF fib_max - fib_next < fib_current
     THEN fib_limit' = fib_next /\ fib_pc' = "yield" /\ fib_current' = 0 /\ fib_next' = 1
     ELSE Advance /\ UNCHANGED <<fib_pc, fib_limit>>
  /\ UNCHANGED <<fib_max, fib_yields>>

\* co_yield current, to a consumer that asks for another number.
Yield ==
  /\ fib_pc = "yield"
  /\ fib_yields < MaxYields
  /\ fib_yields' = fib_yields + 1
  /\ fib_pc' = "resume"
  /\ UNCHANGED <<fib_max, fib_current, fib_next, fib_limit>>

Resume ==
  /\ fib_pc = "resume"
  /\ IF fib_current = fib_limit
     THEN fib_pc' = "done" /\ UNCHANGED <<fib_current, fib_next>>
     ELSE fib_pc' = "yield" /\ Advance
  /\ UNCHANGED <<fib_max, fib_limit, fib_yields>>

FibonacciNext == InstantiateLimit \/ FindLimit \/ Yield \/ Resume

FibonacciSpec == FibonacciInit /\ [][FibonacciNext]_fibonacciVars

--------------------------------------------------------------------------------
(* Properties *)

\* The numbers of the sequence, 0 first, by their definition.
F[n \in Nat] == IF n < 2 THEN n ELSE F[n - 1] + F[n - 2]

\* What is yielded is the sequence, in order and none of it wrapped, and it ends
\* with the last number that T can hold.
YieldsWholeSequence ==
  /\ fib_pc = "resume" => fib_current = F[fib_yields - 1]
  /\ fib_pc = "done" => F[fib_yields - 1] <= fib_max /\ F[fib_yields] > fib_max

================================================================================
