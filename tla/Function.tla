------------------------------- MODULE Function -------------------------------
(***************************************************************************)
(* Function<R(Args...)> (functional/function.hpp): a std::unique_ptr to a   *)
(* callable on the heap.  A callable may itself use any Function while it   *)
(* runs, also the one it was called through; constructing one may throw.    *)
(* The client keeps one rule: it does not replace or destroy a callable     *)
(* that is running (moving it to another Function is no such thing).        *)
(***************************************************************************)
EXTENDS Naturals, Sequences

CONSTANTS
  Functions,    \* the objects of Function
  Callables,    \* those made by std::make_unique<Callable<F>>
  NoCallable,   \* the null pointer
  MaxDepth      \* bound: calls within calls

ASSUME FunctionAssumption == NoCallable \notin Callables /\ MaxDepth \in Nat

VARIABLES
  m_callable,   \* the pointer of each Function, NoCallable also before it exists
  heap,         \* the callables that exist
  running,      \* the callables whose invoke has not returned, outermost first
  fun_result

functionVars == <<m_callable, heap, running, fun_result>>

FunctionInit ==
  /\ m_callable = [f \in Functions |-> NoCallable]
  /\ heap = {}
  /\ running = <<>>
  /\ fun_result = "none"

--------------------------------------------------------------------------------
\* The client's rule.
MayReplace(f) == \A i \in 1 .. Len(running) : running[i] # m_callable[f]

\* Mutant of AssignCallable: the old callable is deleted before the new one is made.
AssignDeletesFirst(f) ==
  /\ MayReplace(f)
  /\ \/ \E c \in Callables \ heap :
          /\ heap' = (heap \ {m_callable[f]}) \cup {c}
          /\ m_callable' = [m_callable EXCEPT ![f] = c]
          /\ fun_result' = "none"
     \/ heap' = heap \ {m_callable[f]} /\ fun_result' = "exception" /\ UNCHANGED m_callable
  /\ UNCHANGED running

\* Assignment of a callable, and (f has none yet) construction from one: the
\* new one is made before the old one is deleted.
AssignCallable(f) ==
  /\ MayReplace(f)
  /\ \/ \E c \in Callables \ heap :
          /\ heap' = (heap \ {m_callable[f]}) \cup {c}
          /\ m_callable' = [m_callable EXCEPT ![f] = c]
          /\ fun_result' = "none"
     \/ fun_result' = "exception" /\ UNCHANGED <<m_callable, heap>>
  /\ UNCHANGED running

\* Mutant of Move: the pointer is copied.
MoveCopies(f, g) ==
  /\ MayReplace(f)
  /\ m_callable' = [m_callable EXCEPT ![f] = m_callable[g]]
  /\ heap' = heap \ ({m_callable[f]} \ {m_callable[g]})
  /\ fun_result' = "none"
  /\ UNCHANGED running

\* Move construction and assignment of g to f: unique_ptr's.
Move(f, g) ==
  /\ f # g => MayReplace(f)
  /\ \/ f = g /\ UNCHANGED <<m_callable, heap>>
     \/ /\ f # g
        /\ m_callable' = [m_callable EXCEPT ![f] = m_callable[g], ![g] = NoCallable]
        /\ heap' = heap \ {m_callable[f]}
  /\ fun_result' = "none"
  /\ UNCHANGED running

DestructFunction(f) ==
  /\ MayReplace(f)
  /\ heap' = heap \ {m_callable[f]}
  /\ m_callable' = [m_callable EXCEPT ![f] = NoCallable]
  /\ fun_result' = "none"
  /\ UNCHANGED running

\* operator()
Invoke(f) ==
  /\ Len(running) < MaxDepth
  /\ \/ /\ m_callable[f] = NoCallable
        /\ fun_result' = "bad_function_call"
        /\ UNCHANGED running
     \/ /\ m_callable[f] # NoCallable
        /\ running' = Append(running, m_callable[f])
        /\ fun_result' = "none"
  /\ UNCHANGED <<m_callable, heap>>

\* The innermost callable returns, or throws, to its caller.
Leave ==
  /\ running # <<>>
  /\ running' = SubSeq(running, 1, Len(running) - 1)
  /\ fun_result' \in {"returned", "exception"}
  /\ UNCHANGED <<m_callable, heap>>

FunctionNext ==
  \/ \E f \in Functions :
       \/ AssignCallable(f) \/ DestructFunction(f) \/ Invoke(f)
       \/ \E g \in Functions : Move(f, g)
  \/ Leave

FunctionSpec == FunctionInit /\ [][FunctionNext]_functionVars

--------------------------------------------------------------------------------
(* Properties *)

\* Every callable that exists is owned by exactly one Function and no Function
\* points to one that does not exist, whatever throws, also inside of calls.
CallablesOwnedOnce ==
  /\ \A f \in Functions : m_callable[f] \in heap \cup {NoCallable}
  /\ \A c \in heap : \E f \in Functions : \A g \in Functions : m_callable[g] = c <=> g = f

\* A callable exists while it runs, even if its Function was moved from, given
\* another callable or destroyed in the meantime.
RunningExists == \A i \in 1 .. Len(running) : running[i] \in heap

================================================================================
