------------------------------ MODULE BoundedFifo ------------------------------
(***************************************************************************)
(* What a bounded first-in first-out queue promises to its callers: every  *)
(* call takes effect at one instant between its invocation and its return, *)
(* a push takes effect only below the capacity, a pop takes effect only on *)
(* a queue that holds something and hands out its oldest element.  A call  *)
(* may also come back without any effect (refused, or an exception).       *)
(***************************************************************************)
EXTENDS Naturals, Sequences

CONSTANTS
  Threads,   \* the callers
  Values,    \* the elements
  Capacity   \* the largest number of elements held at once

VARIABLES
  items,     \* the elements held, oldest first
  op         \* what each caller is doing

vars == <<items, op>>

Idle       == [phase |-> "idle"]
Pushing(v) == [phase |-> "push", val |-> v]
Pushed     == [phase |-> "pushed"]
Popping    == [phase |-> "pop"]
Popped(v)  == [phase |-> "popped", val |-> v]

Init ==
  /\ items = <<>>
  /\ op = [t \in Threads |-> Idle]

CallPush(t, v) ==
  /\ op[t] = Idle
  /\ op' = [op EXCEPT ![t] = Pushing(v)]
  /\ UNCHANGED items

CallPop(t) ==
  /\ op[t] = Idle
  /\ op' = [op EXCEPT ![t] = Popping]
  /\ UNCHANGED items

PushEffect(t) ==
  /\ op[t].phase = "push"
  /\ Len(items) < Capacity
  /\ items' = Append(items, op[t].val)
  /\ op' = [op EXCEPT ![t] = Pushed]

PopEffect(t) ==
  /\ op[t] = Popping
  /\ items # <<>>
  /\ items' = Tail(items)
  /\ op' = [op EXCEPT ![t] = Popped(Head(items))]

\* The call returns; a call that had no effect yet returns without one.
Return(t) ==
  /\ op[t] # Idle
  /\ op' = [op EXCEPT ![t] = Idle]
  /\ UNCHANGED items

Next ==
  \E t \in Threads :
    \/ \E v \in Values : CallPush(t, v)
    \/ CallPop(t)
    \/ PushEffect(t)
    \/ PopEffect(t)
    \/ Return(t)

Spec == Init /\ [][Next]_vars

================================================================================
