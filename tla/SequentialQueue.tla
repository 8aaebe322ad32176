---------------------------- MODULE SequentialQueue ----------------------------
(***************************************************************************)
(* What a bounded queue used by one thread promises: push accepts an        *)
(* element exactly while there is room, pop hands out the oldest element    *)
(* exactly while there is one, and an operation that throws changes         *)
(* nothing.                                                                *)
(***************************************************************************)
EXTENDS Naturals, Sequences

CONSTANTS Values, Capacity

VARIABLES
  items,    \* the elements, oldest first
  result    \* what the latest operation returned

vars == <<items, result>>

Init == items = <<>> /\ result = "none"

Push(v) ==
  \/ Len(items) < Capacity /\ items' = Append(items, v) /\ result' = "true"
  \/ Len(items) = Capacity /\ UNCHANGED items /\ result' = "false"

Pop ==
  \/ items # <<>> /\ items' = Tail(items) /\ result' = Head(items)
  \/ items = <<>> /\ UNCHANGED items /\ result' = "nullopt"

Clear == items' = <<>> /\ result' = "none"

Throw == UNCHANGED items /\ result' = "exception"

Next == (\E v \in Values : Push(v)) \/ Pop \/ Clear \/ Throw

Spec == Init /\ [][Next]_vars

================================================================================
