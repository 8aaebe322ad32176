------------------------------- MODULE SlotPool -------------------------------
(***************************************************************************)
(* What a pool of slots promises: an allocation is given a slot nobody has, *)
(* and fails only when there is none; one whose constructor throws gets     *)
(* nothing.                                                                *)
(***************************************************************************)
CONSTANT Slots

VARIABLES
  live,     \* the slots that are handed out
  result    \* the slot the latest allocation was given, or what became of it

vars == <<live, result>>

Init == live = {} /\ result = <<"none">>

Allocate ==
  \/ \E s \in Slots \ live : live' = live \cup {s} /\ result' = <<"slot", s>>
  \/ live = Slots /\ result' = <<"bad_alloc">> /\ UNCHANGED live

Throw == live # Slots /\ result' = <<"exception">> /\ UNCHANGED live

Deallocate == result' = <<"none">> /\ \E s \in live : live' = live \ {s}

Next == Allocate \/ Throw \/ Deallocate

Spec == Init /\ [][Next]_vars

================================================================================
