------------------------- MODULE MCFixedCapacityVector -------------------------
(* Two vectors of one type and a third of a larger one. *)
EXTENDS FixedCapacityVector, TLC

CONSTANTS x, y, u, v, w

MCValues == {x, y}
MCVectors == {u, v, w}
MCCapacity == (u :> 2) @@ (v :> 2) @@ (w :> 3)
MCLists == {<<>>, <<x>>, <<y, x>>, <<x, y, y>>, <<y, x, y, x>>}
MCSizes == 0 .. 4

================================================================================
