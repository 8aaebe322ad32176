------------------------------ MODULE MCLRUCache ------------------------------
(* A cache of two entries and memory for four list nodes; three keys and two  *)
(* values.                                                                   *)
EXTENDS LRUCache

CONSTANTS j, k, l, x, y, n1, n2, n3, n4

MCKeys == {j, k, l}
MCValues == {x, y}
MCNodes == {n1, n2, n3, n4}

================================================================================
