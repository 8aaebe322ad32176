---------------------------- MODULE MCOwningPointer ----------------------------
(* Three handles, three objects, and two deleters. *)
EXTENDS OwningPointer

CONSTANTS h1, h2, h3, o1, o2, o3, d1, d2

MCHandles == {h1, h2, h3}
MCObjects == {o1, o2, o3}
MCDeleters == {d1, d2}

================================================================================
