---------------------------- MODULE MCLFSPSCQueue ----------------------------
(* The ring with enough pushes for both indices to wrap around. *)
EXTENDS LFSPSCQueue

CONSTANTS a, b

MCValues == {a, b}

================================================================================
