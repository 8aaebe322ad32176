----------------------------- MODULE MCMatrixViews -----------------------------
(* A matrix of three rows and two columns, small numbers and the largest one. *)
EXTENDS MatrixViews

MCSizes == 0 .. 3 \cup {SizeValues - 1}

\* Views that nothing is said of are not followed further.
MCFollowed == ~overflowed

\* What an operation did has no effect on the next ones.
MCView == <<strided, view, overflowed>>

================================================================================
