----------------------------- MODULE MCArcPointer -----------------------------
(* Two threads, three handles and two control blocks. *)
EXTENDS ArcPointer

CONSTANTS t1, t2, h1, h2, h3, b1, b2

MCThreads == {t1, t2}
MCHandles == {h1, h2, h3}
MCBlocks == {b1, b2}

================================================================================
