--------------------------- MODULE MCPThreadsMutex ---------------------------
(* Three threads share one mutex object. *)
EXTENDS PThreadsMutex

CONSTANTS t1, t2, t3, m1

MCThreads == {t1, t2, t3}
MCMutexes == {m1}

================================================================================
