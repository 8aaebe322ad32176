------------------------ MODULE MCBoundedBlockingQueue ------------------------
(* Two producers and two consumers share a queue of two elements. *)
EXTENDS BoundedBlockingQueueWorkload

CONSTANTS p1, p2, c1, c2, a, b

MCProducers == {p1, p2}
MCConsumers == {c1, c2}
MCValues == {a, b}

================================================================================
