-------------------------- MODULE MCWorkerTracing --------------------------
(* A worker process with two jobs, the first with a child span.            *)
EXTENDS WorkerTracing

CONSTANTS j, k

MCSpansOf == [x \in {j, k} |-> IF x = j THEN 2 ELSE 1]
=============================================================================
