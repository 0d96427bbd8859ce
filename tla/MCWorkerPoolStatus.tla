-------------------------- MODULE MCWorkerPoolStatus --------------------------
(* Model-checking instance of WorkerPoolStatus: the constants of           *)
(* MCWorkerPool.                                                           *)
EXTENDS WorkerPoolStatus, MCWorkerPool
=============================================================================
