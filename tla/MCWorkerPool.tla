---------------------------- MODULE MCWorkerPool ----------------------------
(* Model-checking instance of WorkerPool: the constants TLC runs it with.  *)
EXTENDS WorkerPool

\* Two worker ids: one more than the largest target, which is what a
\* transient overshoot of updateCluster needs.
MCMaxWorkers == 2
\* A channel smaller than the fleet, so that a full queue is reachable.
MCWorkerCap  == 1
MCTargets    == {0, 1}

\* A fleet of two over a channel of one: the second worker to become
\* ready finds the queue full.
MCColdMaxWorkers == 2
MCColdTargets    == {2}

\* Grow to a fleet larger than the channel, then Close(): the start
\* goroutine of the second worker finds the queue full.
MCOverTargets == {0, 2}
=============================================================================
