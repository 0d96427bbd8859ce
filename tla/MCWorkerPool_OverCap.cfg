\* Manual scaling with no traffic: SetTarget(2) over a channel of capacity
\* 1, then SetTarget(0) or SetTarget(2); every goroutine strongly fair.
CONSTANTS
  MaxWorkers <- MCColdMaxWorkers
  WorkerCap  <- MCWorkerCap
  Targets    <- MCOverTargets
  NumOps     = 2
  NumReqs    = 0
  Scaling    = "manual"
  Platform   = "gcp"
SPECIFICATION FairSpec
\* The controller goes idle once the bounded operator calls are used up;
\* that end state is not an error.
CHECK_DEADLOCK FALSE
PROPERTY Convergence
