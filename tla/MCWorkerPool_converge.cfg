\* Manual scaling: two operator calls over {0, 1}, one after another, and
\* one request; every goroutine strongly fair.
CONSTANTS
  MaxWorkers <- MCMaxWorkers
  WorkerCap  <- MCWorkerCap
  Targets    <- MCTargets
  NumOps     = 2
  NumReqs    = 1
  Scaling    = "manual"
  Platform   = "gcp"
SPECIFICATION FairSpec
\* The controller goes idle once the bounded operator calls and requests
\* are used up; that end state is not an error.
CHECK_DEADLOCK FALSE
PROPERTY Convergence
