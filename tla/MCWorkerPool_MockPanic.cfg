\* The mock platform, manual scaling: two operator calls over {0, 1} and
\* one request whose w.Write may fail; every goroutine strongly fair.
\* Checks Convergence alone.
CONSTANTS
  MaxWorkers <- MCMaxWorkers
  WorkerCap  <- MCWorkerCap
  Targets    <- MCTargets
  NumOps     = 2
  NumReqs    = 1
  Scaling    = "manual"
  Platform   = "mock"
SPECIFICATION FairSpec
CHECK_DEADLOCK FALSE
PROPERTY Convergence
