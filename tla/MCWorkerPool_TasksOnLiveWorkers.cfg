\* Manual scaling, two operator calls one after another, one request:
\* checks TasksOnLiveWorkers alone.
CONSTANTS
  MaxWorkers <- MCMaxWorkers
  WorkerCap  <- MCWorkerCap
  Targets    <- MCTargets
  NumOps     = 2
  NumReqs    = 1
  Scaling    = "manual"
  Platform   = "gcp"
SPECIFICATION Spec
CHECK_DEADLOCK FALSE
INVARIANT TasksOnLiveWorkers
