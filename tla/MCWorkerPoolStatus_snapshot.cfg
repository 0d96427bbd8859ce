\* Manual scaling, one SetTarget over targets {0, 1} and one request, and
\* one status call: checks StatusIsSnapshot alone.
CONSTANTS
  MaxWorkers <- MCMaxWorkers
  WorkerCap  <- MCWorkerCap
  Targets    <- MCTargets
  NumOps     = 1
  NumReqs    = 1
  Scaling    = "manual"
  Platform   = "gcp"
SPECIFICATION StatusSpec
CHECK_DEADLOCK FALSE
INVARIANT StatusIsSnapshot
