\* Manual scaling, three operator calls one after another, one request:
\* checks StateExclusive alone.
CONSTANTS
  MaxWorkers <- MCMaxWorkers
  WorkerCap  <- MCWorkerCap
  Targets    <- MCTargets
  NumOps     = 3
  NumReqs    = 1
  Scaling    = "manual"
  Platform   = "gcp"
SPECIFICATION Spec
CHECK_DEADLOCK FALSE
INVARIANT StateExclusive
