\* Manual scaling, cold start: one SetTarget(2) over a channel of
\* capacity 1, and one request.
CONSTANTS
  MaxWorkers <- MCColdMaxWorkers
  WorkerCap  <- MCWorkerCap
  Targets    <- MCColdTargets
  NumOps     = 1
  NumReqs    = 1
  Scaling    = "manual"
  Platform   = "mock"
SPECIFICATION Spec
\* The controller goes idle once the bounded operator calls and requests
\* are used up; that end state is not an error.
CHECK_DEADLOCK FALSE
INVARIANT QueueDiscipline
