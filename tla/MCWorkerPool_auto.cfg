\* Auto scaling: NewWorkerPool sets target 1, the policy runs on every request.
CONSTANTS
  MaxWorkers <- MCMaxWorkers
  WorkerCap  <- MCWorkerCap
  Targets    <- MCTargets
  NumOps     = 0
  NumReqs    = 2
  Scaling    = "auto"
  Platform   = "gcp"
SPECIFICATION Spec
\* The controller goes idle once the bounded operator calls and requests
\* are used up; that end state is not an error.
CHECK_DEADLOCK FALSE
INVARIANT TypeOK
INVARIANT QueueDiscipline
INVARIANT NoStrandedWorker
