------------------------------ MODULE WorkerPool ------------------------------
(***************************************************************************)
(* The boss worker pool of src/src/boss/cloudvm/worker.go.                 *)
(*                                                                         *)
(* The pool keeps four maps of workers (STARTING, RUNNING, CLEANING,       *)
(* DESTROYING), a target size and a bounded channel `queue` of ready       *)
(* workers, all guarded by one mutex.  Every goroutine of the code is a    *)
(* thread of the model: the operator's SetTarget calls, the per-worker     *)
(* start, drain and delete goroutines, the HTTP requests of RunLambda and, *)
(* in auto mode, the main goroutine of NewWorkerPool.  updateCluster is    *)
(* run synchronously by whichever goroutine calls it, and calls itself     *)
(* from inside its recovery loop, so each thread has a stack of            *)
(* updateCluster frames.  A lock section without a blocking operation      *)
(* inside is one atomic step guarded by `lock = NoThread`.                 *)
(***************************************************************************)
EXTENDS Integers, Sequences, FiniteSets, SequencesExt

CONSTANTS
  MaxWorkers,   \* bound on the worker ids nextId can mint (1..MaxWorkers)
  WorkerCap,    \* Conf.Worker_Cap, the capacity of pool.queue
  Targets,      \* values an operator (or the scaling policy) sets as target
  NumOps,       \* number of operator SetTarget/Close calls
  NumReqs,      \* number of HTTP requests handled by RunLambda
  Scaling,      \* Conf.Scaling: "manual" or "auto"
  Platform      \* Conf.Platform: "mock" answers in RunLambda itself

ASSUME /\ MaxWorkers \in Nat \ {0}
       /\ WorkerCap \in Nat \ {0}
       /\ Targets \subseteq Nat
       /\ NumOps \in Nat /\ NumReqs \in Nat
       /\ Scaling \in {"manual", "auto"}
       /\ Platform \in {"gcp", "azure", "DO", "mock"}

WorkerIds == 1..MaxWorkers
NoWorker  == 0

\* The four entries of pool.workers, indexed by WorkerState.
STARTING   == "STARTING"
RUNNING    == "RUNNING"
CLEANING   == "CLEANING"
DESTROYING == "DESTROYING"
PoolStates == {STARTING, RUNNING, CLEANING, DESTROYING}

\* Goroutines.  Every thread id is a pair <<kind, index>>.
MainT      == <<"main", 0>>
OpT(o)     == <<"op", o>>
ReqT(r)    == <<"req", r>>
StartT(w)  == <<"start", w>>
DrainT(w)  == <<"drain", w>>
DeleteT(w) == <<"delete", w>>
NoThread   == <<"none", 0>>
Ops  == 1..NumOps
Reqs == 1..NumReqs
Threads ==
  {MainT} \cup {OpT(o) : o \in Ops} \cup {ReqT(r) : r \in Reqs}
    \cup {StartT(w) : w \in WorkerIds} \cup {DrainT(w) : w \in WorkerIds}
    \cup {DeleteT(w) : w \in WorkerIds}

VARIABLES
  target,     \* pool.target
  nextId,     \* pool.nextId
  workers,    \* pool.workers: [PoolStates -> SUBSET WorkerIds]
  queue,      \* pool.queue, a channel of capacity WorkerCap
  lock,       \* holder of the pool mutex, or NoThread
  numTask,    \* worker.numTask
  totalTask,  \* the global totalTask counter
  instances,  \* workers whose cloud instance exists (platform side)
  pc,         \* control point of each goroutine outside updateCluster
  stack,      \* updateCluster frames of each goroutine, top first
  held,       \* worker a request received from the queue
  resp        \* status code written to each request's response

vars == <<target, nextId, workers, queue, lock, numTask, totalTask,
          instances, pc, stack, held, resp>>

-----------------------------------------------------------------------------
(* Pool helpers                                                            *)

\* WorkerPool.Size: the sum of the lengths of the four maps.
Size ==
  Cardinality(workers[STARTING]) + Cardinality(workers[RUNNING])
    + Cardinality(workers[CLEANING]) + Cardinality(workers[DESTROYING])

\* The maps a worker is currently a key of.
StateOf(w) == {s \in PoolStates : w \in workers[s]}

\* delete(pool.workers[from], id); pool.workers[to][id] = worker
Move(w, from, to) ==
  [workers EXCEPT ![from] = @ \ {w}, ![to] = @ \cup {w}]

LockFree == lock = NoThread

\* A fresh activation of updateCluster.  n holds Size(), then scaleSize,
\* then toBeClean, then toBeRecover; i is the loop counter; w the worker being handled;
\* visited and startSet describe the range over pool.workers[CLEANING].
NewPass ==
  [pc |-> "size", n |-> 0, i |-> 0, w |-> NoWorker,
   visited |-> {}, startSet |-> {}]

Top(t) == Head(stack[t])
InPass(t, label) == stack[t] # <<>> /\ Top(t).pc = label
SetTop(t, f) == stack' = [stack EXCEPT ![t] = <<f>> \o Tail(@)]
Return(t)    == stack' = [stack EXCEPT ![t] = Tail(@)]

-----------------------------------------------------------------------------
(* updateCluster                                                           *)

\* scaleSize := pool.target - pool.Size().  Go leaves the order of the two
\* operands open; gc calls Size() first, which reads the maps under the
\* lock, and reads pool.target after the unlock, without the lock.
UpdateSize(t) ==
  /\ InPass(t, "size")
  /\ LockFree
  /\ SetTop(t, [Top(t) EXCEPT !.pc = "readTarget", !.n = Size])
  /\ UNCHANGED <<target, nextId, workers, queue, lock, numTask, totalTask,
                 instances, pc, held, resp>>

\* if scaleSize > 0: grow; otherwise go on to count what to clean.
ReadTarget(t) ==
  /\ InPass(t, "readTarget")
  /\ LET scaleSize == target - Top(t).n
     IN  SetTop(t, [Top(t) EXCEPT !.pc = IF scaleSize > 0 THEN "grow" ELSE "count",
                                  !.n = scaleSize])
  /\ UNCHANGED <<target, nextId, workers, queue, lock, numTask, totalTask,
                 instances, pc, held, resp>>

\* One iteration of the growth loop: startNewWorker allocates the next id,
\* puts the worker in STARTING and spawns its start goroutine.
StartNewWorker(t) ==
  /\ InPass(t, "grow")
  /\ LockFree
  /\ nextId \in WorkerIds
  /\ nextId' = nextId + 1
  /\ workers' = [workers EXCEPT ![STARTING] = @ \cup {nextId}]
  /\ pc' = [pc EXCEPT ![StartT(nextId)] = "create"]
  /\ IF Top(t).i + 1 = Top(t).n
       THEN Return(t)
       ELSE SetTop(t, [Top(t) EXCEPT !.i = @ + 1])
  /\ UNCHANGED <<target, queue, lock, numTask, totalTask, instances, held, resp>>

\* toBeClean := -scaleSize - |CLEANING| - |DESTROYING| - |STARTING|
CountToBeClean(t) ==
  /\ InPass(t, "count")
  /\ LockFree
  /\ LET toBeClean == -Top(t).n - Cardinality(workers[CLEANING])
                       - Cardinality(workers[DESTROYING])
                       - Cardinality(workers[STARTING])
     IN  SetTop(t, [Top(t) EXCEPT !.pc = IF toBeClean > 0 THEN "dequeue"
                                                          ELSE "recoverCount",
                                  !.n = toBeClean, !.i = 0])
  /\ UNCHANGED <<target, nextId, workers, queue, lock, numTask, totalTask,
                 instances, pc, held, resp>>

\* Fault variant: the reconciler peeks like RunLambda (take, then send
\* back) instead of evicting.
DequeueForCleanRotate(t) ==
  /\ InPass(t, "dequeue")
  /\ queue # <<>>
  /\ queue' = Append(Tail(queue), Head(queue))
  /\ SetTop(t, [Top(t) EXCEPT !.pc = "clean", !.w = Head(queue)])
  /\ UNCHANGED <<target, nextId, workers, lock, numTask, totalTask,
                 instances, pc, held, resp>>

\* worker := <-pool.queue, with no lock held; blocks while the queue is empty.
DequeueForClean(t) ==
  /\ InPass(t, "dequeue")
  /\ queue # <<>>
  /\ queue' = Tail(queue)
  /\ SetTop(t, [Top(t) EXCEPT !.pc = "clean", !.w = Head(queue)])
  /\ UNCHANGED <<target, nextId, workers, lock, numTask, totalTask,
                 instances, pc, held, resp>>

\* cleanWorker: move RUNNING -> CLEANING and spawn the drain goroutine.
\* After the last iteration updateCluster calls itself and returns, which is
\* a fresh pass in the same frame.
CleanWorker(t) ==
  /\ InPass(t, "clean")
  /\ LockFree
  /\ LET w == Top(t).w
     IN  /\ workers' = Move(w, RUNNING, CLEANING)
         /\ pc' = [pc EXCEPT ![DrainT(w)] = "test"]
  /\ IF Top(t).i + 1 = Top(t).n
       THEN SetTop(t, NewPass)
       ELSE SetTop(t, [Top(t) EXCEPT !.pc = "dequeue", !.i = @ + 1, !.w = NoWorker])
  /\ UNCHANGED <<target, nextId, queue, lock, numTask, totalTask,
                 instances, held, resp>>

\* toBeRecover := target - |STARTING| - |RUNNING|
CountToBeRecover(t) ==
  /\ InPass(t, "recoverCount")
  /\ LockFree
  /\ LET toBeRecover == target - Cardinality(workers[STARTING])
                         - Cardinality(workers[RUNNING])
     IN  IF toBeRecover > 0
           THEN SetTop(t, [Top(t) EXCEPT !.pc = "recoverBegin", !.n = toBeRecover,
                                         !.visited = {}])
           ELSE Return(t)
  /\ UNCHANGED <<target, nextId, workers, queue, lock, numTask, totalTask,
                 instances, pc, held, resp>>

\* One head of `for _, worker := range pool.workers[CLEANING]`, under the
\* lock.  Go yields each key present when the range began and not deleted
\* since, in any order; a key added during the range may or may not be
\* yielded.  The loop ends when toBeRecover <= 0 or nothing is left.
RecoverHead(t) ==
  /\ InPass(t, "recoverBegin") \/ InPass(t, "recoverHead")
  /\ LockFree
  /\ LET f         == Top(t)
         startSet  == IF f.pc = "recoverBegin" THEN workers[CLEANING] ELSE f.startSet
         left      == workers[CLEANING] \ f.visited
     IN  \/ /\ f.n > 0
            /\ \E w \in left :
                 SetTop(t, [f EXCEPT !.pc = "recover", !.w = w,
                                     !.visited = @ \cup {w}, !.startSet = startSet])
         \/ /\ f.n <= 0 \/ left \cap startSet = {}
            /\ Return(t)
  /\ UNCHANGED <<target, nextId, workers, queue, lock, numTask, totalTask,
                 instances, pc, held, resp>>

\* recoverWorker: move CLEANING -> RUNNING (whatever map the worker is in
\* by now), then call updateCluster; on return the loop decrements
\* toBeRecover and goes back to its head.
RecoverWorker(t) ==
  /\ InPass(t, "recover")
  /\ LockFree
  /\ workers' = Move(Top(t).w, CLEANING, RUNNING)
  /\ stack' = [stack EXCEPT ![t] =
                 <<NewPass, [Top(t) EXCEPT !.pc = "recoverHead", !.n = @ - 1,
                                           !.w = NoWorker]>>
                   \o Tail(@)]
  /\ UNCHANGED <<target, nextId, queue, lock, numTask, totalTask,
                 instances, pc, held, resp>>

UpdateCluster(t) ==
  \/ UpdateSize(t) \/ ReadTarget(t) \/ StartNewWorker(t)
  \/ CountToBeClean(t) \/ DequeueForClean(t) \/ CleanWorker(t)
  \/ CountToBeRecover(t) \/ RecoverHead(t) \/ RecoverWorker(t)

-----------------------------------------------------------------------------
(* Goroutines outside updateCluster                                        *)

Idle(t) == pc[t] = "idle" /\ stack[t] = <<>>

\* The pool has been returned by NewWorkerPool (in auto mode, after its
\* SetTarget(1) has returned); only then can HTTP handlers run.
Serving == stack[MainT] = <<>>

\* SetTarget(v) (Close() is SetTarget(0)) from the operator.  The operator
\* is one client: call o is made once call o-1 has returned.
SetTarget(o, v) ==
  /\ Serving
  /\ Idle(OpT(o))
  /\ o > 1 => pc[OpT(o - 1)] = "done" /\ stack[OpT(o - 1)] = <<>>
  /\ LockFree
  /\ target' = v
  /\ pc' = [pc EXCEPT ![OpT(o)] = "done"]
  /\ stack' = [stack EXCEPT ![OpT(o)] = <<NewPass>>]
  /\ UNCHANGED <<nextId, workers, queue, lock, numTask, totalTask,
                 instances, held, resp>>

\* Close: force-kill the workers, which is SetTarget(0).
Close(o) == SetTarget(o, 0)

\* Fault variant: the worker is announced on the queue as soon as its
\* instance is up, before the lock section moves it to RUNNING.
CreateInstanceEnqueue(w) ==
  /\ pc[StartT(w)] = "create"
  /\ instances' = instances \cup {w}
  /\ queue' = IF Len(queue) < WorkerCap THEN Append(queue, w) ELSE queue
  /\ pc' = [pc EXCEPT ![StartT(w)] = "ready"]
  /\ UNCHANGED <<target, nextId, workers, lock, numTask, totalTask,
                 stack, held, resp>>

\* CreateInstance and the `./ol worker --detach` command over ssh.
CreateInstance(w) ==
  /\ pc[StartT(w)] = "create"
  /\ instances' = instances \cup {w}
  /\ pc' = [pc EXCEPT ![StartT(w)] = "ready"]
  /\ UNCHANGED <<target, nextId, workers, queue, lock, numTask, totalTask,
                 stack, held, resp>>

\* Fault variant: the start goroutine ends without calling updateCluster.
WorkerReadyNoPass(w) ==
  /\ pc[StartT(w)] = "ready"
  /\ LockFree
  /\ workers' = Move(w, STARTING, RUNNING)
  /\ IF Len(queue) < WorkerCap
       THEN /\ queue' = Append(queue, w)
            /\ pc' = [pc EXCEPT ![StartT(w)] = "done"]
            /\ UNCHANGED <<lock, stack>>
       ELSE /\ lock' = StartT(w)
            /\ pc' = [pc EXCEPT ![StartT(w)] = "enqueue"]
            /\ UNCHANGED <<queue, stack>>
  /\ UNCHANGED <<target, nextId, numTask, totalTask, instances, held, resp>>

\* Under the lock: STARTING -> RUNNING, then pool.queue <- worker.  The send
\* blocks while the channel is full, and the lock stays held meanwhile.
WorkerReady(w) ==
  /\ pc[StartT(w)] = "ready"
  /\ LockFree
  /\ workers' = Move(w, STARTING, RUNNING)
  /\ IF Len(queue) < WorkerCap
       THEN /\ queue' = Append(queue, w)
            /\ pc' = [pc EXCEPT ![StartT(w)] = "done"]
            /\ stack' = [stack EXCEPT ![StartT(w)] = <<NewPass>>]
            /\ UNCHANGED lock
       ELSE /\ lock' = StartT(w)
            /\ pc' = [pc EXCEPT ![StartT(w)] = "enqueue"]
            /\ UNCHANGED <<queue, stack>>
  /\ UNCHANGED <<target, nextId, numTask, totalTask, instances, held, resp>>

WorkerEnqueue(w) ==
  /\ pc[StartT(w)] = "enqueue"
  /\ Len(queue) < WorkerCap
  /\ queue' = Append(queue, w)
  /\ lock' = NoThread
  /\ pc' = [pc EXCEPT ![StartT(w)] = "done"]
  /\ stack' = [stack EXCEPT ![StartT(w)] = <<NewPass>>]
  /\ UNCHANGED <<target, nextId, workers, numTask, totalTask, instances,
                 held, resp>>

\* The drain goroutine of cleanWorker: `for worker.numTask > 0`.
DrainTest(w) ==
  /\ pc[DrainT(w)] = "test"
  /\ pc' = [pc EXCEPT ![DrainT(w)] = IF numTask[w] > 0 THEN "poll" ELSE "destroy"]
  /\ UNCHANGED <<target, nextId, workers, queue, lock, numTask, totalTask,
                 instances, stack, held, resp>>

\* Fault variant: the membership test reads the RUNNING map.
DrainPollWrongMap(w) ==
  /\ pc[DrainT(w)] = "poll"
  /\ LockFree
  /\ IF w \in workers[RUNNING]
       THEN /\ pc' = [pc EXCEPT ![DrainT(w)] = "test"]
            /\ UNCHANGED lock
       ELSE /\ pc' = [pc EXCEPT ![DrainT(w)] = "done"]
            /\ lock' = DrainT(w)
  /\ UNCHANGED <<target, nextId, workers, queue, numTask, totalTask,
                 instances, stack, held, resp>>

\* Lock; if the worker left CLEANING, return -- without unlocking.
DrainPoll(w) ==
  /\ pc[DrainT(w)] = "poll"
  /\ LockFree
  /\ IF w \in workers[CLEANING]
       THEN /\ pc' = [pc EXCEPT ![DrainT(w)] = "test"]
            /\ UNCHANGED lock
       ELSE /\ pc' = [pc EXCEPT ![DrainT(w)] = "done"]
            /\ lock' = DrainT(w)
  /\ UNCHANGED <<target, nextId, workers, queue, numTask, totalTask,
                 instances, stack, held, resp>>

\* detroyWorker: CLEANING -> DESTROYING, spawn the delete goroutine.
DestroyWorker(w) ==
  /\ pc[DrainT(w)] = "destroy"
  /\ LockFree
  /\ workers' = Move(w, CLEANING, DESTROYING)
  /\ pc' = [pc EXCEPT ![DrainT(w)] = "done", ![DeleteT(w)] = "delete"]
  /\ UNCHANGED <<target, nextId, queue, lock, numTask, totalTask,
                 instances, stack, held, resp>>

DeleteInstance(w) ==
  /\ pc[DeleteT(w)] = "delete"
  /\ instances' = instances \ {w}
  /\ pc' = [pc EXCEPT ![DeleteT(w)] = "remove"]
  /\ UNCHANGED <<target, nextId, workers, queue, lock, numTask, totalTask,
                 stack, held, resp>>

\* Remove from DESTROYING under the lock, then updateCluster.
RemoveWorker(w) ==
  /\ pc[DeleteT(w)] = "remove"
  /\ LockFree
  /\ workers' = [workers EXCEPT ![DESTROYING] = @ \ {w}]
  /\ pc' = [pc EXCEPT ![DeleteT(w)] = "done"]
  /\ stack' = [stack EXCEPT ![DeleteT(w)] = <<NewPass>>]
  /\ UNCHANGED <<target, nextId, queue, lock, numTask, totalTask,
                 instances, held, resp>>

-----------------------------------------------------------------------------
(* RunLambda                                                               *)

\* The length check reads the maps without the lock.  With no STARTING or
\* RUNNING worker it writes status 500; in manual mode it returns, in auto
\* mode it falls through to the queue with the 500 already written.
RequestArrive(r) ==
  /\ Serving
  /\ Idle(ReqT(r))
  /\ IF Cardinality(workers[STARTING]) + Cardinality(workers[RUNNING]) = 0
       THEN /\ resp' = [resp EXCEPT ![r] = 500]
            /\ pc' = [pc EXCEPT ![ReqT(r)] = IF Scaling = "manual" THEN "done"
                                                                   ELSE "recv"]
       ELSE /\ pc' = [pc EXCEPT ![ReqT(r)] = "recv"]
            /\ UNCHANGED resp
  /\ UNCHANGED <<target, nextId, workers, queue, lock, numTask, totalTask,
                 instances, stack, held>>

\* worker := <-pool.queue
RequestRecv(r) ==
  /\ pc[ReqT(r)] = "recv"
  /\ queue # <<>>
  /\ held' = [held EXCEPT ![r] = Head(queue)]
  /\ queue' = Tail(queue)
  /\ pc' = [pc EXCEPT ![ReqT(r)] = "send"]
  /\ UNCHANGED <<target, nextId, workers, lock, numTask, totalTask,
                 instances, stack, resp>>

\* pool.queue <- worker
RequestSend(r) ==
  /\ pc[ReqT(r)] = "send"
  /\ Len(queue) < WorkerCap
  /\ queue' = Append(queue, held[r])
  /\ pc' = [pc EXCEPT ![ReqT(r)] = "inc"]
  /\ UNCHANGED <<target, nextId, workers, lock, numTask, totalTask,
                 instances, stack, held, resp>>

\* atomic.AddInt32(&worker.numTask, 1); atomic.AddInt32(&totalTask, 1)
RequestInc(r) ==
  /\ pc[ReqT(r)] = "inc"
  /\ numTask' = [numTask EXCEPT ![held[r]] = @ + 1]
  /\ totalTask' = totalTask + 1
  /\ pc' = [pc EXCEPT ![ReqT(r)] = IF Scaling = "auto" THEN "scale" ELSE "forward"]
  /\ UNCHANGED <<target, nextId, workers, queue, lock, instances, stack,
                 held, resp>>

\* pool.Scale(pool) in auto mode.  ScalingThreshold is not in the source:
\* the policy may set any target, through SetTarget, which runs
\* updateCluster on the request's goroutine before forwarding.
Scale(r) ==
  /\ pc[ReqT(r)] = "scale"
  /\ LockFree
  /\ \E v \in Targets : target' = v
  /\ pc' = [pc EXCEPT ![ReqT(r)] = "forward"]
  /\ stack' = [stack EXCEPT ![ReqT(r)] = <<NewPass>>]
  /\ UNCHANGED <<nextId, workers, queue, lock, numTask, totalTask,
                 instances, held, resp>>

\* forwardTask: the request goes to the worker's instance; one that is gone
\* answers 502 (Bad Gateway), a live one 200 or, on a network error, 502.
ForwardStatus(w) == IF w \in instances THEN {200, 502} ELSE {502}

\* Fault variant: a deferred decrement on top of the explicit one.
ForwardTaskDoubleDec(r) ==
  /\ pc[ReqT(r)] = "forward"
  /\ stack[ReqT(r)] = <<>>
  /\ \E code \in ForwardStatus(held[r]) :
       resp' = [resp EXCEPT ![r] = IF @ = 0 THEN code ELSE @]
  /\ numTask' = [numTask EXCEPT ![held[r]] = @ - 2]
  /\ totalTask' = totalTask - 2
  /\ pc' = [pc EXCEPT ![ReqT(r)] = "done"]
  /\ held' = [held EXCEPT ![r] = NoWorker]
  /\ UNCHANGED <<target, nextId, workers, queue, lock, instances, stack>>

\* The status the handler answers; one written earlier (the 500 of auto
\* mode) is kept, as a second WriteHeader has no effect.
Answer(r, code) == resp' = [resp EXCEPT ![r] = IF @ = 0 THEN code ELSE @]

\* atomic.AddInt32(&worker.numTask, -1); atomic.AddInt32(&totalTask, -1)
DecTasks(r) ==
  /\ numTask' = [numTask EXCEPT ![held[r]] = @ - 1]
  /\ totalTask' = totalTask - 1

\* The mock platform answers "hello from <id>" with 200 itself; when the
\* client has gone, w.Write fails and the handler panics before the
\* decrements (net/http recovers the panic and closes the connection).
\* Other platforms call forwardTask, then decrement.  Either way the
\* handler ends, and its local `worker` is gone (held is cleared).
ForwardTask(r) ==
  /\ pc[ReqT(r)] = "forward"
  /\ stack[ReqT(r)] = <<>>
  /\ \/ Platform # "mock" /\ \E code \in ForwardStatus(held[r]) : Answer(r, code)
                         /\ DecTasks(r)
     \/ Platform = "mock" /\ Answer(r, 200) /\ DecTasks(r)
     \/ Platform = "mock" /\ Answer(r, 200) /\ UNCHANGED <<numTask, totalTask>>
  /\ pc' = [pc EXCEPT ![ReqT(r)] = "done"]
  /\ held' = [held EXCEPT ![r] = NoWorker]
  /\ UNCHANGED <<target, nextId, workers, queue, lock, instances, stack>>

-----------------------------------------------------------------------------
(* Specification                                                           *)

\* NewWorkerPool: nextId 1, empty maps, an empty channel; in auto mode the
\* main goroutine runs SetTarget(1), whose updateCluster pass is under way.
Init ==
  /\ target = IF Scaling = "auto" THEN 1 ELSE 0
  /\ nextId = 1
  /\ workers = [s \in PoolStates |-> {}]
  /\ queue = <<>>
  /\ lock = NoThread
  /\ numTask = [w \in WorkerIds |-> 0]
  /\ totalTask = 0
  /\ instances = {}
  /\ pc = [t \in Threads |-> "idle"]
  /\ stack = [t \in Threads |-> IF t = MainT /\ Scaling = "auto"
                                  THEN <<NewPass>> ELSE <<>>]
  /\ held = [r \in Reqs |-> NoWorker]
  /\ resp = [r \in Reqs |-> 0]

Next ==
  \/ \E t \in Threads : UpdateCluster(t)
  \/ \E o \in Ops, v \in Targets : SetTarget(o, v)
  \/ \E o \in Ops : Close(o)
  \/ \E w \in WorkerIds :
       \/ CreateInstance(w) \/ WorkerReady(w) \/ WorkerEnqueue(w)
       \/ DrainTest(w) \/ DrainPoll(w) \/ DestroyWorker(w)
       \/ DeleteInstance(w) \/ RemoveWorker(w)
  \/ \E r \in Reqs :
       \/ RequestArrive(r) \/ RequestRecv(r) \/ RequestSend(r)
       \/ RequestInc(r) \/ Scale(r) \/ ForwardTask(r)

Spec == Init /\ [][Next]_vars

\* Every goroutine step is strongly fair: Go's scheduler runs every runnable
\* goroutine, sync.Mutex hands the lock to a waiter that has waited over a
\* millisecond (starvation mode), and a goroutine blocked on a channel is
\* served in FIFO order once the channel can move.  The operator's calls and
\* the arrival of requests are the environment and are not fair.
\* The steps of goroutine t.
GoroutineStep(t) ==
  \/ UpdateCluster(t)
  \/ \E w \in WorkerIds :
       \/ t = StartT(w) /\ (CreateInstance(w) \/ WorkerReady(w) \/ WorkerEnqueue(w))
       \/ t = DrainT(w) /\ (DrainTest(w) \/ DrainPoll(w) \/ DestroyWorker(w))
       \/ t = DeleteT(w) /\ (DeleteInstance(w) \/ RemoveWorker(w))
  \/ \E r \in Reqs :
       /\ t = ReqT(r)
       /\ \/ RequestRecv(r) \/ RequestSend(r) \/ RequestInc(r)
          \/ Scale(r) \/ ForwardTask(r)

\* The operator's calls come one after another from one client goroutine;
\* the main goroutine only runs updateCluster in auto mode.
OperatorStep == \E o \in Ops : UpdateCluster(OpT(o))
Goroutines ==
  (Threads \ {OpT(o) : o \in Ops}) \ (IF Scaling = "auto" THEN {} ELSE {MainT})

Fairness ==
  /\ SF_vars(OperatorStep)
  /\ \A t \in Goroutines : SF_vars(GoroutineStep(t))

FairSpec == Spec /\ Fairness

-----------------------------------------------------------------------------
(* Properties                                                              *)

Frame == [pc : STRING, n : Int, i : Nat, w : WorkerIds \cup {NoWorker},
          visited : SUBSET WorkerIds, startSet : SUBSET WorkerIds]

TypeOK ==
  /\ target \in Targets \cup {0, 1}
  /\ nextId \in 1..MaxWorkers + 1
  /\ workers \in [PoolStates -> SUBSET WorkerIds]
  /\ queue \in Seq(WorkerIds) /\ Len(queue) <= WorkerCap
  /\ lock \in Threads \cup {NoThread}
  /\ numTask \in [WorkerIds -> Nat]
  /\ totalTask \in Nat
  /\ instances \subseteq WorkerIds
  /\ \A t \in Threads : stack[t] \in Seq(Frame)
  /\ held \in [Reqs -> WorkerIds \cup {NoWorker}]
  /\ resp \in [Reqs -> {0, 200, 500, 502}]

\* Requests holding a worker between `<-pool.queue` and `pool.queue <- worker`.
InHand(w) == {r \in Reqs : pc[ReqT(r)] = "send" /\ held[r] = w}

\* How many times a worker can be handed out by the queue.
ReadyCopies(w) == Len(SelectSeq(queue, LAMBDA x : x = w)) + Cardinality(InHand(w))

\* Ready-queue discipline (spec I3, 4.D): the dispatcher's take-and-resend
\* and the reconciler's eviction never leave a worker twice in the queue,
\* and every worker the queue can hand out is in RUNNING and in no other
\* map -- so cleanWorker only ever evicts a RUNNING worker.
QueueDiscipline ==
  \A w \in WorkerIds :
    /\ ReadyCopies(w) <= 1
    /\ ReadyCopies(w) = 1 => StateOf(w) = {RUNNING}

\* No worker is stranded: a worker in STARTING, CLEANING or DESTROYING has
\* a goroutine that will move it on (its start, drain or delete goroutine).
NoStrandedWorker ==
  \A w \in WorkerIds :
    /\ w \in workers[STARTING]   => pc[StartT(w)] \in {"create", "ready"}
    /\ w \in workers[CLEANING]   => pc[DrainT(w)] \in {"test", "poll", "destroy"}
    /\ w \in workers[DESTROYING] => pc[DeleteT(w)] \in {"delete", "remove"}

\* State exclusivity (spec I1, P1): every worker is a key of at most one of
\* the four maps, whatever the drain goroutine and recoverWorker race.
StateExclusive == \A w \in WorkerIds : Cardinality(StateOf(w)) <= 1

\* The pool mutex is only ever held by a goroutine that will release it: no
\* goroutine returns while holding it (the drain loop of cleanWorker).
LockHolderAlive == lock = NoThread \/ pc[lock] # "done"

\* Recovery re-enqueues (spec 4.D): a worker that is only RUNNING can be
\* handed out by the queue, unless its start goroutine is still waiting to
\* enqueue it or a reconciler has just dequeued it for cleaning.
BeingCleaned(w) == \E t \in Threads : InPass(t, "clean") /\ Top(t).w = w
RunningIsReady ==
  \A w \in WorkerIds :
    StateOf(w) = {RUNNING} =>
      ReadyCopies(w) = 1 \/ pc[StartT(w)] = "enqueue" \/ BeingCleaned(w)

\* Tasks only on live workers (spec I4): a worker with a task in flight is
\* RUNNING or CLEANING, never DESTROYING or gone.
TasksOnLiveWorkers ==
  \A w \in WorkerIds : numTask[w] > 0 => StateOf(w) \cap {RUNNING, CLEANING} # {}


\* Convergence (spec P2): once the operator has made its last SetTarget
\* call, the reconciliation of the start, drain and delete goroutines and
\* of every updateCluster pass brings the pool to |STARTING| + |RUNNING| =
\* target with CLEANING and DESTROYING empty, and it stays there: every
\* drain goroutine sees its numTask fall to 0.
Converged ==
  /\ Cardinality(workers[STARTING]) + Cardinality(workers[RUNNING]) = target
  /\ workers[CLEANING] = {} /\ workers[DESTROYING] = {}
Convergence == <>[]Converged

=============================================================================
