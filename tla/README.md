# TLA+ models of the open-lambda boss worker pool

This directory holds TLA+ specifications of the Go code under `src/`. Each
comes with TLC configurations that model-check it.

## The system

| Part | Source | What it does |
|---|---|---|
| Worker pool | `src/src/boss/cloudvm/worker.go` | Keeps cloud VMs ("workers") in four maps (`STARTING`, `RUNNING`, `CLEANING`, `DESTROYING`), a `target` size and a channel `queue` of ready workers of capacity `Worker_Cap`. One `sync.Mutex` guards them. |
| Reconciler | `updateCluster` (same file) | Compares the target with the pool and does one of three things: starts workers, evicts ready workers for cleaning, or recovers cleaning workers. It is called by `SetTarget`, by every start goroutine and every delete goroutine, recursively from `recoverWorker`, and by itself after cleaning. |
| Lifecycle goroutines | `startNewWorker`, `cleanWorker`, `detroyWorker` | There are three goroutines per worker:<br>• the start goroutine creates the instance, moves the worker to RUNNING and sends it on `queue` with the lock still held;<br>• the drain goroutine waits until `numTask` is 0, then calls `detroyWorker`;<br>• the delete goroutine deletes the instance and removes the worker. |
| Dispatcher | `RunLambda`, `forwardTask` | Answers 500 if no worker is STARTING or RUNNING; manual mode then returns. Otherwise it takes a worker from `queue`, sends it straight back, increments `numTask`/`totalTask`, calls `Scale` in auto mode, forwards the request and decrements the counters. |
| Scaling policy | `pool.Scale` | `ScalingThreshold` is not in the source; only its call site is. |
| Status | `Size`, `StatusTasks`, `StatusCluster` | Read-only reports of the map sizes and task counts. They take no lock. |
| Platform adapters | `WorkerPoolPlatform` | GCP/Azure/DO/mock implementations; not in the source. |
| Request front end | `src/src/server/lambdaServer.go` lines 1-91 | `getUrlComponents` splits the path; `Invoke` answers 400 unless there is a lambda name after `run`. |
| Generated Azure SDK client | `lambdaServer.go` from line 92 | `VirtualRoutersClient`. Request builders check path parameters in a fixed order; each operation accepts its own status codes; `Begin*` can resume from a token; two pagers follow `NextLink`. |
| Load balancer stub | `src/unnamed/part_000` | Constants only. Not modelled. |

### How the parts interact

- Every goroutine races on the one mutex.
- Several `updateCluster` passes can run at once:
  - one per operator call;
  - one per start goroutine and one per delete goroutine;
  - one per request in auto mode.
- `updateCluster` computes `target - Size()`: `Size()` takes the lock, and `target` is read after it, without the lock.
- The channel is used in three ways:
  - the dispatcher peeks at it (take, then send back);
  - the reconciler evicts from it;
  - the start goroutine fills it while holding the lock.
- The drain goroutine and `recoverWorker` both move a worker out of CLEANING, and neither checks what the other did.
- The status calls read the maps one `len()` or range at a time, without the lock, while the other goroutines write them.

## Modules

| Module | Models | State | Actions |
|---|---|---|---|
| `WorkerPool` | worker pool, reconciler, lifecycle goroutines, dispatcher | `target`, `nextId`, `workers` (map name -> set of ids), `queue`, `lock` (holder or `NoThread`), `numTask`, `totalTask`, `instances` (platform), `pc` per goroutine, `stack` of `updateCluster` frames per goroutine, `held`, `resp` per request | one per lock section or blocking channel operation (see below) |
| `MCWorkerPool` | model values for TLC | | |
| `WorkerPoolStatus` | `StatusCluster`, `StatusTasks`, composed with `WorkerPool` | `st` (the status goroutine's pc, call, locals and output), `seen` (history: what the call would return if taken atomically at each state during the call) | `StatusBegin`; `ClusterRead` (one `len()` per step); `TasksTotal`, `TasksLenRunning`, `TasksLenStarting`, `TasksSum`, `TasksLoad` (one map per step); `PoolStep` is any `WorkerPool` step |
| `MCWorkerPoolStatus` | model values for TLC | | |
| `LambdaServer` | `getUrlComponents`, `Invoke` | `path`, `code`, `img` | `Invoke` |
| `MCLambdaServer` | model values for TLC | | |
| `VirtualRoutersClient` | the generated Azure client | `sub` (client.subscriptionID), `lastLink`, `calls`, `outcome`; pager `pkind`, `prg`, `cur`, `delivered` | `Call` (BeginCreateOrUpdate, BeginDelete, Get), `NewPager`, `NextPage` (Fetcher) |
| `MCVirtualRoutersClient` | model values for TLC | | |

How `WorkerPool` represents the code:

- **Goroutines.** Every goroutine is a thread identified by a pair:
  - `<<"op",o>>` is the o-th operator `SetTarget`/`Close` call;
  - `<<"req",r>>` is the r-th HTTP request;
  - `<<"start",w>>`, `<<"drain",w>>` and `<<"delete",w>>` are worker w's lifecycle goroutines;
  - `<<"main",0>>` is the `SetTarget(1)` of `NewWorkerPool` in auto mode.
- **Lock sections.**
  - A lock section that does not block is one step, guarded by `LockFree`.
  - Two sections hold the lock beyond one step:
    - `WorkerReady` with a full channel keeps the lock until `WorkerEnqueue` can send;
    - `DrainPoll` on a recovered worker returns without unlocking (`lock` stays with a finished goroutine).
- **`updateCluster`.**
  - Its control points are the `pc` of the top stack frame: `size`, `readTarget`, `grow`, `count`, `dequeue`, `clean`, `recoverCount`, `recoverBegin`/`recoverHead`, `recover`.
  - Each has an action named after the statement it runs.
  - `RecoverWorker` pushes a new pass above the recovery loop's frame, because the code calls `updateCluster` recursively from `recoverWorker`.
  - The tail call after cleaning restarts the pass in the same frame.
  - `scaleSize := pool.target - pool.Size()`: Go leaves the order of the two operands open, and gc calls `Size()` first. So `UpdateSize` reads the maps under the lock, and `ReadTarget` then reads `target` without it.
- **`Platform`.** The mock platform answers the request itself (200). When its `w.Write` fails, the handler panics before the decrements; net/http recovers the panic, so the server lives on with `numTask` stuck. The other platforms call `forwardTask`, then decrement.
- **The range over `pool.workers[CLEANING]`.**
  - It follows Go's semantics: any unvisited key still present may be yielded.
  - The loop may end only when no key that was present at the start remains.
- **The operator** is one client: call o starts only after call o-1 has returned.

**No lifecycle refinement.** The pool does not implement the lifecycle of spec §1/§4.B (none → starting → running ⇄ cleaning → destroying → gone). The `pool_state_exclusive` trace leaves a worker in RUNNING and DESTROYING, and once the delete goroutine removes it from DESTROYING it is RUNNING again, with no instance: a worker comes back from DESTROYING. An abstract spec that the code implemented would have to allow that, and would promise nothing, so the project states the defect as `StateExclusive` instead.

How `VirtualRoutersClient` represents the code:
- **Request builders.** A request is abstracted to the first empty path parameter, or `ok`.
- **Server answers.** A status, or `NoResponse` for a transport error. A body is `json` or `garbage`; the `*HandleResponse` operators unmarshal it into a value or a decode error.
- **NextLink.** A page number, `NilLink` or `EmptyLink`.
- **Pager driver.** `NextPage` and `PagerMore` model azcore's `runtime.Pager`, which is not in the repository:
  - `More()` is true before the first page;
  - `NextPage` keeps the current page when the fetch fails.
- **What is checked.** Only `TypeOK`: the pager never delivers more pages than the listing has. The ordering of the pages follows from the model's `Fetcher` and the server's links, and `More()` is the one-line length check of line 347, so a property about them would restate the model.

How `WorkerPoolStatus` represents the code:
- **One status call** by one admin goroutine, once the pool is serving.
- **Reads.** Each `len()` is a step, in the code's order: `StatusCluster` reads STARTING, RUNNING, CLEANING, DESTROYING; `StatusTasks` reads `totalTask`, then `len(RUNNING)`, then `len(STARTING)`, then sums over RUNNING and divides, then ranges over the four maps.
- **A range is one step.** A write to a map during a range is a data race; its outcomes, Go's fatal concurrent map error included, are left out.
- **Composition.** A pool step leaves `st` alone and adds the atomic result of the current state to `seen`; a status step leaves the pool alone.
- **Runs.** The module has no passing run: every true property of the reporter would only restate its reads. `pool_status_snapshot` takes `StatusBegin` and `ClusterRead` on the way to its trace.

`LambdaServer` models a path as a sequence of characters. The alphabet is `/` plus two letters, and `r` stands for `run`. `Split` is Go's `strings.Split` on `/`, written as a recursive operator. Paths with a doubled slash are included although `DefaultServeMux` redirects them to the clean path before `Invoke` runs; that over-approximation changes no checked property.

## Runs

| Run | Config | Expect | What it shows |
|---|---|---|---|
| `pool_auto` | `MCWorkerPool_auto.cfg` | pass | Auto mode: the pool starts with target 1 and each of two requests may set target 0 or 1. This run reaches recovery. `QueueDiscipline`: the queue never holds a worker twice, and every worker it can hand out is only RUNNING. `NoStrandedWorker`: every worker in STARTING, CLEANING or DESTROYING has the goroutine that moves it on. |
| `pool_coldstart` | `MCWorkerPool_coldstart.cfg` | pass | Mock platform, target 2 with channel capacity 1, one request. The second start goroutine blocks on the send with the lock held while the request takes and re-sends; `QueueDiscipline` still holds. The request's `Write` may fail and panic. |
| `pool_converge` | `MCWorkerPool_converge.cfg` | pass | Manual mode under `FairSpec`: two operator calls from {0,1} and one forwarded request. `Convergence` (spec P2): the pool always reaches the last target with CLEANING and DESTROYING empty. Shrinking while a worker is STARTING converges only through the start goroutine's own pass. These bounds reach neither recovery nor a full channel; `pool_overcap_wedge` and `pool_mock_panic_wedge` show it failing when the channel fills or a counter sticks. |
| `pool_state_exclusive` | `MCWorkerPool_StateExclusive.cfg` | violation | `StateExclusive` fails. The worker is cleaned, then recovered by a later `SetTarget(1)`. Its drain goroutine then reads `numTask == 0` and calls `detroyWorker`. The worker ends in RUNNING and DESTROYING, and its VM is deleted. |
| `pool_lock_leak` | `MCWorkerPool_LockHolderAlive.cfg` | violation | `LockHolderAlive` fails. The drain goroutine of a recovered worker with a task in flight returns with the mutex held (worker.go:233-234). |
| `pool_recovered_not_ready` | `MCWorkerPool_RunningIsReady.cfg` | violation | `RunningIsReady` fails. `recoverWorker` never sends the worker on `queue`, although spec 4.B/4.D say it does. |
| `pool_task_on_destroyed` | `MCWorkerPool_TasksOnLiveWorkers.cfg` | violation | `TasksOnLiveWorkers` fails. `RunLambda` re-sends the worker before incrementing `numTask`. In that window the worker is evicted, drained at zero and destroyed, and the request then runs on it. |
| `pool_overcap_wedge` | `MCWorkerPool_OverCap.cfg` | violation | `Convergence` (spec P2) fails under fairness. With no traffic, `SetTarget(2)` over a channel of capacity 1 is followed by `Close()`. The second start goroutine blocks on the full channel while holding the mutex (worker.go:181), and the `updateCluster` pass of `Close()` waits for the mutex forever. Spec §5 says the mutex is taken only for brief critical sections. |
| `pool_mock_panic_wedge` | `MCWorkerPool_MockPanic.cfg` | violation | `Convergence` (spec P2) fails under fairness on the mock platform. The request's `w.Write` fails and RunLambda panics (worker.go:355) after incrementing `numTask` and before decrementing it; net/http recovers. `SetTarget(0)` cleans the worker, and its drain goroutine polls `numTask > 0` forever: the worker stays in CLEANING and its instance is never deleted. |
| `azure_client` | `MCVirtualRoutersClient.cfg` | pass | Names {"", "vr1"}, a 2-page listing, 4 calls. Single calls run with empty parameters, every status and undecodable bodies; a pager's fetches fail and are retried. `TypeOK`: the client's state stays well formed, and a pager never delivers more pages than the listing has. |
| `url_split` | `MCLambdaServer.cfg` | pass | For every `/run/` path of up to 4 more characters, `TypeOK`: `Invoke` answers 400 or 200, and the lambda name it runs contains no `/`. |
| `pool_status_snapshot` | `MCWorkerPoolStatus_snapshot.cfg` | violation | `StatusIsSnapshot` (spec §4.G: the status calls are snapshots taken under a brief lock) fails. `StatusCluster` reads `len(STARTING) = 1`, the start goroutine moves the worker to RUNNING, and the call reads `len(RUNNING) = 1`: one worker is reported twice. |

Every property of a passing run has a mutant in `PROJECT.json`: a plausible bug in the mapped code that TLC catches under that run's config.

### Bounds and why they suffice

**Worker pool.**
- Two worker ids and channel capacity 1 (`MCWorkerPool.tla`). With these the runs reach:
  - one worker in flight while another is evicted;
  - a full channel;
  - the recovery loop with a worker present at the start of the range;
  - a request that holds a worker outside the queue.
- Targets {0,1} give all three branches of `updateCluster`: grow, clean and recover.
- The cold-start and wedge runs use target 2 so that the channel fills. The wedge run has no requests, because a request's receive would free the channel.
- The mock-panic run has the bounds of `pool_converge` with `Platform = "mock"`.
- `scaleSize` takes `Size()` before `target`, so an overshoot needs the target to rise between the two reads. That happens in `pool_auto`, where a request's `Scale` raises it while a recovery's pass runs, and not in `pool_converge`, whose second call lowers it.
- The violation runs need a third operator call (up, down, up) to reach recovery in manual mode.
- Larger bounds (three ids, targets up to 2, two concurrent operators) grow past tens of millions of states, and the traces above need none of them.

**Lambda server.** Suffixes up to length 4 over {`/`,`r`,`f`} include every combination of leading, trailing, doubled and missing slashes. That covers 121 paths.

### Fairness

`FairSpec` is `Spec /\ Fairness`. It is used by `pool_converge`, `pool_overcap_wedge` and `pool_mock_panic_wedge`.
- **Strong fairness per goroutine.** `Fairness` puts one `SF` on each goroutine's steps (`GoroutineStep`). This follows from the Go runtime:
  - the scheduler eventually runs every runnable goroutine;
  - `sync.Mutex` enters starvation mode and hands the lock to a waiter that has waited over 1 ms;
  - goroutines blocked on a channel are served in FIFO order.

  So a goroutine that is enabled infinitely often, even if only intermittently, eventually moves.
- **The operator is one fairness condition.** Its calls come one after another from one client, so they share a single `SF`.
- **The environment is not fair.** `SetTarget` and `RequestArrive` are the operator's and the clients' choices.
- **One `SF` per goroutine keeps checking feasible.** TLC turns the fairness formula into a disjunction of 2^n clauses, one factor of two per `SF`; a separate `SF` per action was too large to check.

The other runs check safety only. Configs set `CHECK_DEADLOCK FALSE` because the system really does stop:
- every bounded operator call and request finishes;
- the leaked lock blocks everyone.

## What is not modelled

- **`runCmd` panicking after ten ssh failures.** This kills the boss process. Nothing is persisted, so there is no restart to model.
- **The telemetry goroutine and the latency sums.** They only log.
- **A map write during a status range.** Go may abort the process with its fatal concurrent map error; the model takes a range as one step.
- **The 500 of auto mode.** RunLambda writes 500 before it tests the scaling mode (worker.go:332), so in auto mode a request with no active worker gets 500 and is then still served; spec §7.4 says only manual mode answers 500. The model has this path (`RequestArrive`), but no run checks it: the project's runs go to the pool's races and wedges. The two unlocked `len()` reads of line 331 are one step.
- **The lifecycle refinement.** It does not hold (see above).
- **The platform adapter and `ScalingThreshold`.** Their code is not in `src/`.
  - An instance is a member of `instances`.
  - The policy picks any target.
- **The generated Azure client's formatting.** URL escaping, query strings, headers and JSON bodies. Also the pollers' own state, which azcore decides.
- **The load balancer stub.** It holds constants only.
- **An unknown `Conf.Platform`.** This leaves `pool` nil and panics at line 86 before any state exists.

## Plan for later work

1. **Done.** Convergence; the lifecycle refinement was dropped because the code does not implement it.
2. **Convergence with recovery.** Check convergence in bounds that reach recovery. Three operator calls make the liveness run too large for now.
3. **Done.** Convergence with target above `Worker_Cap`: it fails (`pool_overcap_wedge`).
4. **Done.** `StatusTasks`/`StatusCluster` as a reader composed with `WorkerPool` (`pool_status_snapshot`).
5. **Done.** The generated Azure client's builders and pagers.
6. **Done.** The mock platform's panic, which skips the decrements (`pool_mock_panic_wedge`).
