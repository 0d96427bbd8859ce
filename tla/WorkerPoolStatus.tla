--------------------------- MODULE WorkerPoolStatus ---------------------------
(***************************************************************************)
(* The status reporter of src/src/boss/cloudvm/worker.go, StatusCluster    *)
(* and StatusTasks, composed with the pool of WorkerPool.                  *)
(*                                                                         *)
(* One admin goroutine makes one status call once the pool is serving.    *)
(* Neither function takes pool.Lock: every len() and every range over a    *)
(* map is a read of its own, and the pool's goroutines run between them.   *)
(* A range is read as one step: a map write in the middle of a range is a  *)
(* data race, whose outcomes (including Go's fatal concurrent map error)   *)
(* are left out.  totalTask and numTask are read atomically.               *)
(*                                                                         *)
(* `seen` is a history variable: the results an atomic call would have     *)
(* returned in each state since the call began.                            *)
(***************************************************************************)
EXTENDS WorkerPool, TLC

VARIABLES
  st,     \* the status goroutine: pc, which call, its locals and its output
  seen    \* the outputs of the same call taken atomically during the call

statusVars == <<st, seen>>

\* The order StatusCluster reads the map lengths in.
ClusterOrder == <<STARTING, RUNNING, CLEANING, DESTROYING>>

\* The ids of all workers, and their loads, as StatusTasks reports them.
Load(ids) == [id \in ids |-> numTask[id]]
AllIds == UNION {workers[s] : s \in PoolStates}

\* What each call returns when nothing runs between its reads.
ClusterNow == [s \in PoolStates |-> Cardinality(workers[s])]
TasksNow ==
  LET n == Cardinality(workers[RUNNING]) + Cardinality(workers[STARTING])
      sum == FoldSet(LAMBDA w, acc : numTask[w] + acc, 0, workers[RUNNING])
  IN  [total |-> totalTask, tpw |-> IF n > 0 THEN sum \div n ELSE 0,
       load |-> Load(AllIds)]
Now(kind) == IF kind = "cluster" THEN ClusterNow ELSE TasksNow

NoCall == [pc |-> "idle", kind |-> "none", i |-> 0, n |-> 0, out |-> <<>>]

InCall == st.pc \notin {"idle", "done"}

-----------------------------------------------------------------------------
(* The status goroutine                                                    *)

\* An admin request calls StatusCluster or StatusTasks.
StatusBegin ==
  /\ Serving
  /\ st.pc = "idle"
  /\ \E kind \in {"cluster", "tasks"} :
       /\ st' = [NoCall EXCEPT !.pc = kind, !.kind = kind, !.i = 1,
                               !.out = IF kind = "cluster"
                                         THEN [s \in {} |-> 0]
                                         ELSE [total |-> 0, tpw |-> 0,
                                               load |-> [id \in {} |-> 0]]]
       /\ seen' = {Now(kind)}
  /\ UNCHANGED vars

\* StatusCluster: output[...] = len(pool.workers[...]), one map per step.
ClusterRead ==
  /\ st.pc = "cluster"
  /\ LET s == ClusterOrder[st.i]
     IN  st' = [st EXCEPT !.out = @ @@ (s :> Cardinality(workers[s])),
                          !.i = @ + 1,
                          !.pc = IF st.i = Len(ClusterOrder) THEN "done" ELSE "cluster"]
  /\ UNCHANGED <<vars, seen>>

\* StatusTasks: output["total tasks"] = int(totalTask).
TasksTotal ==
  /\ st.pc = "tasks"
  /\ st' = [st EXCEPT !.out.total = totalTask, !.pc = "lenRunning"]
  /\ UNCHANGED <<vars, seen>>

\* numWorker := len(pool.workers[RUNNING]) + len(pool.workers[STARTING]),
\* evaluated left to right.
TasksLenRunning ==
  /\ st.pc = "lenRunning"
  /\ st' = [st EXCEPT !.n = Cardinality(workers[RUNNING]), !.pc = "lenStarting"]
  /\ UNCHANGED <<vars, seen>>

TasksLenStarting ==
  /\ st.pc = "lenStarting"
  /\ LET n == st.n + Cardinality(workers[STARTING])
     IN  st' = [st EXCEPT !.n = n, !.pc = IF n > 0 THEN "sum" ELSE "load"]
  /\ UNCHANGED <<vars, seen>>

\* The range over pool.workers[RUNNING] summing numTask, then
\* output["task/worker"] = sumTask / numWorker (integer division).
TasksSum ==
  /\ st.pc = "sum"
  /\ LET sum == FoldSet(LAMBDA w, acc : numTask[w] + acc, 0, workers[RUNNING])
     IN  st' = [st EXCEPT !.out.tpw = sum \div st.n, !.pc = "load"]
  /\ UNCHANGED <<vars, seen>>

\* One map of `for i := 0; i < len(pool.workers); i++`: output[workerId] =
\* int(worker.numTask) for every key of pool.workers[i].
TasksLoad ==
  /\ st.pc = "load"
  /\ LET m == workers[ClusterOrder[st.i]]
     IN  st' = [st EXCEPT !.out.load = Load(m) @@ @,
                          !.i = @ + 1,
                          !.pc = IF st.i = Len(ClusterOrder) THEN "done" ELSE "load"]
  /\ UNCHANGED <<vars, seen>>

-----------------------------------------------------------------------------
(* Composition                                                             *)

\* A step of the pool; a call in progress records what it would return now.
PoolStep ==
  /\ Next
  /\ UNCHANGED st
  /\ seen' = IF InCall THEN seen \cup {Now(st.kind)'} ELSE seen

StatusInit == Init /\ st = NoCall /\ seen = {}

StatusNext ==
  \/ PoolStep
  \/ StatusBegin \/ ClusterRead
  \/ TasksTotal \/ TasksLenRunning \/ TasksLenStarting \/ TasksSum \/ TasksLoad

StatusSpec == StatusInit /\ [][StatusNext]_<<vars, statusVars>>

-----------------------------------------------------------------------------
(* Properties                                                              *)

\* Status is a snapshot (spec 4.G: "computed under a brief lock; they are
\* snapshots"): what StatusCluster or StatusTasks returns is what the call
\* would have returned, taken atomically, at some moment during the call,
\* even when the pool's goroutines move workers between the maps between
\* its unlocked reads.
StatusIsSnapshot == st.pc = "done" => st.out \in seen

=============================================================================
