---------------------------- MODULE CuckatooMiner ----------------------------
(***************************************************************************)
(* AlgoCuckatoo31Cl (algorithm/grin/AlgoCuckatoo31Cl.cpp): per GPU a thread *)
(* that compiles its kernels (compute/opencl/CLProgramLoader.cpp), takes   *)
(* works from a Grin pool's LazyWorkQueue, lets the device prune the edges *)
(* and leaves the rest of the solve to a TaskExecutorPool all GPUs share.  *)
(* What is computed is CuckatooSolver; here it matters how long. A task is *)
(* known by its GPU: OneTaskPerGpu says that this is enough.               *)
(*                                                                         *)
(* The switcher the works come through has one pool, which exists as long  *)
(* as the algorithm does. Until it is the active pool a thread that asks   *)
(* for a work waits in the switcher, without a timeout; an active pool is  *)
(* only ever replaced, and the switcher's own shutdown comes after the     *)
(* algorithm's destructor. A program that does not compile ends the        *)
(* process and is left out.                                                *)
(***************************************************************************)
EXTENDS LazyWorkQueue

CONSTANTS
    Workers,  \* threads of the executor pool
    Rounds    \* pruneRounds_, 99 in the code

ASSUME CuckatooMinerAssumption == Rounds \in Nat \ {0} /\ Workers # {}

VARIABLES
    terminate,  \* the flag terminate_
    gpu,        \* where the thread of each GPU is
    build,      \* the driver, per program: "building", "built" or "called"
    round,      \* rounds enqueued of a solve that has more to come
    future,     \* taskFuture: "none", "pending" or "ready"
    poolActive, \* the switcher has an active pool
    appPc,      \* the owner: "running", "joinGpus", "notify", "joinWorkers", "closed"
    taskQueue,  \* the tasks of the executor pool, ...
    executor,   \* ... its workers, ...
    task,       \* ... the task each of them runs, ...
    stopping    \* ... and its shutdown flag

Exec == INSTANCE TaskExecutorPool WITH jobQueue <- taskQueue

gpuVars   == <<gpu, build, round, future>>
ownerVars == <<terminate, appPc, poolActive>>
execVars  == <<taskQueue, executor, task, stopping>>
minerVars == <<gpuVars, ownerVars, execVars>>

(* A GPU without an OpenCL device gets no thread.                          *)
MinerInit ==
    /\ Init
    /\ terminate = FALSE
    /\ gpu \in [Gpus -> {"test", "ended"}]
    /\ build = [g \in Gpus |-> "building"]
    /\ round = [g \in Gpus |-> 0]
    /\ future = [g \in Gpus |-> "none"]
    /\ poolActive = FALSE
    /\ appPc = "running"
    /\ Exec!ExecutorInit

At(g, pc) == gpu[g] = pc
GoTo(g, pc) == gpu' = [gpu EXCEPT ![g] = pc]

-----------------------------------------------------------------------------
(* compileCLFile. The wait tests whether a device is still building, goes  *)
(* to sleep, and tests again when it is woken.                             *)

Loading == UNCHANGED <<vars, round, future, ownerVars, execVars>>

StillBuilding(g) ==
    /\ At(g, "test") /\ build[g] = "building"
    /\ GoTo(g, "enter")
    /\ UNCHANGED build /\ Loading

Sleep(g) ==
    /\ At(g, "enter")
    /\ GoTo(g, "asleep")
    /\ UNCHANGED build /\ Loading

Compiled(g) ==
    /\ At(g, "test") /\ build[g] # "building"
    /\ GoTo(g, "loop")
    /\ UNCHANGED build /\ Loading

(* The driver's thread: the status first, then the callback.               *)
BuildEnds(g) ==
    /\ build[g] = "building"
    /\ build' = [build EXCEPT ![g] = "built"]
    /\ UNCHANGED gpu /\ Loading

WakesNobody(g) == gpu

(* notify_one, without the mutex.                                          *)
Woken(g) == IF At(g, "asleep") THEN [gpu EXCEPT ![g] = "test"] ELSE gpu

onDidCompile(g) ==
    /\ build[g] = "built"
    /\ build' = [build EXCEPT ![g] = "called"]
    /\ gpu' = Woken(g)
    /\ Loading

-----------------------------------------------------------------------------
(* run and the part of solve on this thread.                               *)

Solving == UNCHANGED <<build, ownerVars>>

(* Without a work the thread sleeps a while and tries again.               *)
GetWork(g) ==
    /\ At(g, "loop") /\ ~terminate
    /\ poolActive
    /\ tryGetWork(g)
    /\ GoTo(g, IF jobQueue = <<>> THEN "loop" ELSE "prune")
    /\ UNCHANGED <<round, future, execVars>> /\ Solving

(* The switcher has no active pool to ask: from its test of terminate_ on  *)
(* the thread is deaf to it, waits there and comes back without a work.    *)
AwaitPool(g) ==
    /\ At(g, "loop") /\ ~terminate
    /\ ~poolActive
    /\ GoTo(g, "noPool")
    /\ UNCHANGED <<vars, round, future, execVars>> /\ Solving

PoolSeen(g) ==
    /\ At(g, "noPool")
    /\ poolActive
    /\ GoTo(g, "loop")
    /\ UNCHANGED <<vars, round, future, execVars>> /\ Solving

(* A work is valid while the pool keeps its job, expired or not.           *)
abortFn(g) == ~Alive(work[g]) \/ terminate

PruneRound(g) ==
    /\ At(g, "prune")
    /\ \/ abortFn(g) /\ GoTo(g, "loop") /\ round' = [round EXCEPT ![g] = 0]
       \/ ~abortFn(g) /\ round[g] + 1 < Rounds
          /\ UNCHANGED gpu /\ round' = [round EXCEPT ![g] = @ + 1]
       \/ ~abortFn(g) /\ round[g] + 1 = Rounds
          /\ GoTo(g, "finish") /\ round' = [round EXCEPT ![g] = 0]
    /\ UNCHANGED <<vars, future, execVars>> /\ Solving

(* After the last round the device is waited for; the edges are read.      *)
Finish(g) ==
    /\ At(g, "finish")
    /\ GoTo(g, IF abortFn(g) THEN "loop" ELSE "wait")
    /\ UNCHANGED <<vars, round, future, execVars>> /\ Solving

NoWait(g) == TRUE

(* taskFuture.valid() and wait().                                          *)
PreviousDone(g) == future[g] # "pending"

AddTask(g) ==
    /\ At(g, "wait")
    /\ PreviousDone(g)
    /\ Exec!addTask(g)
    /\ future' = [future EXCEPT ![g] = "pending"]
    /\ GoTo(g, "notify")
    /\ UNCHANGED <<vars, round>> /\ Solving

NotifyTask(g) ==
    /\ At(g, "notify")
    /\ Exec!NotifyOne
    /\ GoTo(g, "loop")
    /\ UNCHANGED <<vars, round, future, taskQueue, task, stopping>> /\ Solving

(* The loop ends; the solver is destroyed, which waits for its task.       *)
LeaveLoop(g) ==
    /\ At(g, "loop") /\ terminate
    /\ GoTo(g, "destroy")
    /\ UNCHANGED <<vars, round, future, execVars>> /\ Solving

SolverIdle(g) == future[g] # "pending"

EndThread(g) ==
    /\ At(g, "destroy")
    /\ SolverIdle(g)
    /\ GoTo(g, "ended")
    /\ UNCHANGED <<vars, round, future, execVars>> /\ Solving

-----------------------------------------------------------------------------
(* The executors. A task ends with its promise.                            *)

TaskReturns(w) ==
    /\ executor[w] = "busy"
    /\ future' = [future EXCEPT ![task[w]] = "ready"]
    /\ Exec!TaskDone(w)
    /\ UNCHANGED <<vars, gpu, build, round, ownerVars>>

WorkerLoop(w) ==
    /\ Exec!Sleep(w) \/ Exec!EndWorker(w) \/ Exec!TakeTask(w)
    /\ UNCHANGED <<vars, gpuVars, ownerVars>>

-----------------------------------------------------------------------------
(* ~AlgoCuckatoo31Cl: the threads are joined, then the executors.          *)

Close ==
    /\ appPc = "running"
    /\ terminate' = TRUE
    /\ appPc' = "joinGpus"
    /\ UNCHANGED <<vars, gpuVars, execVars, poolActive>>

Joined == \A g \in Gpus : gpu[g] = "ended"

JoinGpus ==
    /\ appPc = "joinGpus"
    /\ Joined
    /\ Exec!SetStopping
    /\ appPc' = "notify"
    /\ UNCHANGED <<vars, gpuVars, terminate, poolActive>>

NotifyWorkers ==
    /\ appPc = "notify"
    /\ Exec!NotifyAll
    /\ appPc' = "joinWorkers"
    /\ UNCHANGED <<vars, gpuVars, terminate, poolActive, taskQueue, task, stopping>>

JoinWorkers ==
    /\ appPc = "joinWorkers"
    /\ \A w \in Workers : executor[w] = "ended"
    /\ appPc' = "closed"
    /\ UNCHANGED <<vars, gpuVars, terminate, poolActive, execVars>>

-----------------------------------------------------------------------------
(* The switcher's thread finds the pool connected and makes it the active  *)
(* one.                                                                    *)
ChoosePool ==
    /\ ~poolActive
    /\ poolActive' = TRUE
    /\ UNCHANGED <<vars, gpuVars, terminate, appPc, execVars>>

(* What the pool does with its queue.                                      *)
PoolStep ==
    /\ \/ \E cleanFlag \in BOOLEAN : DrawId(cleanFlag)
       \/ EmplaceFront \/ clear \/ expireJobs
    /\ UNCHANGED minerVars

GpuThread(g) ==
    \/ StillBuilding(g) \/ Sleep(g) \/ Compiled(g)
    \/ PoolSeen(g) \/ PruneRound(g) \/ Finish(g) \/ AddTask(g) \/ NotifyTask(g)
    \/ LeaveLoop(g) \/ EndThread(g)
Driver(g) == BuildEnds(g) \/ onDidCompile(g)
Worker(w) == TaskReturns(w) \/ WorkerLoop(w)
Destructor == JoinGpus \/ NotifyWorkers \/ JoinWorkers

MinerNext ==
    \/ PoolStep \/ ChoosePool
    \/ \E g \in Gpus : GetWork(g) \/ AwaitPool(g) \/ GpuThread(g) \/ Driver(g)
    \/ \E w \in Workers : Worker(w)
    \/ Close \/ Destructor

(* Threads run and builds end. A thread that waits for a pool is told soon *)
(* after there is one, but nothing says that there ever is; nor is         *)
(* anything assumed of the pool's jobs or of the demand for works.         *)
MinerFairness ==
    /\ \A g \in Gpus : WF_<<vars, minerVars>>(GpuThread(g)) /\ WF_<<vars, minerVars>>(Driver(g))
    /\ \A w \in Workers : WF_<<vars, minerVars>>(Worker(w))
    /\ WF_<<vars, minerVars>>(Destructor)

MinerSpec == MinerInit /\ [][MinerNext]_<<vars, minerVars>> /\ MinerFairness

-----------------------------------------------------------------------------
MinerTypeOK ==
    /\ terminate \in BOOLEAN
    /\ poolActive \in BOOLEAN
    /\ gpu \in [Gpus -> {"test", "enter", "asleep", "loop", "noPool", "prune", "finish", "wait",
                         "notify", "destroy", "ended"}]
    /\ build \in [Gpus -> {"building", "built", "called"}]
    /\ round \in [Gpus -> 0 .. Rounds - 1]
    /\ future \in [Gpus -> {"none", "pending", "ready"}]
    /\ appPc \in {"running", "joinGpus", "notify", "joinWorkers", "closed"}
    /\ Exec!ExecutorTypeOK(Gpus)

(* The tasks of a GPU that wait or run.                                    *)
Queued(g) == {n \in 1 .. Len(taskQueue) : taskQueue[n] = g}
Running(g) == {w \in Workers : executor[w] = "busy" /\ task[w] = g}

(* No GPU ever has more than one task waiting or running, so that the queue *)
(* is never longer than the number of GPUs however slow the executors are; *)
(* a future is pending exactly while its task is.                          *)
OneTaskPerGpu ==
    \A g \in Gpus :
        /\ future[g] = "pending" <=> Queued(g) # {} \/ Running(g) # {}
        /\ Queued(g) = {} \/ Running(g) = {}
        /\ \A m, n \in Queued(g) : m = n
        /\ \A v, w \in Running(g) : v = w

(* A task refers to its solver and, in resultFn, to the algorithm. Neither *)
(* is gone while a task that refers to it waits or runs, and the executor  *)
(* pool, whose destructor drops tasks, is stopped only when it has none.   *)
TasksHaveTheirSolver ==
    /\ \A g \in Gpus : gpu[g] = "ended" => Queued(g) = {} /\ Running(g) = {}
    /\ \A w \in Workers : executor[w] = "busy" => task[w] \in Gpus
    /\ stopping => taskQueue = <<>> /\ \A w \in Workers : executor[w] # "busy"

ClosingInv ==
    /\ stopping <=> appPc \in {"notify", "joinWorkers", "closed"}
    /\ stopping => \A g \in Gpus : gpu[g] = "ended"

(* No executor sleeps through a task or the end, although both are         *)
(* announced after the mutex was released.                                 *)
TaskSeen ==
    /\ taskQueue # <<>> /\ (\A w \in Workers : executor[w] = "asleep") =>
           \E g \in Gpus : gpu[g] = "notify"
    /\ stopping /\ (\E w \in Workers : executor[w] = "asleep") => appPc = "notify"

MinerInv ==
    /\ MinerTypeOK
    /\ OneTaskPerGpu /\ TasksHaveTheirSolver /\ ClosingInv /\ TaskSeen

(* With the order of the ids of the queue the miner takes its works from.  *)
MinerQueueInv == MinerInv /\ IInv

(* A thread that sleeps in the loader when the callback comes goes on. One *)
(* that the callback overtakes between its test and its sleep does not:    *)
(* Stuck threads are why the properties below are conditional.             *)
LoaderWakes ==
    \A g \in Gpus : (gpu[g] = "asleep" /\ build[g] # "called") ~> gpu[g] # "asleep"

Stuck(g) == gpu[g] = "asleep" /\ build[g] = "called"

(* A thread that has asked for a work before there was any active pool.    *)
AwaitsPool(g) == gpu[g] = "noPool" /\ ~poolActive

(* The destructor returns unless a thread is stuck in the loader, or waits *)
(* in the switcher for a first active pool that never comes: terminate_    *)
(* reaches neither.                                                        *)
MinerCloses ==
    appPc = "joinGpus" /\ (\A g \in Gpus : ~AwaitsPool(g)) ~>
        appPc = "closed" \/ \E g \in Gpus : Stuck(g)
=============================================================================
